----------------------------- MODULE MCCaseFiling -----------------------------
(***************************************************************************)
(* Instances of CaseFiling for TLC. "Gate" is one filing node with two     *)
(* attempts; "Chain" is a filing, the consulate and a filing that depends  *)
(* on it, as MOFA attestation, consulate passport and residence visa do.   *)
(***************************************************************************)
EXTENDS CaseFiling

GateNodes      == {"MOFA"}
GateDeps       == [n \in GateNodes |-> {}]
GateSuccess    == [n \in GateNodes |-> "CLEARED"]
GateRequired   == [n \in GateNodes |-> {"CERTIFICATE"}]
GateOutputs    == [n \in GateNodes |-> {}]

ChainNodes     == {"MOFA", "CONSULATE", "VISA"}
ChainDeps      == [n \in ChainNodes |->
                    CASE n = "MOFA" -> {} [] n = "CONSULATE" -> {"MOFA"}
                      [] n = "VISA" -> {"CONSULATE"}]
ChainSuccess   == [n \in ChainNodes |->
                    IF n = "CONSULATE" THEN "COMPLETED" ELSE "CLEARED"]
ChainRequired  == [n \in ChainNodes |->
                    IF n = "VISA" THEN {"PASSPORT"} ELSE {}]
ChainOutputs   == [n \in ChainNodes |->
                    IF n = "CONSULATE" THEN {"PASSPORT"} ELSE {}]
================================================================================
