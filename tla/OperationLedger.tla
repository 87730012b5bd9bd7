-------------------------- MODULE OperationLedger ---------------------------
(***************************************************************************)
(* What operation.json and the archived receipts promise together to       *)
(* anybody who made or supervises a request: an id is bound to one target  *)
(* when it is opened, one operation is open at a time, and an outcome is   *)
(* given once and kept.  Runner implements this; Supervisor is built on    *)
(* it.                                                                     *)
(***************************************************************************)
CONSTANTS OperationId, Version, Outcome, None

VARIABLES
  ledger,  \* what is recorded of each id
  latest   \* the id operation.json holds

ledgerVars == <<ledger, latest>>

Entry == [target : Version, outcome : Outcome \cup {None}]

Unknown == [target |-> None, outcome |-> None]

IsOpen(id) == ledger[id] # Unknown /\ ledger[id].outcome = None

NothingOpen == \A id \in OperationId : ~IsOpen(id)

LedgerInit == ledger = [id \in OperationId |-> Unknown] /\ latest = None

Open(id, target) ==
  /\ ledger[id] = Unknown /\ NothingOpen
  /\ ledger' = [ledger EXCEPT ![id] = [target |-> target, outcome |-> None]]
  /\ latest' = id

Close(id, outcome) ==
  /\ IsOpen(id)
  /\ ledger' = [ledger EXCEPT ![id].outcome = outcome]
  /\ UNCHANGED latest

LedgerNext ==
  \E id \in OperationId :
    \/ \E target \in Version : Open(id, target)
    \/ \E outcome \in Outcome : Close(id, outcome)

LedgerSpec == LedgerInit /\ [][LedgerNext]_ledgerVars
=============================================================================
