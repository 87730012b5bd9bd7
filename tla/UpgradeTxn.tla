----------------------------- MODULE UpgradeTxn -----------------------------
(***************************************************************************)
(* What the engine promises a reader who sees neither the journal nor the  *)
(* slots: the installed version is changed only by a transaction, and a    *)
(* transaction commits its candidate in one step or leaves the version     *)
(* exactly as it was.                                                      *)
(***************************************************************************)
CONSTANTS Version, None

VARIABLES
  installed,  \* the version the installation is committed to
  candidate   \* the version of the open transaction, or None

txnVars == <<installed, candidate>>

TxnInit == installed \in Version \cup {None} /\ candidate = None

\* One-time adoption of trusted bytes.
Install ==
  /\ installed = None /\ candidate = None
  /\ installed' \in Version
  /\ UNCHANGED candidate

Begin ==
  /\ installed # None /\ candidate = None
  /\ candidate' \in Version \ {installed}
  /\ UNCHANGED installed

Commit ==
  /\ candidate # None
  /\ installed' = candidate
  /\ candidate' = None

Abort ==
  /\ candidate # None
  /\ candidate' = None
  /\ UNCHANGED installed

TxnNext == Install \/ Begin \/ Commit \/ Abort

TxnSpec == TxnInit /\ [][TxnNext]_txnVars
=============================================================================
