----------------------------- MODULE FileStore ------------------------------
(***************************************************************************)
(* The durable half of K: the write-ahead journal (journal.jsonl) and the  *)
(* slot directories of one state directory (src/src/storage.rs).           *)
(*                                                                         *)
(* Each operator below is one system call, or one fsynced group of calls   *)
(* that a crash cannot split visibly.  The multi-call operations stage,    *)
(* promote, clear and bootstrap are sequences of these steps, so a crash   *)
(* or an I/O error can fall between any two of them.  Every writer holds   *)
(* the upgrade lock, so no step of another worker interleaves.             *)
(***************************************************************************)
EXTENDS Phases

VARIABLES
  journal,  \* the newline-terminated lines of journal.jsonl
  torn,     \* journal.jsonl ends in bytes without a newline
  slots     \* content of each slot directory: a version, None or Partial

storeVars == <<journal, torn, slots>>

\* slots/stable, slots/experiment and the three scratch names next to them.
Dir == Slot \cup {"stable.old", "experiment.staging", "stable.bootstrap"}

\* A complete line that does not parse; K never writes one on purpose.
Unparsable == "unparsable"

Entry == [seq : Nat, intent : Phase \cup {Unparsable}, version : Version \cup {None}]

StoreTypeOK ==
  /\ journal \in Seq(Entry)
  /\ torn \in BOOLEAN
  /\ slots \in [Dir -> Version \cup {None, Partial}]

StoreInit(installed) ==
  /\ journal = <<>>
  /\ torn = FALSE
  /\ slots = [d \in Dir |-> IF d = "stable" THEN installed ELSE None]

-----------------------------------------------------------------------------
(* The journal                                                             *)

\* The phase a reader derives from the journal; a torn tail is ignored.
LastPhase == IF journal = <<>> THEN "idle" ELSE journal[Len(journal)].intent

\* The sequence number after the last line, i.e. `last.seq + 1`, or 0.
NextSeq == IF journal = <<>> THEN 0 ELSE journal[Len(journal)].seq + 1

\* read_journal succeeds: every complete line parses and continues the
\* sequence.  Anything else stops recovery with an error.
JournalReadable ==
  \A i \in 1..Len(journal) :
    /\ journal[i].intent \in Phase
    /\ journal[i].seq = i - 1

\* Mutant: the uncommitted tail is not truncated, so the new line is glued to it.
AppendWithoutRepair(entry) ==
  /\ journal' = Append(journal, IF torn THEN [entry EXCEPT !.intent = Unparsable] ELSE entry)
  /\ torn' = FALSE
  /\ UNCHANGED slots

\* FileStore::append once it succeeds: truncate a torn tail, write one line, fsync.
AppendEntry(entry) ==
  /\ journal' = Append(journal, entry)
  /\ torn' = FALSE
  /\ UNCHANGED slots

\* FileStore::append cut short by a crash or an I/O error: no byte written, a
\* prefix of the line written, or the whole line written before the fsync.
AppendCutShort(entry) ==
  \/ UNCHANGED storeVars
  \/ torn' = FALSE /\ UNCHANGED <<journal, slots>>
  \/ torn' = TRUE /\ UNCHANGED <<journal, slots>>
  \/ AppendEntry(entry)

-----------------------------------------------------------------------------
(* The slot directories                                                    *)

\* FileStore::version succeeds with a version.
Complete(d) == slots[d] \in Version

\* remove_dir of an existing directory, which is not atomic: first some of its
\* files are gone, then the directory itself.
RemoveFiles(d) ==
  /\ slots[d] \notin {None, Partial}
  /\ slots' = [slots EXCEPT ![d] = Partial]
  /\ UNCHANGED <<journal, torn>>

RemoveDir(d) ==
  /\ slots[d] = Partial
  /\ slots' = [slots EXCEPT ![d] = None]
  /\ UNCHANGED <<journal, torn>>

\* populate: an empty directory first, VERSION last.
PopulateBegin(d) ==
  /\ slots' = [slots EXCEPT ![d] = Partial]
  /\ UNCHANGED <<journal, torn>>

PopulateFinish(d, version) ==
  /\ slots' = [slots EXCEPT ![d] = version]
  /\ UNCHANGED <<journal, torn>>

\* rename_durable of one slot directory onto a name that is free.
Rename(from, to) ==
  /\ slots' = [slots EXCEPT ![to] = slots[from], ![from] = None]
  /\ UNCHANGED <<journal, torn>>
=============================================================================
