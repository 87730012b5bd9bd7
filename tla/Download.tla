------------------------------ MODULE Download ------------------------------
(***************************************************************************)
(* The resumable, verified download (src/src/artifact.rs).  Attempts       *)
(* follow one another under the upgrade lock, and share the partial file   *)
(* of the URL; connections break, budgets expire, the process dies, and    *)
(* what the URL serves may be another release, of the same size even.      *)
(* Objects are sequences of chunks; a hash tells apart what differs.       *)
(***************************************************************************)
EXTENDS Naturals, Sequences

CONSTANTS
  Version,    \* releases that the URL may serve
  Size,       \* chunks in the transferred object of each
  Wanted,     \* the release the manifest declares
  MaxFaults   \* bound on failures, deaths and publications

ASSUME DownloadAssumption ==
  /\ Size \in [Version -> Nat \ {0}] /\ Wanted \in Version
  /\ MaxFaults \in Nat

VARIABLES
  served,    \* the release behind the URL
  gzip,      \* Release::gzip: absent, or whether it decodes to the release
  partial,   \* the file partial_path names; absent is as good as empty
  at,        \* where the attempt stands
  offset,    \* where the attempt asks the server to begin
  bytes,     \* what it has in memory
  body,      \* what the server has still to send
  rejected,  \* history: attempts rejected since the last fault, counted to 2
  faults     \* faults so far

vars == <<served, gzip, partial, at, offset, bytes, body, rejected, faults>>

\* Chunks: a part of a release, or what a power failure leaves of one.
Garbage == "garbage"
Content == Seq(Version \cup {Garbage})

Object(v) == [i \in 1..Size[v] |-> v]

Declared == Size[Wanted]

Gzip == {"absent", "sound", "broken"}

TypeOK ==
  /\ served \in Version /\ gzip \in Gzip
  /\ partial \in Content /\ Len(partial) <= Declared
  /\ at \in {"idle", "requesting", "receiving", "delivered"}
  /\ offset \in 0..(Declared - 1)
  /\ bytes \in Content /\ Len(bytes) <= Declared
  /\ body \in Content
  /\ rejected \in 0..2 /\ faults \in 0..MaxFaults

Init ==
  /\ served \in Version /\ gzip \in Gzip
  /\ partial = <<>>
  /\ at = "idle" /\ offset = 0 /\ bytes = <<>> /\ body = <<>>
  /\ rejected = 0 /\ faults = 0

Fault == faults < MaxFaults /\ faults' = faults + 1 /\ rejected' = 0
NoFault == UNCHANGED <<faults, rejected>>

-----------------------------------------------------------------------------
(* Downloader::transfer                                                    *)

\* The attempt is over; what it had in memory is gone.
Ends == at' = "idle" /\ offset' = 0 /\ bytes' = <<>> /\ body' = <<>>

Rejected == rejected' = (IF rejected < 2 THEN rejected + 1 ELSE 2) /\ UNCHANGED faults

\* Mutant: a rejected attempt leaves the partial file.
RejectKeeps == UNCHANGED partial /\ Rejected /\ Ends

\* A rejected attempt removes the partial file.
Reject == partial' = <<>> /\ Rejected /\ Ends

\* Mutant: a complete partial file is resumed too.
BeginAtEnd ==
  /\ at = "idle"
  /\ at' = "requesting" /\ offset' = Len(partial)
  /\ UNCHANGED <<served, gzip, partial, bytes, body>> /\ NoFault

\* A partial file shorter than the declared size is resumed, whatever it holds.
Begin ==
  /\ at = "idle"
  /\ at' = "requesting"
  /\ offset' = IF Len(partial) < Declared THEN Len(partial) ELSE 0
  /\ UNCHANGED <<served, gzip, partial, bytes, body>> /\ NoFault

\* Mutant: an ignored range request is appended to the partial file.
RespondFullAppends ==
  /\ at = "requesting"
  /\ at' = "receiving" /\ offset' = 0
  /\ bytes' = <<>> /\ UNCHANGED partial
  /\ body' = Object(served)
  /\ UNCHANGED <<served, gzip>> /\ NoFault

\* Status 200, also in answer to a range request: from the start.
RespondFull ==
  /\ at = "requesting"
  /\ at' = "receiving" /\ offset' = 0
  /\ bytes' = <<>> /\ partial' = <<>>
  /\ body' = Object(served)
  /\ UNCHANGED <<served, gzip>> /\ NoFault

\* Status 206 with the rest of an object of the declared size.
RespondRange ==
  /\ at = "requesting" /\ 0 < offset /\ offset < Size[served] /\ Size[served] = Declared
  /\ at' = "receiving"
  /\ bytes' = partial
  /\ body' = SubSeq(Object(served), offset + 1, Declared)
  /\ UNCHANGED <<served, gzip, partial, offset>> /\ NoFault

\* 206 with a Content-Range of another size, or 416 for an offset behind the
\* end: the partial file stays.
RespondOtherRange ==
  /\ at = "requesting" /\ offset > 0
  /\ Size[served] # Declared \/ offset >= Size[served]
  /\ Ends
  /\ UNCHANGED <<served, gzip, partial>> /\ NoFault

\* Mutant: a chunk is written before the size is looked at.
ReceiveAny ==
  /\ at = "receiving" /\ body # <<>>
  /\ partial' = Append(partial, Head(body))
  /\ bytes' = Append(bytes, Head(body)) /\ body' = Tail(body)
  /\ UNCHANGED <<served, gzip, at, offset>> /\ NoFault

\* A chunk within the declared size goes to the file first.
Receive ==
  /\ at = "receiving" /\ body # <<>> /\ Len(bytes) < Declared
  /\ partial' = Append(partial, Head(body))
  /\ bytes' = Append(bytes, Head(body)) /\ body' = Tail(body)
  /\ UNCHANGED <<served, gzip, at, offset>> /\ NoFault

\* The response exceeds the declared size.
Oversize ==
  /\ at = "receiving" /\ body # <<>> /\ Len(bytes) = Declared
  /\ Reject
  /\ UNCHANGED <<served, gzip>>

Verify == bytes = Object(Wanted)

\* The end of the body: what was received is verified, and download decodes
\* what was compressed.  The file of a download that succeeded stays.
Complete ==
  /\ at = "receiving" /\ body = <<>>
  /\ IF Verify /\ gzip # "broken"
     THEN at' = "delivered" /\ UNCHANGED <<partial, offset, bytes, body>> /\ NoFault
     ELSE Reject
  /\ UNCHANGED <<served, gzip>>

-----------------------------------------------------------------------------
(* Failures                                                                *)

\* An error status, no response in time, or a server that answers another range
\* than it was asked for.
RequestFails ==
  /\ at = "requesting"
  /\ Ends
  /\ UNCHANGED <<served, gzip, partial>> /\ Fault

\* Idle or overall timeout, a broken connection, a chunk that cannot be written
\* or that is written in vain, and the death of the process.
AttemptFails ==
  /\ at = "receiving"
  /\ partial' \in {partial} \cup
       (IF body # <<>> /\ Len(partial) < Declared THEN {Append(partial, Head(body))} ELSE {})
  /\ Ends
  /\ UNCHANGED <<served, gzip>> /\ Fault

\* A body that ends early in an orderly way.
CutShort ==
  /\ at = "receiving" /\ body # <<>>
  /\ body' = <<>>
  /\ UNCHANGED <<served, gzip, partial, at, offset, bytes>> /\ Fault

\* The machine goes down: the file has its length and not yet its data, which is
\* synced at the end of a transfer.
PowerFails ==
  /\ at \in {"requesting", "receiving"}
  /\ partial' \in {partial} \cup
       (IF at = "receiving" /\ partial # <<>> THEN {[partial EXCEPT ![Len(partial)] = Garbage]} ELSE {})
  /\ Ends
  /\ UNCHANGED <<served, gzip>> /\ Fault

\* The URL serves another release.
Publish ==
  /\ \E v \in Version \ {served} : served' = v
  /\ UNCHANGED <<gzip, partial, at, offset, bytes, body>> /\ Fault

\* The bytes are handed over; a later operation may ask for them again.
HandOver ==
  /\ at = "delivered"
  /\ Ends
  /\ UNCHANGED <<served, gzip, partial>> /\ NoFault

-----------------------------------------------------------------------------

Transfers ==
  Begin \/ RespondFull \/ RespondRange \/ RespondOtherRange \/ Receive \/ Oversize \/ Complete
    \/ HandOver

Next ==
  Transfers \/ RequestFails \/ AttemptFails \/ CutShort \/ PowerFails \/ Publish

Spec == Init /\ [][Next]_vars

\* Attempts are repeated, and a server sends what it has.
FairSpec == Spec /\ WF_vars(Transfers)

-----------------------------------------------------------------------------
(* Properties                                                              *)

\* What a resumed attempt builds on is what an earlier one had received: file
\* and memory agree while an attempt is receiving.
FileMirrorsMemory == at = "receiving" => partial = bytes

\* Bytes of another release in the partial file cost one attempt: the next one
\* starts over.
StaleCostsOneAttempt == served = Wanted /\ gzip # "broken" => rejected <= 1

\* As long as the URL serves the declared release, a download succeeds again and
\* again, whatever the partial file holds.
DownloadSucceeds ==
  gzip # "broken" /\ <>[](served = Wanted) => []<>(at = "delivered")
=============================================================================
