--------------------------- MODULE DownloadProofs ---------------------------
(* Proofs for Download, for any releases of any sizes and any number of    *)
(* faults.                                                                 *)
EXTENDS Download, SequenceTheorems, TLAPS

\* Every chunk is of one release.
Of(seq, v) == \A i \in 1..Len(seq) : seq[i] = v

\* An attempt resumes where the partial file ends, or starts over.
OffsetIsEnd == at = "requesting" => offset \in {0, Len(partial)}

\* Since the first attempt that was rejected without a fault after it, all that
\* was kept and all that is to come is of the release being served.
CleanSinceRejected ==
  rejected > 0 =>
    /\ Of(partial, served)
    /\ at = "receiving" => Of(body, served) /\ Len(bytes) + Len(body) = Size[served]

DownloadInv ==
  TypeOK /\ FileMirrorsMemory /\ OffsetIsEnd /\ CleanSinceRejected /\ StaleCostsOneAttempt

-----------------------------------------------------------------------------

\* The sizes are positive numbers.
LEMMA Sizes ==
  ASSUME NEW v \in Version
  PROVE  Size[v] \in Nat \ {0} /\ Declared \in Nat \ {0} /\ Declared = Size[Wanted]
BY DownloadAssumption DEF Declared

\* What a server has behind the URL.
LEMMA ObjectIsContent ==
  ASSUME NEW v \in Version
  PROVE  Object(v) \in Content /\ Len(Object(v)) = Size[v] /\ Of(Object(v), v)
BY Sizes, IsASeq DEF Object, Content, Of

\* Bytes of one release and of its size are that release.
LEMMA ContentIsObject ==
  ASSUME NEW v \in Version, NEW s \in Content, Len(s) = Size[v], Of(s, v)
  PROVE  s = Object(v)
BY LenProperties DEF Object, Content, Of

\* There is no partial file yet.
LEMMA DownloadInvInit == Init => DownloadInv
BY DownloadAssumption, EmptySeq, Sizes
DEF Init, DownloadInv, TypeOK, FileMirrorsMemory, OffsetIsEnd, CleanSinceRejected,
    StaleCostsOneAttempt, Content, Gzip, Of

\* The counters stay within their bounds, and a fault starts a new count.
LEMMA Counters ==
  ASSUME TypeOK, Fault \/ NoFault \/ Rejected
  PROVE  rejected' \in 0..2 /\ faults' \in 0..MaxFaults
BY DownloadAssumption DEF TypeOK, Fault, NoFault, Rejected

\* The end of an attempt that changes the partial file at most in ways that are
\* harmless, and not the release served.
LEMMA EndStep ==
  ASSUME DownloadInv, Ends, UNCHANGED <<served, gzip>>,
         partial' \in Content, Len(partial') <= Declared,
         \/ Fault
         \/ NoFault /\ partial' = partial
         \/ Rejected /\ partial' = <<>> /\ (served = Wanted /\ gzip # "broken" => rejected = 0)
  PROVE  DownloadInv'
<1> USE DEF DownloadInv
<1>1. TypeOK'
  <2>1. rejected' \in 0..2 /\ faults' \in 0..MaxFaults
    BY Counters
  <2> QED BY <2>1, Sizes, EmptySeq, DownloadAssumption DEF TypeOK, Ends, Content
<1>2. FileMirrorsMemory' /\ OffsetIsEnd'
  BY DEF Ends, FileMirrorsMemory, OffsetIsEnd
<1>3. CleanSinceRejected'
  BY DEF Ends, CleanSinceRejected, Fault, NoFault, Rejected, Of, TypeOK
<1>4. StaleCostsOneAttempt'
  BY DEF StaleCostsOneAttempt, Fault, NoFault, Rejected, TypeOK
<1> QED BY <1>1, <1>2, <1>3, <1>4

\* A rejection that costs a second attempt is not one of the declared release.
LEMMA RejectedAtFirst ==
  ASSUME DownloadInv, served = Wanted, at = "receiving",
         \/ body # <<>> /\ Len(bytes) = Declared
         \/ body = <<>> /\ ~Verify
  PROVE  rejected = 0
<1> USE DEF DownloadInv
<1> SUFFICES ASSUME rejected > 0 PROVE FALSE
  BY DEF TypeOK
<1>1. Len(bytes) + Len(body) = Declared /\ Of(bytes, Wanted)
  BY DEF CleanSinceRejected, FileMirrorsMemory, Declared
<1>2. Len(body) \in Nat /\ Len(bytes) \in Nat /\ (Len(body) = 0 <=> body = <<>>)
  BY EmptySeq DEF TypeOK, Content
<1>3. body = <<>> /\ ~Verify
  BY <1>1, <1>2
<1>4. Len(bytes) = Size[Wanted]
  BY <1>1, <1>2, <1>3 DEF Declared
<1>5. bytes = Object(Wanted)
  BY <1>1, <1>4, ContentIsObject, DownloadAssumption DEF TypeOK
<1> QED BY <1>3, <1>5 DEF Verify

-----------------------------------------------------------------------------

\* An attempt begins and is answered.
LEMMA RequestStep ==
  ASSUME DownloadInv, Begin \/ RespondFull \/ RespondRange
  PROVE  DownloadInv'
<1> USE DEF DownloadInv
<1>0. Declared \in Nat \ {0} /\ Size[served] \in Nat \ {0} /\ Len(partial) \in Nat
  BY Sizes DEF TypeOK, Content
<1>1. CASE Begin
  <2>1. TypeOK'
    BY <1>0, <1>1 DEF Begin, NoFault, TypeOK
  <2>2. FileMirrorsMemory' /\ OffsetIsEnd' /\ CleanSinceRejected' /\ StaleCostsOneAttempt'
    BY <1>1
    DEF Begin, NoFault, FileMirrorsMemory, OffsetIsEnd, CleanSinceRejected, StaleCostsOneAttempt
  <2> QED BY <2>1, <2>2
<1>2. CASE RespondFull
  <2>1. body' \in Content /\ Len(body') = Size[served] /\ Of(body', served)
    BY <1>2, ObjectIsContent DEF RespondFull, TypeOK
  <2>2. TypeOK'
    BY <1>0, <1>2, <2>1, EmptySeq DEF RespondFull, NoFault, TypeOK, Content
  <2>3. FileMirrorsMemory' /\ OffsetIsEnd' /\ StaleCostsOneAttempt'
    BY <1>2 DEF RespondFull, NoFault, FileMirrorsMemory, OffsetIsEnd, StaleCostsOneAttempt
  <2>4. CleanSinceRejected'
    BY <1>0, <1>2, <2>1 DEF RespondFull, NoFault, CleanSinceRejected, Of
  <2> QED BY <2>2, <2>3, <2>4
<1>3. CASE RespondRange
  <2>1. offset \in Nat /\ 0 < offset /\ offset < Declared /\ offset = Len(partial) /\ Size[served] = Declared
    BY <1>0, <1>3 DEF RespondRange, OffsetIsEnd, TypeOK
  <2>2. Object(served) \in Seq(Version \cup {Garbage}) /\ Len(Object(served)) = Declared /\ Of(Object(served), served)
    BY <2>1, ObjectIsContent DEF TypeOK, Content
  <2>3. body' = SubSeq(Object(served), offset + 1, Declared)
    BY <1>3 DEF RespondRange
  <2>4. /\ body' \in Seq(Version \cup {Garbage}) /\ Len(body') = Declared - offset
        /\ \A i \in 1..Len(body') : body'[i] = Object(served)[offset + i]
    <3>1. offset + 1 \in 1..(Declared + 1) /\ Declared \in offset..Declared
      BY <1>0, <2>1
    <3> QED BY <1>0, <2>1, <2>2, <2>3, <3>1
  <2>5. Of(body', served)
    BY <1>0, <2>1, <2>2, <2>4 DEF Of
  <2>6. TypeOK'
    BY <1>3, <2>4 DEF RespondRange, NoFault, TypeOK, Content
  <2>7. FileMirrorsMemory' /\ OffsetIsEnd' /\ StaleCostsOneAttempt'
    BY <1>3 DEF RespondRange, NoFault, FileMirrorsMemory, OffsetIsEnd, StaleCostsOneAttempt
  <2>8. CleanSinceRejected'
    BY <1>0, <1>3, <2>1, <2>4, <2>5 DEF RespondRange, NoFault, CleanSinceRejected
  <2> QED BY <2>6, <2>7, <2>8
<1> QED BY <1>1, <1>2, <1>3

\* A chunk arrives.
LEMMA ReceiveStep ==
  ASSUME DownloadInv, Receive
  PROVE  DownloadInv'
<1> USE DEF DownloadInv
<1>1. /\ partial = bytes /\ bytes \in Seq(Version \cup {Garbage}) /\ body \in Seq(Version \cup {Garbage})
      /\ body # <<>> /\ Len(bytes) < Declared /\ Declared \in Nat
      /\ partial' = Append(bytes, Head(body)) /\ bytes' = Append(bytes, Head(body)) /\ body' = Tail(body)
  BY DownloadAssumption, Sizes DEF Receive, FileMirrorsMemory, TypeOK, Content
<1>2. /\ Head(body) \in Version \cup {Garbage} /\ Head(body) = body[1] /\ Len(body) > 0
      /\ Tail(body) \in Seq(Version \cup {Garbage}) /\ Len(Tail(body)) = Len(body) - 1
      /\ \A i \in 1..Len(Tail(body)) : Tail(body)[i] = body[i + 1]
  BY <1>1, HeadTailProperties
<1>3. /\ bytes' \in Seq(Version \cup {Garbage}) /\ Len(bytes') = Len(bytes) + 1
      /\ \A i \in 1..Len(bytes) : bytes'[i] = bytes[i]
      /\ bytes'[Len(bytes) + 1] = body[1]
  BY <1>1, <1>2, AppendProperties
<1>4. TypeOK'
  BY <1>1, <1>2, <1>3 DEF Receive, NoFault, TypeOK, Content
<1>5. FileMirrorsMemory' /\ OffsetIsEnd' /\ StaleCostsOneAttempt'
  BY <1>1 DEF Receive, NoFault, FileMirrorsMemory, OffsetIsEnd, StaleCostsOneAttempt
<1>6. CleanSinceRejected'
  <2> SUFFICES ASSUME rejected > 0 PROVE Of(bytes', served) /\ Of(body', served) /\ Len(bytes') + Len(body') = Size[served]
    BY <1>1 DEF Receive, NoFault, CleanSinceRejected
  <2>1. Of(bytes, served) /\ Of(body, served) /\ Len(bytes) + Len(body) = Size[served]
    BY <1>1 DEF Receive, CleanSinceRejected
  <2>2. Len(bytes) \in Nat /\ Len(body) \in Nat
    BY <1>1
  <2>3. Of(bytes', served)
    <3>1. body[1] = served
      BY <1>2, <2>1, <2>2 DEF Of
    <3> SUFFICES ASSUME NEW i \in 1..Len(bytes') PROVE bytes'[i] = served
      BY DEF Of
    <3>2. CASE i \in 1..Len(bytes)
      BY <1>3, <2>1, <3>2 DEF Of
    <3>3. CASE i = Len(bytes) + 1
      BY <1>3, <3>1, <3>3
    <3> QED BY <1>3, <2>2, <3>2, <3>3
  <2>4. Of(body', served)
    <3> SUFFICES ASSUME NEW i \in 1..Len(body') PROVE body'[i] = served
      BY DEF Of
    <3>1. i \in 1..Len(Tail(body)) /\ i + 1 \in 1..Len(body)
      BY <1>1, <1>2, <2>2
    <3> QED BY <1>1, <1>2, <2>1, <3>1 DEF Of
  <2>5. Size[served] \in Nat /\ Len(bytes') + Len(body') = Size[served]
    <3>1. Len(body') = Len(body) - 1 /\ Size[served] \in Nat
      BY <1>1, <1>2, Sizes DEF TypeOK
    <3> QED BY <1>3, <2>1, <2>2, <3>1
  <2> QED BY <2>3, <2>4, <2>5
<1> QED BY <1>4, <1>5, <1>6

\* An attempt ends in the code, with or without its bytes.
LEMMA FinishStep ==
  ASSUME DownloadInv, RespondOtherRange \/ Oversize \/ Complete \/ HandOver
  PROVE  DownloadInv'
<1> USE DEF DownloadInv
<1>1. CASE RespondOtherRange \/ HandOver
  BY <1>1, EndStep DEF RespondOtherRange, HandOver, TypeOK
<1>2. CASE Oversize
  BY <1>2, EndStep, RejectedAtFirst, EmptySeq, Sizes DEF Oversize, Reject, TypeOK, Content
<1>3. CASE Complete /\ Verify /\ gzip # "broken"
  BY <1>3
  DEF Complete, NoFault, TypeOK, FileMirrorsMemory, OffsetIsEnd, CleanSinceRejected,
      StaleCostsOneAttempt
<1>4. CASE Complete /\ ~(Verify /\ gzip # "broken")
  <2>1. at = "receiving" /\ body = <<>> /\ Reject /\ UNCHANGED <<served, gzip>>
    BY <1>4 DEF Complete
  <2>2. partial' = <<>> /\ Rejected /\ Ends
    BY <2>1 DEF Reject
  <2>3. served = Wanted /\ gzip # "broken" => rejected = 0
    <3> SUFFICES ASSUME served = Wanted, gzip # "broken" PROVE rejected = 0
      OBVIOUS
    <3>1. ~Verify
      BY <1>4
    <3> QED BY <2>1, <3>1, RejectedAtFirst
  <2>4. partial' \in Content /\ Len(partial') <= Declared
    BY <2>2, EmptySeq, Sizes, DownloadAssumption DEF Content
  <2> QED BY <2>1, <2>2, <2>3, <2>4, EndStep
<1> QED BY <1>1, <1>2, <1>3, <1>4

\* Failures of the connection, the process, the machine; another release.
LEMMA FailureStep ==
  ASSUME DownloadInv, RequestFails \/ AttemptFails \/ CutShort \/ PowerFails \/ Publish
  PROVE  DownloadInv'
<1> USE DEF DownloadInv
<1>0. Declared \in Nat /\ partial \in Seq(Version \cup {Garbage}) /\ Len(partial) \in Nat
  BY DownloadAssumption, Sizes DEF TypeOK, Content
<1>1. CASE RequestFails
  BY <1>1, EndStep DEF RequestFails, TypeOK
<1>2. CASE AttemptFails
  <2>1. partial' \in Content /\ Len(partial') <= Declared
    <3>1. CASE partial' = partial
      BY <3>1 DEF TypeOK
    <3>2. CASE body # <<>> /\ Len(partial) < Declared /\ partial' = Append(partial, Head(body))
      <4>1. Head(body) \in Version \cup {Garbage}
        BY <3>2, HeadTailProperties DEF TypeOK, Content
      <4> QED BY <1>0, <3>2, <4>1, AppendProperties DEF Content
    <3> QED BY <1>2, <3>1, <3>2 DEF AttemptFails
  <2> QED BY <1>2, <2>1, EndStep DEF AttemptFails
<1>3. CASE PowerFails
  <2>1. partial' \in Content /\ Len(partial') <= Declared
    <3>1. CASE partial' = partial
      BY <3>1 DEF TypeOK
    <3>2. CASE partial # <<>> /\ partial' = [partial EXCEPT ![Len(partial)] = Garbage]
      BY <1>0, <3>2, ExceptSeq DEF Content, TypeOK
    <3> QED BY <1>3, <3>1, <3>2 DEF PowerFails
  <2> QED BY <1>3, <2>1, EndStep DEF PowerFails
<1>4. CASE CutShort \/ Publish
  <2>1. rejected' = 0 /\ rejected' \in 0..2 /\ faults' \in 0..MaxFaults
    BY <1>4, Counters DEF CutShort, Publish, Fault
  <2>2. TypeOK'
    BY <1>4, <2>1, EmptySeq DEF CutShort, Publish, TypeOK, Content
  <2>3. FileMirrorsMemory' /\ OffsetIsEnd'
    BY <1>4 DEF CutShort, Publish, FileMirrorsMemory, OffsetIsEnd
  <2>4. CleanSinceRejected' /\ StaleCostsOneAttempt'
    BY <2>1 DEF CleanSinceRejected, StaleCostsOneAttempt
  <2> QED BY <2>2, <2>3, <2>4
<1> QED BY <1>1, <1>2, <1>3, <1>4

-----------------------------------------------------------------------------

\* The invariant is inductive.
THEOREM DownloadInvariance == Spec => []DownloadInv
<1>1. DownloadInv /\ [Next]_vars => DownloadInv'
  <2>1. ASSUME DownloadInv, Next PROVE DownloadInv'
    BY <2>1, RequestStep, ReceiveStep, FinishStep, FailureStep DEF Next, Transfers
  <2>2. ASSUME DownloadInv, UNCHANGED vars PROVE DownloadInv'
    BY <2>2
    DEF DownloadInv, TypeOK, FileMirrorsMemory, OffsetIsEnd, CleanSinceRejected,
        StaleCostsOneAttempt, vars
  <2> QED BY <2>1, <2>2
<1> QED BY DownloadInvInit, <1>1, PTL DEF Spec

\* The transfer stays in its states and the partial file within the declared
\* size, whatever a server sends.
THEOREM DownloadTypeCorrect == Spec => []TypeOK
  BY DownloadInvariance, PTL DEF DownloadInv

\* File and memory agree while an attempt receives.
THEOREM FileIsMemory == Spec => []FileMirrorsMemory
  BY DownloadInvariance, PTL DEF DownloadInv

\* As long as no fault comes in between, at most one attempt is lost to what an
\* earlier release or a failure left in the partial file.
THEOREM OneAttemptIsLost == Spec => []StaleCostsOneAttempt
  BY DownloadInvariance, PTL DEF DownloadInv
=============================================================================
