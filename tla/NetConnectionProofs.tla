------------------------ MODULE NetConnectionProofs ------------------------
(***************************************************************************)
(* For all packets, lengths and header sizes: the framing of NetConnection *)
(* implements MsgQueue.                                                    *)
(***************************************************************************)
EXTENDS NetConnection, SequenceTheorems, TLAPS

\* Each packet ends its header and its body behind the packet before it.
OffsetInv ==
  \A k \in 1 .. Len(sent) : ends[k] = EndOf(k - 1) + HeadSize + BodyLen[sent[k]]

IInv == TypeOK /\ OffsetInv /\ NeverReadsAhead

LEMMA InitInv == Init => IInv
BY DEF Init, IInv, TypeOK, OffsetInv, NeverReadsAhead, EndOf, Written

\* What the length test means in offsets: the next packet has arrived.
LEMMA WholeOffset ==
  ASSUME IInv, NEW upto \in Nat, received < upto, upto <= Written
  PROVE  /\ taken < Len(sent)
         /\ Whole(upto - EndOf(taken), sent[taken + 1]) <=> EndOf(taken + 1) <= upto
<1>1. taken < Len(sent)
  BY DEF IInv, TypeOK, NeverReadsAhead, Written, EndOf
<1>2. taken + 1 \in 1 .. Len(sent) /\ sent[taken + 1] \in Msgs
  BY <1>1 DEF IInv, TypeOK
<1>3. BodyLen[sent[taken + 1]] \in Nat /\ HeadSize \in Nat
  BY <1>2, NetAssumption DEF NetAssumption
<1>4. EndOf(taken + 1) = EndOf(taken) + HeadSize + BodyLen[sent[taken + 1]]
  BY <1>1, <1>2 DEF IInv, TypeOK, OffsetInv, EndOf
<1>5. EndOf(taken) \in Nat
  BY DEF IInv, TypeOK, EndOf
<1> QED
  BY <1>1, <1>3, <1>4, <1>5 DEF Whole

LEMMA NextInv == IInv /\ [Next]_vars => IInv'
<1> SUFFICES ASSUME IInv, [Next]_vars PROVE IInv'
  OBVIOUS
<1>1. ASSUME NEW m \in Msgs, SendNetMessage(m) PROVE IInv'
  <2>1. BodyLen[m] \in Nat /\ HeadSize \in Nat
    BY NetAssumption DEF NetAssumption
  <2>2. Written \in Nat
    BY DEF IInv, TypeOK, Written, EndOf
  <2> DEFINE e == Written + HeadSize + BodyLen[m]
  <2>3. e \in Nat /\ e >= Written
    BY <2>1, <2>2
  <2>4. sent' = Append(sent, m) /\ ends' = Append(ends, e) /\ UNCHANGED <<received, taken, delivered, open>>
    BY <1>1 DEF SendNetMessage
  <2> HIDE DEF e
  <2>5. TypeOK'
    BY <2>3, <2>4 DEF IInv, TypeOK
  <2>6. /\ Len(sent') = Len(sent) + 1
        /\ \A k \in 1 .. Len(sent) : ends'[k] = ends[k] /\ sent'[k] = sent[k]
        /\ ends'[Len(sent')] = e /\ sent'[Len(sent')] = m
    BY <2>3, <2>4 DEF IInv, TypeOK
  <2>7. \A k \in 0 .. Len(sent) : EndOf(k)' = EndOf(k)
    BY <2>6 DEF EndOf, IInv, TypeOK
  <2>8. Written' = e
    BY <2>6 DEF Written, EndOf, IInv, TypeOK
  <2>9. OffsetInv'
    <3> SUFFICES ASSUME NEW k \in 1 .. Len(sent')
                 PROVE  ends'[k] = EndOf(k - 1)' + HeadSize + BodyLen[sent'[k]]
      BY DEF OffsetInv
    <3>1. k - 1 \in 0 .. Len(sent) /\ EndOf(k - 1)' = EndOf(k - 1)
      BY <2>6, <2>7 DEF IInv, TypeOK
    <3>2. CASE k = Len(sent')
      <4>1. EndOf(Len(sent)) = Written /\ ends'[k] = Written + HeadSize + BodyLen[m] /\ sent'[k] = m
        BY <2>6, <3>2 DEF e, Written
      <4>2. k - 1 = Len(sent)
        BY <2>6, <3>2 DEF IInv, TypeOK
      <4> QED
        BY <3>1, <4>1, <4>2
    <3>3. CASE k \in 1 .. Len(sent)
      BY <2>6, <3>1, <3>3 DEF OffsetInv, IInv
    <3>4. k = Len(sent') \/ k \in 1 .. Len(sent)
      BY <2>6 DEF IInv, TypeOK
    <3> QED
      BY <3>2, <3>3, <3>4, Zenon
  <2>10. NeverReadsAhead'
    BY <2>2, <2>3, <2>4, <2>6, <2>7, <2>8 DEF NeverReadsAhead, IInv, TypeOK
  <2> QED
    BY <2>5, <2>9, <2>10 DEF IInv
<1>2. ASSUME NEW upto \in received + 1 .. Written, ReadEvent(upto) PROVE IInv'
  <2>1. Written \in Nat /\ upto \in Nat /\ received < upto /\ upto <= Written
    BY DEF IInv, TypeOK, Written, EndOf
  <2>2. taken < Len(sent) /\ (Whole(upto - EndOf(taken), sent[taken + 1]) <=> EndOf(taken + 1) <= upto)
    BY <2>1, WholeOffset
  <2>3. UNCHANGED <<sent, ends, open>> /\ received' = upto /\ Written' = Written
        /\ \A k \in 0 .. Len(sent) : EndOf(k)' = EndOf(k)
    BY <1>2 DEF ReadEvent, Written, EndOf
  <2>4. taken \in Nat /\ taken + 1 \in 0 .. Len(sent) /\ sent[taken + 1] \in Msgs
        /\ EndOf(taken) \in Nat /\ EndOf(taken) <= received
    BY <2>2 DEF IInv, TypeOK, EndOf, NeverReadsAhead
  <2>5. CASE EndOf(taken + 1) <= upto
    <3>1. taken' = taken + 1 /\ delivered' = Append(delivered, sent[taken + 1])
      BY <1>2, <2>2, <2>5 DEF ReadEvent
    <3>2. TypeOK'
      BY <2>1, <2>3, <2>4, <3>1 DEF IInv, TypeOK
    <3>3. NeverReadsAhead'
      BY <2>1, <2>3, <2>4, <2>5, <3>1 DEF NeverReadsAhead, Written, EndOf, IInv, TypeOK
    <3> QED
      BY <2>3, <3>2, <3>3 DEF IInv, OffsetInv, EndOf
  <2>6. CASE ~ (EndOf(taken + 1) <= upto)
    <3>1. taken' = taken /\ delivered' = delivered
      BY <1>2, <2>2, <2>6 DEF ReadEvent
    <3> QED
      BY <2>1, <2>2, <2>3, <2>4, <3>1 DEF IInv, TypeOK, OffsetInv, NeverReadsAhead, EndOf
  <2> QED
    BY <2>5, <2>6
<1>3. CASE Close
  BY <1>3 DEF Close, IInv, TypeOK, OffsetInv, NeverReadsAhead, EndOf, Written
<1>4. CASE UNCHANGED vars
  BY <1>4 DEF vars, IInv, TypeOK, OffsetInv, NeverReadsAhead, EndOf, Written
<1> QED
  BY <1>1, <1>2, <1>3, <1>4 DEF Next, Read

\* The length tests of RecvNetMessage never take bytes that have not arrived.
THEOREM NeverReadsAheadCorrect == Spec => []NeverReadsAhead
<1>1. IInv => NeverReadsAhead
  BY DEF IInv
<1> QED
  BY <1>1, InitInv, NextInv, PTL DEF Spec

\* Sequence facts behind the refinement: how the queue changes when a packet is
\* sent, and when one is taken.
LEMMA QueueAppend ==
  ASSUME NEW S, NEW s \in Seq(S), NEW m \in S, NEW t \in 0 .. Len(s)
  PROVE  SubSeq(Append(s, m), t + 1, Len(s) + 1) = Append(SubSeq(s, t + 1, Len(s)), m)
<1> DEFINE a == SubSeq(Append(s, m), t + 1, Len(s) + 1)
           b == SubSeq(s, t + 1, Len(s))
<1>1. Len(s) \in Nat /\ \A i \in 1 .. Len(s) : s[i] \in S
  BY LenProperties
<1>2. Append(s, m) \in Seq(S) /\ Len(Append(s, m)) = Len(s) + 1
      /\ \A i \in 1 .. Len(s) + 1 : Append(s, m)[i] = IF i <= Len(s) THEN s[i] ELSE m
  BY AppendProperties
<1>3. \A i \in t + 1 .. Len(s) + 1 : Append(s, m)[i] \in S
  BY <1>1, <1>2
<1>4. a \in Seq(S) /\ Len(a) = Len(s) + 1 - t
      /\ \A i \in 1 .. Len(s) + 1 - t : a[i] = Append(s, m)[t + i]
  <2>1. t + 1 \in Int /\ Len(s) + 1 \in Int /\ t + 1 <= Len(s) + 1
    BY <1>1
  <2>2. a \in Seq(S) /\ Len(a) = (Len(s) + 1) - (t + 1) + 1
        /\ \A i \in 1 .. (Len(s) + 1) - (t + 1) + 1 : a[i] = Append(s, m)[(t + 1) + i - 1]
    BY <1>3, <2>1, SubSeqProperties
  <2> QED
    BY <1>1, <2>2
<1>5. b \in Seq(S) /\ Len(b) = Len(s) - t /\ \A i \in 1 .. Len(s) - t : b[i] = s[t + i]
  <2>1. t + 1 \in Int /\ Len(s) \in Int /\ \A i \in t + 1 .. Len(s) : s[i] \in S
    BY <1>1
  <2>2. b \in Seq(S) /\ Len(b) = (IF t + 1 <= Len(s) THEN Len(s) - (t + 1) + 1 ELSE 0)
        /\ \A i \in 1 .. Len(s) - (t + 1) + 1 : b[i] = s[(t + 1) + i - 1]
    BY <2>1, SubSeqProperties
  <2> QED
    BY <1>1, <2>2
<1> HIDE DEF a, b
<1>b. b \in Seq(S)
  BY <1>5
<1>6. Append(b, m) \in Seq(S) /\ Len(Append(b, m)) = Len(b) + 1
      /\ \A i \in 1 .. Len(b) : Append(b, m)[i] = b[i]
      /\ Append(b, m)[Len(b) + 1] = m
  BY <1>b, AppendProperties
<1>7. ASSUME NEW i \in 1 .. Len(a) PROVE a[i] = Append(b, m)[i]
  <2>1. CASE i \in 1 .. Len(b)
    BY <1>1, <1>2, <1>4, <1>5, <1>6, <2>1
  <2>2. CASE i = Len(b) + 1
    <3>1. Append(b, m)[i] = m
      BY <1>6, <2>2
    <3>2. t + i = Len(s) + 1 /\ i \in 1 .. Len(s) + 1 - t
      BY <1>1, <1>5, <2>2
    <3> QED
      BY <1>1, <1>2, <1>4, <3>1, <3>2
  <2> QED
    <3>1. Len(b) \in Nat /\ Len(a) = Len(b) + 1 /\ i \in 1 .. Len(b) + 1
      BY <1>1, <1>4, <1>5
    <3>2. i \in 1 .. Len(b) \/ i = Len(b) + 1
      BY <3>1
    <3> QED
      BY <2>1, <2>2, <3>2, Zenon
<1>8. a = Append(b, m)
  <2>1. Len(a) = Len(Append(b, m))
    BY <1>1, <1>4, <1>5, <1>6
  <2> QED
    BY <1>4, <1>6, <1>7, <2>1, SeqEqual
<1> QED
  BY <1>8 DEF a, b

LEMMA QueueTail ==
  ASSUME NEW S, NEW s \in Seq(S), NEW t \in Nat, t < Len(s)
  PROVE  /\ SubSeq(s, t + 1, Len(s)) # <<>>
         /\ Head(SubSeq(s, t + 1, Len(s))) = s[t + 1]
         /\ Tail(SubSeq(s, t + 1, Len(s))) = SubSeq(s, t + 2, Len(s))
<1>1. Len(s) \in Nat /\ t + 1 \in 1 .. Len(s) /\ Len(s) \in t + 1 .. Len(s) /\ (t + 1) + 1 = t + 2
  BY LenProperties
<1>2. Len(SubSeq(s, t + 1, Len(s))) # 0
  <2>1. t + 1 \in Int /\ Len(s) \in Int /\ \A i \in t + 1 .. Len(s) : s[i] \in S
    BY <1>1, LenProperties
  <2>2. Len(SubSeq(s, t + 1, Len(s))) = IF t + 1 <= Len(s) THEN Len(s) - (t + 1) + 1 ELSE 0
    BY <2>1, SubSeqProperties
  <2> QED
    BY <1>1, <2>2
<1>3. /\ Head(SubSeq(s, t + 1, Len(s))) = s[t + 1]
      /\ Tail(SubSeq(s, t + 1, Len(s))) = SubSeq(s, (t + 1) + 1, Len(s))
  BY <1>1, HeadTailOfSubSeq, Zenon
<1>4. SubSeq(s, t + 1, Len(s)) # <<>>
  BY <1>2, EmptySeq, Zenon
<1>5. (t + 1) + 1 = t + 2
  OBVIOUS
<1> QED
  BY <1>3, <1>4, <1>5

\* Packets reach HandleReadEvent whole, once and in order, whatever pieces their
\* bytes arrive in.
THEOREM FramingImplementsQueue == Spec => ImplementsQueue
<1>1. Init => MQ!Init
  BY DEF Init, MQ!Init, queue
<1>2. IInv /\ [Next]_vars => [MQ!Next]_<<queue, delivered, open>>
  <2> SUFFICES ASSUME IInv, [Next]_vars PROVE [MQ!Next]_<<queue, delivered, open>>
    OBVIOUS
  <2>1. ASSUME NEW m \in Msgs, SendNetMessage(m) PROVE MQ!Next
    <3>1. sent \in Seq(Msgs) /\ taken \in 0 .. Len(sent)
      BY DEF IInv, TypeOK
    <3>2. sent' = Append(sent, m) /\ taken' = taken /\ Len(sent') = Len(sent) + 1
      BY <2>1, <3>1 DEF SendNetMessage
    <3>3. queue' = Append(queue, m)
      BY <3>1, <3>2, QueueAppend DEF queue
    <3> QED
      BY <2>1, <3>3 DEF SendNetMessage, MQ!Send, MQ!Next
  <2>2. ASSUME NEW upto \in received + 1 .. Written, ReadEvent(upto)
        PROVE  MQ!Next \/ UNCHANGED <<queue, delivered, open>>
    <3>1. upto \in Nat /\ received < upto /\ upto <= Written
      BY DEF IInv, TypeOK, Written, EndOf
    <3>2. taken < Len(sent) /\ taken \in Nat /\ sent \in Seq(Msgs)
      BY <3>1, WholeOffset DEF IInv, TypeOK
    <3>3. CASE Whole(upto - EndOf(taken), sent[taken + 1])
      <4>1. taken' = taken + 1 /\ delivered' = Append(delivered, sent[taken + 1]) /\ sent' = sent
            /\ open /\ open' = open
        BY <2>2, <3>3 DEF ReadEvent
      <4>2. queue # <<>> /\ Head(queue) = sent[taken + 1] /\ Tail(queue) = SubSeq(sent, taken + 2, Len(sent))
        BY <3>2, QueueTail DEF queue
      <4>3. queue' = SubSeq(sent, taken + 2, Len(sent))
        BY <3>2, <4>1 DEF queue
      <4> QED
        BY <4>1, <4>2, <4>3 DEF MQ!HandOver, MQ!Next
    <3>4. CASE ~ Whole(upto - EndOf(taken), sent[taken + 1])
      BY <2>2, <3>4 DEF ReadEvent, queue
    <3> QED
      BY <3>3, <3>4
  <2>3. ASSUME Close PROVE MQ!Next
    BY <2>3 DEF Close, MQ!Close, MQ!Next, queue
  <2>4. ASSUME UNCHANGED vars PROVE UNCHANGED <<queue, delivered, open>>
    BY <2>4 DEF vars, queue
  <2> QED
    BY <2>1, <2>2, <2>3, <2>4 DEF Next, Read
<1> QED
  BY <1>1, <1>2, InitInv, NextInv, PTL DEF Spec, ImplementsQueue, MQ!Spec
=============================================================================
