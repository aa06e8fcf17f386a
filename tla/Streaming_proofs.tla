--------------------------- MODULE Streaming_proofs ---------------------------
(***************************************************************************)
(* Proofs about Streaming, for every number of streams, whatever they      *)
(* generate and however many threads the executor has.                     *)
(***************************************************************************)
EXTENDS Streaming, FiniteSetTheorems, SequenceTheorems, TLAPS

(***************************************************************************)
(* The inductive invariant, stream by stream.  While the generator still   *)
(* reads, what the client was sent, the text taken from the queue and the  *)
(* texts in the queue are the events of the generation one after the       *)
(* other, and together they are all events up to where the producer reads; *)
(* an end without an error before it comes after the last event.           *)
(***************************************************************************)
Waiting(s) == consumer[s] \in {"waiting", "checking"}

\* The position up to which the generator has sent or taken the texts.
Taken(s) == IF consumer[s] = "checking" THEN token[s] ELSE Promised!LastSent(s)

\* The position before the n-th item of the queue.
Before(s, n) == IF n = 1 THEN Taken(s) ELSE tokenQueue[s][n - 1].at

Counts(s) ==
    /\ read[s] <= made[s]
    /\ made[s] <= Len(Chunks[s])
    /\ generation[s] = "ended" => made[s] = Len(Chunks[s])
    /\ generation[s] = "running" /\ ~stalled[s] => producer[s] = "reading"
    /\ consumer[s] = "none" => producer[s] = "none"
    /\ producer[s] \in {"none", "queued"} =>
          /\ consumer[s] # "checking"
          /\ tokenQueue[s] = <<>> /\ sent[s] = <<>>
          /\ read[s] = 0 /\ made[s] = 0 /\ generation[s] = "none"

TakenNext(s) ==
    consumer[s] = "checking" => Promised!Follows(s, Promised!LastSent(s), token[s])

InPlace(s, n) ==
    LET item == tokenQueue[s][n] IN
    /\ item.type = "token" => Promised!Follows(s, Before(s, n), item.at)
    /\ item.type = "end" =>
          \/ n > 1 /\ tokenQueue[s][n - 1].type = "error"
          \/ \A i \in Promised!Events(s) : i <= Before(s, n)

InOrder(s) == Waiting(s) => \A n \in 1 .. Len(tokenQueue[s]) : InPlace(s, n)

UpToRead(s) ==
    Waiting(s) /\ producer[s] = "reading" =>
        LET last == Before(s, Len(tokenQueue[s]) + 1) IN
        /\ last <= read[s]
        /\ \A i \in Promised!Events(s) : i <= read[s] => i <= last

StreamInv(s) == Counts(s) /\ TakenNext(s) /\ InOrder(s) /\ UpToRead(s)

Reading == {s \in Streams : producer[s] = "reading"}

Inv ==
    /\ TypeOK
    /\ \A s \in Streams : StreamInv(s)
    /\ Cardinality(Reading) <= MaxWorkers

-----------------------------------------------------------------------------
(***************************************************************************)
(* Sequences and types.                                                    *)
(***************************************************************************)

\* The last event sent, and the numbers of a stream.
LEMMA StreamTypes ==
    ASSUME TypeOK, NEW s \in Streams
    PROVE  /\ token[s] \in Nat /\ made[s] \in Nat /\ read[s] \in Nat
           /\ sent[s] \in Seq(Nat \ {0})
           /\ tokenQueue[s] \in Seq(Item)
           /\ Len(tokenQueue[s]) \in Nat
           /\ \A n \in 1 .. Len(tokenQueue[s]) : tokenQueue[s][n] \in Item
           /\ Promised!LastSent(s) \in Nat
           /\ Taken(s) \in Nat
           /\ Len(Chunks[s]) \in Nat
           /\ DOMAIN Chunks[s] = 1 .. Len(Chunks[s])
           /\ Promised!Events(s) \subseteq 1 .. Len(Chunks[s])
<1>1. /\ token[s] \in Nat /\ made[s] \in Nat /\ read[s] \in Nat
      /\ sent[s] \in Seq(Nat \ {0})
      /\ tokenQueue[s] \in Seq(Item)
    BY DEF TypeOK
<1>2. /\ Len(tokenQueue[s]) \in Nat
      /\ \A n \in 1 .. Len(tokenQueue[s]) : tokenQueue[s][n] \in Item
    BY <1>1, LenProperties, ElementOfSeq
<1>3. Promised!LastSent(s) \in Nat
    <2>1. CASE sent[s] = <<>>
        BY <2>1 DEF Promised!LastSent
    <2>2. CASE sent[s] # <<>>
        <3>1. Len(sent[s]) \in Nat \ {0}
            BY <1>1, <2>2, EmptySeq
        <3>2. sent[s][Len(sent[s])] \in Nat \ {0}
            BY <1>1, <3>1, ElementOfSeq
        <3> QED
            BY <2>2, <3>2 DEF Promised!LastSent
    <2> QED
        BY <2>1, <2>2
<1>4. Chunks[s] \in Seq({"text", "empty", "marker"})
    BY StreamingAssumption
<1>5. Len(Chunks[s]) \in Nat /\ DOMAIN Chunks[s] = 1 .. Len(Chunks[s])
    BY <1>4, LenProperties
<1> QED
    BY <1>1, <1>2, <1>3, <1>5 DEF Taken, Promised!Events

\* An item posted comes last.
LEMMA PostOne ==
    ASSUME NEW q \in Seq(Item), NEW x \in Item
    PROVE  /\ q \o <<x>> \in Seq(Item)
           /\ Len(q \o <<x>>) = Len(q) + 1
           /\ \A n \in 1 .. Len(q) : (q \o <<x>>)[n] = q[n]
           /\ (q \o <<x>>)[Len(q) + 1] = x
<1>1. <<x>> \in Seq(Item) /\ Len(<<x>>) = 1 /\ <<x>>[1] = x
    OBVIOUS
<1> QED
    BY <1>1, ConcatProperties, LenProperties

\* Two items posted come last.
LEMMA PostTwo ==
    ASSUME NEW q \in Seq(Item), NEW x \in Item, NEW y \in Item
    PROVE  /\ q \o <<x, y>> \in Seq(Item)
           /\ Len(q \o <<x, y>>) = Len(q) + 2
           /\ \A n \in 1 .. Len(q) : (q \o <<x, y>>)[n] = q[n]
           /\ (q \o <<x, y>>)[Len(q) + 1] = x
           /\ (q \o <<x, y>>)[Len(q) + 2] = y
<1>1. <<x, y>> \in Seq(Item) /\ Len(<<x, y>>) = 2 /\ <<x, y>>[1] = x /\ <<x, y>>[2] = y
    OBVIOUS
<1>2. Len(q) \in Nat
    OBVIOUS
<1>3. \A n \in 1 .. Len(q) + 2 :
          (q \o <<x, y>>)[n] = IF n <= Len(q) THEN q[n] ELSE <<x, y>>[n - Len(q)]
    BY <1>1, ConcatProperties
<1> QED
    BY <1>1, <1>2, <1>3, ConcatProperties

\* What is left after the first item.
LEMMA TakeOne ==
    ASSUME NEW q \in Seq(Item), q # <<>>
    PROVE  /\ Len(q) \in Nat \ {0}
           /\ Head(q) = q[1] /\ Head(q) \in Item
           /\ Tail(q) \in Seq(Item)
           /\ Len(Tail(q)) = Len(q) - 1
           /\ \A n \in 1 .. Len(q) - 1 : Tail(q)[n] = q[n + 1]
BY EmptySeq, HeadTailProperties

\* The items themselves.
LEMMA Items ==
    /\ Error \in Item /\ Error.type = "error" /\ Error.at = 0
    /\ End \in Item /\ End.type = "end" /\ End.at = 0
    /\ \A i \in Nat \ {0} : Token(i) \in Item /\ Token(i).type = "token" /\ Token(i).at = i
    /\ \A x \in Item : /\ x.type \in {"token", "error", "end"} /\ x.at \in Nat
                       /\ x.type = "token" => x.at \in Nat \ {0}
BY DEF Item, Error, End, Token

-----------------------------------------------------------------------------
(***************************************************************************)
(* The invariant.                                                          *)
(***************************************************************************)

\* Nothing is sent, queued or read at first.
LEMMA InitInv == Init => Inv
<1> SUFFICES ASSUME Init PROVE Inv
    OBVIOUS
<1>1. TypeOK
    BY DEF Init, TypeOK
<1>2. ASSUME NEW s \in Streams PROVE StreamInv(s)
    <2>1. Len(Chunks[s]) \in Nat
        BY <1>1, StreamTypes
    <2> QED
        BY <2>1 DEF Init, StreamInv, Counts, TakenNext, InOrder, InPlace, UpToRead, Waiting
<1>3. Reading = {} /\ MaxWorkers \in Nat
    BY StreamingAssumption DEF Init, Reading
<1> QED
    BY <1>1, <1>2, <1>3, FS_EmptySet DEF Inv

Untouched(r) ==
    /\ consumer'[r] = consumer[r] /\ token'[r] = token[r] /\ sent'[r] = sent[r]
    /\ producer'[r] = producer[r] /\ tokenQueue'[r] = tokenQueue[r]
    /\ generation'[r] = generation[r] /\ made'[r] = made[r] /\ read'[r] = read[r]
    /\ stalled'[r] = stalled[r]

\* A step of one stream leaves what is said of the others.
LEMMA Frame ==
    ASSUME NEW r \in Streams, StreamInv(r), Untouched(r)
    PROVE  StreamInv(r)'
<1>1. /\ Promised!LastSent(r)' = Promised!LastSent(r)
      /\ Promised!Events(r)' = Promised!Events(r)
      /\ Waiting(r)' = Waiting(r)
      /\ \A i, j : Promised!Follows(r, i, j)' = Promised!Follows(r, i, j)
    BY DEF Untouched, Promised!LastSent, Promised!Events, Promised!Follows, Waiting
<1>2. Counts(r)'
    BY DEF Untouched, StreamInv, Counts
<1>3. TakenNext(r)'
    BY <1>1 DEF Untouched, StreamInv, TakenNext
<1>4. \A n : Before(r, n)' = Before(r, n)
    BY <1>1 DEF Untouched, Before, Taken
<1>5. InOrder(r)' /\ UpToRead(r)'
    BY <1>1, <1>4 DEF Untouched, StreamInv, InOrder, InPlace, UpToRead
<1> QED
    BY <1>2, <1>3, <1>5 DEF StreamInv

\* Where a step leaves the stream's events and its last sent one alone.
LEMMA SameSent ==
    ASSUME NEW s \in Streams, sent'[s] = sent[s]
    PROVE  /\ Promised!LastSent(s)' = Promised!LastSent(s)
           /\ Promised!Events(s)' = Promised!Events(s)
           /\ \A i, j : Promised!Follows(s, i, j)' = Promised!Follows(s, i, j)
BY DEF Promised!LastSent, Promised!Events, Promised!Follows

\* The generator starts to read and the producer waits for a thread.
LEMMA OpenInv ==
    ASSUME Inv, NEW s \in Streams, Open(s)
    PROVE  StreamInv(s)'
<1>1. /\ consumer[s] = "none" /\ consumer'[s] = "waiting" /\ producer'[s] = "queued"
      /\ UNCHANGED <<token, sent, read, stalled, generation, made, tokenQueue>>
    BY DEF Open, Inv, TypeOK, generationVars
<1>2. Counts(s) /\ producer[s] = "none" /\ tokenQueue[s] = <<>>
    BY <1>1 DEF Inv, StreamInv, Counts
<1>3. Counts(s)'
    BY <1>1, <1>2 DEF Counts
<1>4. TakenNext(s)' /\ InOrder(s)' /\ UpToRead(s)'
    BY <1>1, <1>2 DEF TakenNext, InOrder, InPlace, UpToRead
<1> QED
    BY <1>3, <1>4 DEF StreamInv

\* What the generator takes from the queue is the next event.
LEMMA GetInv ==
    ASSUME Inv, NEW s \in Streams, Get(s)
    PROVE  /\ tokenQueue'[s] \in Seq(Item)
           /\ token'[s] \in Nat
           /\ StreamInv(s)'
<1> DEFINE q == tokenQueue[s]
<1>1. /\ consumer[s] = "waiting" /\ q # <<>>
      /\ tokenQueue'[s] = Tail(q)
      /\ UNCHANGED <<sent, client, producer, read, stalled, generation, made>>
      /\ \/ consumer'[s] \in Ended /\ token'[s] = token[s]
         \/ /\ Head(q).type \notin {"end", "error"}
            /\ consumer'[s] = "checking" /\ token'[s] = Head(q).at
    BY DEF Get, EndStream, Inv, TypeOK, producerVars, generationVars, Ended
<1>2. q \in Seq(Item) /\ token[s] \in Nat
    BY StreamTypes DEF Inv
<1>3. /\ Len(q) \in Nat \ {0}
      /\ Head(q) = q[1] /\ Head(q) \in Item
      /\ Tail(q) \in Seq(Item)
      /\ Len(Tail(q)) = Len(q) - 1
      /\ \A n \in 1 .. Len(q) - 1 : Tail(q)[n] = q[n + 1]
    BY <1>1, <1>2, TakeOne
<1>4. Head(q).at \in Nat /\ Head(q).type \in {"token", "error", "end"}
    BY <1>3, Items
<1>5. Counts(s)'
    <2>1. Counts(s)
        BY DEF Inv, StreamInv
    <2>2. producer[s] \notin {"none", "queued"}
        BY <1>1, <2>1 DEF Counts
    <2> QED
        BY <1>1, <2>1, <2>2 DEF Counts, Ended
<1>6. CASE consumer'[s] \in Ended
    <2>1. TakenNext(s)' /\ InOrder(s)' /\ UpToRead(s)'
        BY <1>6 DEF Ended, TakenNext, InOrder, InPlace, UpToRead, Waiting
    <2> QED
        BY <1>1, <1>2, <1>3, <1>4, <1>5, <2>1 DEF StreamInv
<1>7. CASE consumer'[s] = "checking" /\ token'[s] = Head(q).at /\ Head(q).type = "token"
    <2>1. Waiting(s) /\ Taken(s) = Promised!LastSent(s) /\ Before(s, 1) = Taken(s)
        BY <1>1 DEF Waiting, Taken, Before
    <2>2. /\ Promised!LastSent(s)' = Promised!LastSent(s)
          /\ Promised!Events(s)' = Promised!Events(s)
          /\ \A i, j : Promised!Follows(s, i, j)' = Promised!Follows(s, i, j)
        BY <1>1, SameSent
    <2>3. Promised!Follows(s, Taken(s), q[1].at)
        <3>1. InOrder(s) /\ 1 \in 1 .. Len(q)
            BY <1>3 DEF Inv, StreamInv
        <3> QED
            BY <1>3, <1>7, <2>1, <3>1 DEF InOrder, InPlace
    <2>4. TakenNext(s)'
        BY <1>3, <1>7, <2>1, <2>2, <2>3 DEF TakenNext
    <2>5. Taken(s)' = q[1].at
        BY <1>3, <1>7 DEF Taken
    <2>6. \A n \in 1 .. Len(q) : Before(s, n)' = Before(s, n + 1)
        <3> SUFFICES ASSUME NEW n \in 1 .. Len(q) PROVE Before(s, n)' = Before(s, n + 1)
            OBVIOUS
        <3>0. n + 1 # 1 /\ (n + 1) - 1 = n
            BY <1>3
        <3>1. CASE n = 1
            BY <2>5, <3>0, <3>1 DEF Before
        <3>2. CASE n # 1
            <4>1. n - 1 \in 1 .. Len(q) - 1 /\ (n - 1) + 1 = n
                BY <1>3, <3>2
            <4>2. tokenQueue'[s][n - 1] = q[n]
                BY <1>1, <1>3, <4>1
            <4> QED
                BY <3>0, <3>2, <4>2 DEF Before
        <3> QED
            BY <3>1, <3>2
    <2>7. InOrder(s)'
        <3>1. InOrder(s)
            BY DEF Inv, StreamInv
        <3> SUFFICES ASSUME NEW n \in 1 .. Len(tokenQueue'[s])
                     PROVE  LET item == tokenQueue'[s][n] IN
                            /\ item.type = "token" => Promised!Follows(s, Before(s, n)', item.at)
                            /\ item.type = "end" =>
                                  \/ n > 1 /\ tokenQueue'[s][n - 1].type = "error"
                                  \/ \A i \in Promised!Events(s) : i <= Before(s, n)'
            BY <2>2 DEF InOrder, InPlace
        <3>2. /\ n \in 1 .. Len(q) - 1 /\ n \in 1 .. Len(q) /\ n + 1 \in 1 .. Len(q)
              /\ n + 1 > 1 /\ (n + 1) - 1 = n
            BY <1>1, <1>3
        <3>3. /\ tokenQueue'[s][n] = q[n + 1]
              /\ Before(s, n)' = Before(s, n + 1)
            BY <1>1, <1>3, <2>6, <3>2
        <3>4. /\ q[n + 1].type = "token" => Promised!Follows(s, Before(s, n + 1), q[n + 1].at)
              /\ q[n + 1].type = "end" =>
                    \/ q[n].type = "error"
                    \/ \A i \in Promised!Events(s) : i <= Before(s, n + 1)
            BY <2>1, <3>1, <3>2 DEF InOrder, InPlace
        <3>5. q[n].type = "error" => n > 1 /\ tokenQueue'[s][n - 1].type = "error"
            <4>1. CASE n = 1
                BY <1>3, <1>7, <4>1
            <4>2. CASE n # 1
                <5>1. n > 1 /\ n - 1 \in 1 .. Len(q) - 1 /\ (n - 1) + 1 = n
                    BY <1>3, <3>2, <4>2
                <5> QED
                    BY <1>1, <1>3, <5>1
            <4> QED
                BY <4>1, <4>2
        <3> QED
            BY <3>3, <3>4, <3>5
    <2>8. UpToRead(s)'
        <3>0. PICK m \in 1 .. Len(q) : m = Len(q)
            BY <1>3
        <3>1. Len(tokenQueue'[s]) + 1 = m
            BY <1>1, <1>3, <3>0
        <3>2. Before(s, m)' = Before(s, Len(q) + 1)
            BY <2>6, <3>0
        <3>3. UpToRead(s)
            BY DEF Inv, StreamInv
        <3> QED
            BY <1>1, <2>1, <2>2, <3>1, <3>2, <3>3 DEF UpToRead
    <2> QED
        BY <1>1, <1>2, <1>3, <1>4, <1>5, <1>7, <2>4, <2>7, <2>8 DEF StreamInv
<1> QED
    BY <1>1, <1>4, <1>6, <1>7

\* The text taken becomes the last one sent.
LEMMA CheckInv ==
    ASSUME Inv, NEW s \in Streams, Check(s)
    PROVE  /\ sent'[s] \in Seq(Nat \ {0})
           /\ StreamInv(s)'
<1>1. /\ consumer[s] = "checking" /\ token'[s] = 0
      /\ UNCHANGED <<client, producer, read, stalled, generation, made, tokenQueue>>
      /\ \/ consumer'[s] \in Ended /\ sent'[s] = sent[s]
         \/ consumer'[s] = "waiting" /\ sent'[s] = Append(sent[s], token[s])
    BY DEF Check, EndStream, Inv, TypeOK, producerVars, generationVars, Ended
<1>2. /\ sent[s] \in Seq(Nat \ {0}) /\ token[s] \in Nat
      /\ Promised!LastSent(s) \in Nat
      /\ Promised!Events(s) \subseteq 1 .. Len(Chunks[s])
    BY StreamTypes DEF Inv
<1>3. Promised!Follows(s, Promised!LastSent(s), token[s])
    BY <1>1 DEF Inv, StreamInv, TakenNext
<1>4. token[s] \in Nat \ {0}
    BY <1>2, <1>3 DEF Promised!Follows
<1>5. Counts(s)'
    <2>1. Counts(s)
        BY DEF Inv, StreamInv
    <2>2. producer[s] \notin {"none", "queued"}
        BY <1>1, <2>1 DEF Counts
    <2> QED
        BY <1>1, <2>1, <2>2 DEF Counts, Ended
<1>6. CASE consumer'[s] \in Ended /\ sent'[s] = sent[s]
    <2>1. TakenNext(s)' /\ InOrder(s)' /\ UpToRead(s)'
        BY <1>6 DEF Ended, TakenNext, InOrder, InPlace, UpToRead, Waiting
    <2> QED
        BY <1>2, <1>5, <1>6, <2>1 DEF StreamInv
<1>7. CASE consumer'[s] = "waiting" /\ sent'[s] = Append(sent[s], token[s])
    <2>1. /\ sent'[s] \in Seq(Nat \ {0})
          /\ sent'[s] # <<>>
          /\ Len(sent'[s]) = Len(sent[s]) + 1
          /\ sent'[s][Len(sent[s]) + 1] = token[s]
        BY <1>2, <1>4, <1>7, AppendProperties
    <2>2. Promised!LastSent(s)' = token[s]
        BY <2>1 DEF Promised!LastSent
    <2>3. Taken(s)' = Taken(s)
        BY <1>1, <1>7, <2>2 DEF Taken
    <2>4. \A n : Before(s, n)' = Before(s, n)
        BY <1>1, <2>3 DEF Before
    <2>5. /\ Promised!Events(s)' = Promised!Events(s)
          /\ \A i, j : Promised!Follows(s, i, j)' = Promised!Follows(s, i, j)
        BY DEF Promised!Events, Promised!Follows
    <2>6. Waiting(s) /\ TakenNext(s)'
        BY <1>1, <1>7 DEF Waiting, TakenNext
    <2>7. InOrder(s)' /\ UpToRead(s)'
        BY <1>1, <2>4, <2>5, <2>6 DEF Inv, StreamInv, InOrder, InPlace, UpToRead
    <2> QED
        BY <1>5, <2>1, <2>6, <2>7 DEF StreamInv
<1> QED
    BY <1>1, <1>6, <1>7

\* An end of the generator that is not a [DONE] after everything else.
LEMMA CloseInv ==
    ASSUME Inv, NEW s \in Streams, Timeout(s) \/ Cancel(s)
    PROVE  StreamInv(s)'
<1>1. /\ Waiting(s) /\ consumer'[s] \in Ended
      /\ UNCHANGED <<sent, producer, read, stalled, generation, made, tokenQueue>>
    BY DEF Timeout, Cancel, EndStream, Inv, TypeOK, producerVars, generationVars, Ended, Waiting
<1>2. Counts(s)
    BY DEF Inv, StreamInv
<1>3. Counts(s)'
    BY <1>1, <1>2 DEF Counts, Ended, Waiting
<1>4. TakenNext(s)' /\ InOrder(s)' /\ UpToRead(s)'
    BY <1>1 DEF Ended, TakenNext, InOrder, InPlace, UpToRead, Waiting
<1> QED
    BY <1>3, <1>4 DEF StreamInv

\* The items that were in the queue stay in their places.
LEMMA OldItems ==
    ASSUME Inv, NEW s \in Streams,
           UNCHANGED <<consumer, token, sent>>,
           Len(tokenQueue'[s]) \in Nat,
           Len(tokenQueue'[s]) >= Len(tokenQueue[s]),
           \A n \in 1 .. Len(tokenQueue[s]) : tokenQueue'[s][n] = tokenQueue[s][n]
    PROVE  /\ \A n \in 1 .. Len(tokenQueue[s]) + 1 : Before(s, n)' = Before(s, n)
           /\ TakenNext(s)'
           /\ Waiting(s)' = Waiting(s)
           /\ Promised!Events(s)' = Promised!Events(s)
           /\ \A i, j : Promised!Follows(s, i, j)' = Promised!Follows(s, i, j)
           /\ Waiting(s) => \A n \in 1 .. Len(tokenQueue[s]) : InPlace(s, n)'
<1>0. Len(tokenQueue[s]) \in Nat
    BY StreamTypes DEF Inv
<1>1. /\ Promised!LastSent(s)' = Promised!LastSent(s)
      /\ Promised!Events(s)' = Promised!Events(s)
      /\ \A i, j : Promised!Follows(s, i, j)' = Promised!Follows(s, i, j)
    BY SameSent
<1>2. Taken(s)' = Taken(s) /\ Waiting(s)' = Waiting(s)
    BY <1>1 DEF Taken, Waiting
<1>3. TakenNext(s)'
    BY <1>1 DEF Inv, StreamInv, TakenNext
<1>4. ASSUME NEW n \in 1 .. Len(tokenQueue[s]) + 1 PROVE Before(s, n)' = Before(s, n)
    <2>1. CASE n = 1
        BY <1>2, <2>1 DEF Before
    <2>2. CASE n # 1
        <3>1. n - 1 \in 1 .. Len(tokenQueue[s])
            BY <1>0, <2>2
        <3> QED
            BY <2>2, <3>1 DEF Before
    <2> QED
        BY <2>1, <2>2
<1>5. ASSUME Waiting(s), NEW n \in 1 .. Len(tokenQueue[s])
      PROVE  InPlace(s, n)'
    <2>1. n \in 1 .. Len(tokenQueue[s]) + 1 /\ (n > 1 => n - 1 \in 1 .. Len(tokenQueue[s]))
        BY <1>0
    <2>2. Before(s, n)' = Before(s, n) /\ tokenQueue'[s][n] = tokenQueue[s][n]
        BY <1>4, <2>1
    <2>3. n > 1 => tokenQueue'[s][n - 1] = tokenQueue[s][n - 1]
        BY <2>1
    <2>4. InPlace(s, n)
        BY <1>5 DEF Inv, StreamInv, InOrder
    <2> QED
        BY <1>1, <2>2, <2>3, <2>4 DEF InPlace
<1> QED
    BY <1>1, <1>2, <1>3, <1>4, <1>5

\* The producer gets a thread, or its generation cannot be started.
LEMMA StartInv ==
    ASSUME Inv, NEW s \in Streams, Start(s) \/ StartFails(s)
    PROVE  /\ tokenQueue'[s] \in Seq(Item)
           /\ StreamInv(s)'
<1>1. /\ producer[s] = "queued"
      /\ UNCHANGED <<consumer, token, sent, read, made, stalled>>
    BY DEF Start, StartFails, consumerVars, generationVars
<1>2. /\ Counts(s) /\ consumer[s] # "checking"
      /\ tokenQueue[s] = <<>> /\ sent[s] = <<>> /\ read[s] = 0 /\ made[s] = 0
      /\ generation[s] = "none"
    BY <1>1 DEF Inv, StreamInv, Counts
<1>3. Taken(s) = 0
    BY <1>2 DEF Taken, Promised!LastSent
<1>4. Promised!Events(s)' = Promised!Events(s) /\ Promised!Events(s) \subseteq 1 .. Len(Chunks[s])
      /\ Len(Chunks[s]) \in Nat
    BY StreamTypes DEF Inv, Promised!Events
<1>5. CASE Start(s)
    <2>1. /\ producer'[s] = "reading" /\ generation'[s] = "running"
          /\ UNCHANGED tokenQueue
        BY <1>5 DEF Start, Inv, TypeOK
    <2>2. Counts(s)'
        BY <1>1, <1>2, <2>1 DEF Counts
    <2>3. TakenNext(s)' /\ InOrder(s)'
        BY <1>1, <1>2, <2>1 DEF TakenNext, InOrder, InPlace
    <2>4. Before(s, 1)' = 0
        BY <1>1, <1>2, <1>3 DEF Before, Taken, Promised!LastSent
    <2>5. UpToRead(s)'
        <3>1. Len(tokenQueue'[s]) + 1 = 1
            BY <1>2, <2>1
        <3> QED
            BY <1>1, <1>2, <1>4, <2>1, <2>4, <3>1 DEF UpToRead
    <2> QED
        BY <2>1, <2>2, <2>3, <2>5 DEF StreamInv, Inv, TypeOK
<1>6. CASE StartFails(s)
    <2>1. /\ producer'[s] = "done" /\ UNCHANGED generation
          /\ tokenQueue'[s] = <<>> \o <<Error, End>>
        BY <1>2, <1>6 DEF StartFails, Inv, TypeOK, Post, generationVars
    <2>2. <<>> \in Seq(Item) /\ Error \in Item /\ End \in Item /\ Len(<<>>) = 0
        BY Items
    <2>3. /\ tokenQueue'[s] \in Seq(Item)
          /\ Len(tokenQueue'[s]) = 2
          /\ tokenQueue'[s][1] = Error /\ tokenQueue'[s][2] = End
        BY <2>1, <2>2, PostTwo
    <2>4. Counts(s)'
        BY <1>1, <1>2, <2>1 DEF Counts
    <2>5. TakenNext(s)'
        BY <1>1, <1>2 DEF TakenNext
    <2>6. InOrder(s)'
        <3> SUFFICES ASSUME NEW n \in 1 .. Len(tokenQueue'[s])
                     PROVE  /\ tokenQueue'[s][n].type # "token"
                            /\ tokenQueue'[s][n].type = "end" =>
                                  n > 1 /\ tokenQueue'[s][n - 1].type = "error"
            BY DEF InOrder, InPlace
        <3>1. n = 1 \/ (n = 2 /\ n - 1 = 1)
            BY <2>3
        <3> QED
            BY <2>3, <3>1, Items
    <2>7. UpToRead(s)'
        BY <2>1 DEF UpToRead
    <2> QED
        BY <2>3, <2>4, <2>5, <2>6, <2>7 DEF StreamInv
<1> QED
    BY <1>5, <1>6

\* A text that is passed on is the next event after the last one in the queue.
LEMMA ReadInv ==
    ASSUME Inv, NEW s \in Streams, Read(s)
    PROVE  /\ tokenQueue'[s] \in Seq(Item)
           /\ read'[s] \in Nat
           /\ StreamInv(s)'
<1> DEFINE q == tokenQueue[s]
           at == read[s] + 1
<1>1. /\ producer[s] = "reading" /\ read[s] < made[s]
      /\ read'[s] = at
      /\ UNCHANGED <<consumer, token, sent, client, producer, stalled, generation, made>>
    BY DEF Read, consumerVars, generationVars, Inv, TypeOK
<1>2. /\ q \in Seq(Item) /\ Len(q) \in Nat
      /\ read[s] \in Nat /\ made[s] \in Nat
      /\ Len(Chunks[s]) \in Nat /\ DOMAIN Chunks[s] = 1 .. Len(Chunks[s])
      /\ Promised!Events(s) \subseteq 1 .. Len(Chunks[s])
      /\ Taken(s) \in Nat
    BY StreamTypes DEF Inv
<1>3. Counts(s) /\ UpToRead(s)
    BY DEF Inv, StreamInv
<1>4. at \in 1 .. Len(Chunks[s]) /\ at \in Nat \ {0} /\ at = read[s] + 1
    BY <1>1, <1>2, <1>3 DEF Counts
<1>5. Counts(s)'
    BY <1>1, <1>2, <1>3 DEF Counts
<1>6. PICK last : last = Before(s, Len(q) + 1)
    OBVIOUS
<1>7. PICK m \in Nat : m = Len(q)
    BY <1>2
<1>8. Waiting(s) => last <= read[s] /\ \A i \in Promised!Events(s) : i <= read[s] => i <= last
    BY <1>1, <1>3, <1>6 DEF UpToRead
<1>9. last \in Nat
    <2>1. \A n \in 1 .. Len(q) : q[n].at \in Nat
        BY StreamTypes, Items DEF Inv
    <2>2. CASE Len(q) = 0
        BY <1>2, <1>6, <2>2 DEF Before
    <2>3. CASE Len(q) # 0
        <3>1. Len(q) + 1 # 1 /\ (Len(q) + 1) - 1 = Len(q) /\ Len(q) \in 1 .. Len(q)
            BY <1>2, <2>3
        <3> QED
            BY <1>6, <2>1, <3>1 DEF Before
    <2> QED
        BY <2>2, <2>3
<1>10. CASE Chunks[s][at] = "empty"
    <2>1. UNCHANGED tokenQueue
        BY <1>10 DEF Read
    <2>2. at \notin Promised!Events(s)
        BY <1>10 DEF Promised!Events
    <2>3. /\ \A n \in 1 .. Len(q) + 1 : Before(s, n)' = Before(s, n)
          /\ TakenNext(s)' /\ Waiting(s)' = Waiting(s)
          /\ Promised!Events(s)' = Promised!Events(s)
          /\ InOrder(s)'
        <3>1. Len(tokenQueue'[s]) \in Nat /\ Len(tokenQueue'[s]) >= Len(q)
            BY <1>2, <2>1
        <3>2. /\ \A n \in 1 .. Len(q) + 1 : Before(s, n)' = Before(s, n)
              /\ TakenNext(s)' /\ Waiting(s)' = Waiting(s)
              /\ Promised!Events(s)' = Promised!Events(s)
              /\ Waiting(s) => \A n \in 1 .. Len(q) : InPlace(s, n)'
            BY <1>1, <2>1, <3>1, OldItems
        <3>3. InOrder(s)'
            BY <2>1, <3>2 DEF InOrder
        <3> QED
            BY <3>2, <3>3
    <2>4. Len(tokenQueue'[s]) + 1 = m + 1 /\ Before(s, m + 1)' = last
        BY <1>2, <1>6, <1>7, <2>1, <2>3
    <2>5. UpToRead(s)'
        <3> SUFFICES ASSUME Waiting(s)
                     PROVE  last <= read'[s] /\ \A i \in Promised!Events(s) : i <= read'[s] => i <= last
            BY <2>3, <2>4 DEF UpToRead
        <3>1. \A i \in Promised!Events(s) : i <= read'[s] => i <= read[s]
            BY <1>1, <1>2, <2>2
        <3> QED
            BY <1>1, <1>2, <1>8, <1>9, <3>1
    <2> QED
        BY <1>1, <1>2, <1>4, <1>5, <2>1, <2>3, <2>5 DEF StreamInv
<1>11. CASE Chunks[s][at] # "empty"
    <2>1. tokenQueue'[s] = q \o <<Token(at)>> /\ Token(at) \in Item
          /\ Token(at).type = "token" /\ Token(at).at = at
        <3>1. tokenQueue' = [tokenQueue EXCEPT ![s] = @ \o <<Token(at)>>]
            BY <1>11 DEF Read, Post
        <3>2. tokenQueue'[s] = q \o <<Token(at)>>
            BY <3>1 DEF Inv, TypeOK
        <3> QED
            BY <1>4, <3>2, Items
    <2>2. /\ tokenQueue'[s] \in Seq(Item)
          /\ Len(tokenQueue'[s]) = m + 1
          /\ \A n \in 1 .. Len(q) : tokenQueue'[s][n] = q[n]
          /\ tokenQueue'[s][m + 1] = Token(at)
        BY <1>2, <1>7, <2>1, PostOne
    <2>3. at \in Promised!Events(s)
        BY <1>2, <1>4, <1>11 DEF Promised!Events
    <2>4. Len(tokenQueue'[s]) \in Nat /\ Len(tokenQueue'[s]) >= Len(q)
        BY <1>2, <1>7, <2>2
    <2>5. /\ \A n \in 1 .. Len(q) + 1 : Before(s, n)' = Before(s, n)
          /\ TakenNext(s)' /\ Waiting(s)' = Waiting(s)
          /\ Promised!Events(s)' = Promised!Events(s)
          /\ \A i, j : Promised!Follows(s, i, j)' = Promised!Follows(s, i, j)
          /\ Waiting(s) => \A n \in 1 .. Len(q) : InPlace(s, n)'
        BY <1>1, <2>2, <2>4, OldItems
    <2>6. Before(s, m + 1)' = last
        BY <1>2, <1>6, <1>7, <2>5
    <2>7. Waiting(s) => Promised!Follows(s, last, at)
        <3> SUFFICES ASSUME Waiting(s), NEW k \in Promised!Events(s), last < k
                     PROVE  last < at /\ at <= k
            BY <1>2, <1>4, <1>8, <1>9, <2>3 DEF Promised!Follows
        <3>1. k \in Nat
            BY <1>2
        <3> QED
            BY <1>2, <1>8, <1>9, <3>1
    <2>8. InOrder(s)'
        <3> SUFFICES ASSUME Waiting(s), NEW n \in 1 .. Len(tokenQueue'[s])
                     PROVE  InPlace(s, n)'
            BY <2>5 DEF InOrder
        <3>1. CASE n \in 1 .. Len(q)
            BY <2>5, <3>1
        <3>2. CASE n = m + 1
            BY <2>1, <2>2, <2>5, <2>6, <2>7, <3>2 DEF InPlace
        <3> QED
            BY <1>7, <2>2, <3>1, <3>2
    <2>9. UpToRead(s)'
        <3>1. Before(s, m + 2)' = at
            <4>1. m + 2 # 1 /\ (m + 2) - 1 = m + 1
                OBVIOUS
            <4> QED
                BY <2>1, <2>2, <4>1 DEF Before
        <3>2. Len(tokenQueue'[s]) + 1 = m + 2
            BY <2>2
        <3> QED
            BY <1>1, <1>4, <3>1, <3>2 DEF UpToRead
    <2> QED
        BY <1>1, <1>2, <1>4, <1>5, <2>2, <2>5, <2>8, <2>9 DEF StreamInv
<1> QED
    BY <1>10, <1>11

\* The end without an error is posted when every event was.
LEMMA CompleteInv ==
    ASSUME Inv, NEW s \in Streams, ReadEnd(s),
           tokenQueue'[s] = tokenQueue[s] \o <<End>>
    PROVE  /\ tokenQueue'[s] \in Seq(Item)
           /\ StreamInv(s)'
<1> DEFINE q == tokenQueue[s]
<1>1. /\ producer[s] = "reading" /\ read[s] = made[s] /\ generation[s] = "ended"
      /\ producer'[s] = "done"
      /\ tokenQueue'[s] = q \o <<End>>
      /\ UNCHANGED <<consumer, token, sent, client, read, stalled, generation, made>>
    BY DEF ReadEnd, Post, consumerVars, generationVars, Inv, TypeOK
<1>2. /\ q \in Seq(Item) /\ Len(q) \in Nat
      /\ made[s] \in Nat
      /\ Promised!Events(s) \subseteq 1 .. Len(Chunks[s])
    BY StreamTypes DEF Inv
<1>3. PICK m \in Nat : m = Len(q)
    BY <1>2
<1>4. /\ tokenQueue'[s] \in Seq(Item)
      /\ Len(tokenQueue'[s]) = m + 1
      /\ \A n \in 1 .. Len(q) : tokenQueue'[s][n] = q[n]
      /\ tokenQueue'[s][m + 1] = End
    BY <1>1, <1>2, <1>3, Items, PostOne
<1>5. Len(tokenQueue'[s]) \in Nat /\ Len(tokenQueue'[s]) >= Len(q)
    BY <1>3, <1>4
<1>6. /\ \A n \in 1 .. Len(q) + 1 : Before(s, n)' = Before(s, n)
      /\ TakenNext(s)' /\ Waiting(s)' = Waiting(s)
      /\ Promised!Events(s)' = Promised!Events(s)
      /\ \A i, j : Promised!Follows(s, i, j)' = Promised!Follows(s, i, j)
      /\ Waiting(s) => \A n \in 1 .. Len(q) : InPlace(s, n)'
    BY <1>1, <1>4, <1>5, OldItems
<1>7. Counts(s) /\ UpToRead(s)
    BY DEF Inv, StreamInv
<1>8. Counts(s)'
    BY <1>1, <1>7 DEF Counts
<1>9. Waiting(s) => \A i \in Promised!Events(s) : i <= Before(s, m + 1)
    BY <1>1, <1>2, <1>3, <1>7 DEF Counts, UpToRead
<1>10. InOrder(s)'
    <2> SUFFICES ASSUME Waiting(s), NEW n \in 1 .. Len(tokenQueue'[s])
                 PROVE  InPlace(s, n)'
        BY <1>6 DEF InOrder
    <2>1. CASE n \in 1 .. Len(q)
        BY <1>6, <2>1
    <2>2. CASE n = m + 1
        <3>1. Before(s, n)' = Before(s, m + 1)
            BY <1>3, <1>6, <2>2
        <3>2. tokenQueue'[s][n].type = "end"
            BY <1>4, <2>2, Items
        <3> QED
            BY <1>6, <1>9, <3>1, <3>2 DEF InPlace
    <2> QED
        BY <1>3, <1>4, <2>1, <2>2
<1>11. UpToRead(s)'
    BY <1>1 DEF UpToRead
<1> QED
    BY <1>4, <1>6, <1>8, <1>10, <1>11 DEF StreamInv

\* The producer is done, and posts an error before the end.
LEMMA ErrorInv ==
    ASSUME Inv, NEW s \in Streams,
           producer[s] = "reading", producer'[s] = "done",
           generation[s] = "ended" \/ stalled'[s] = TRUE,
           tokenQueue'[s] = tokenQueue[s] \o <<Error, End>>,
           UNCHANGED <<consumer, token, sent, client, read, generation, made>>
    PROVE  /\ tokenQueue'[s] \in Seq(Item)
           /\ StreamInv(s)'
<1> DEFINE q == tokenQueue[s]
<1>1. /\ producer[s] = "reading"
      /\ producer'[s] = "done" /\ (generation[s] = "ended" \/ stalled'[s] = TRUE)
      /\ tokenQueue'[s] = q \o <<Error, End>>
      /\ UNCHANGED <<consumer, token, sent, client, read, generation, made>>
    OBVIOUS
<1>2. /\ q \in Seq(Item) /\ Len(q) \in Nat
    BY StreamTypes DEF Inv
<1>3. PICK m \in Nat : m = Len(q)
    BY <1>2
<1>4. /\ tokenQueue'[s] \in Seq(Item)
      /\ Len(tokenQueue'[s]) = m + 2
      /\ \A n \in 1 .. Len(q) : tokenQueue'[s][n] = q[n]
      /\ tokenQueue'[s][m + 1] = Error
      /\ tokenQueue'[s][m + 2] = End
    BY <1>1, <1>2, <1>3, Items, PostTwo
<1>5. Len(tokenQueue'[s]) \in Nat /\ Len(tokenQueue'[s]) >= Len(q)
    BY <1>3, <1>4
<1>6. /\ TakenNext(s)' /\ Waiting(s)' = Waiting(s)
      /\ Promised!Events(s)' = Promised!Events(s)
      /\ \A i, j : Promised!Follows(s, i, j)' = Promised!Follows(s, i, j)
      /\ Waiting(s) => \A n \in 1 .. Len(q) : InPlace(s, n)'
    BY <1>1, <1>4, <1>5, OldItems
<1>7. Counts(s)
    BY DEF Inv, StreamInv
<1>8. Counts(s)'
    BY <1>1, <1>7 DEF Counts
<1>9. InOrder(s)'
    <2> SUFFICES ASSUME Waiting(s), NEW n \in 1 .. Len(tokenQueue'[s])
                 PROVE  InPlace(s, n)'
        BY <1>6 DEF InOrder
    <2>1. CASE n \in 1 .. Len(q)
        BY <1>6, <2>1
    <2>2. CASE n = m + 1
        BY <1>4, <2>2, Items DEF InPlace
    <2>3. CASE n = m + 2
        <3>1. n > 1 /\ n - 1 = m + 1
            BY <2>3
        <3> QED
            BY <1>4, <2>3, <3>1, Items DEF InPlace
    <2>4. Len(q) \in Nat /\ (n \in 1 .. Len(q) \/ n = m + 1 \/ n = m + 2)
        <3>1. Len(tokenQueue'[s]) = m + 2
            BY <1>4
        <3>2. n \in 1 .. m + 2
            BY <3>1
        <3>3. n \in 1 .. m \/ n = m + 1 \/ n = m + 2
            BY <3>2
        <3> QED
            BY <1>3, <3>3
    <2> QED
        BY <2>1, <2>2, <2>3, <2>4
<1>10. UpToRead(s)'
    BY <1>1 DEF UpToRead
<1> QED
    BY <1>4, <1>6, <1>8, <1>9, <1>10 DEF StreamInv

\* The streamer is exhausted, with an error or without.
LEMMA ReadEndInv ==
    ASSUME Inv, NEW s \in Streams, ReadEnd(s)
    PROVE  /\ tokenQueue'[s] \in Seq(Item)
           /\ StreamInv(s)'
<1>1. /\ producer[s] = "reading" /\ producer'[s] = "done" /\ generation[s] = "ended"
      /\ UNCHANGED <<consumer, token, sent, client, read, stalled, generation, made>>
    BY DEF ReadEnd, consumerVars, generationVars, Inv, TypeOK
<1>2. \/ tokenQueue'[s] = tokenQueue[s] \o <<End>>
      \/ tokenQueue'[s] = tokenQueue[s] \o <<Error, End>>
    BY DEF ReadEnd, Post, Inv, TypeOK
<1>3. CASE tokenQueue'[s] = tokenQueue[s] \o <<End>>
    BY <1>3, CompleteInv
<1>4. CASE tokenQueue'[s] = tokenQueue[s] \o <<Error, End>>
    BY <1>1, <1>4, ErrorInv
<1> QED
    BY <1>2, <1>3, <1>4

\* After a stall or a failure an error precedes the end.
LEMMA ReadTimeoutInv ==
    ASSUME Inv, NEW s \in Streams, ReadTimeout(s)
    PROVE  /\ tokenQueue'[s] \in Seq(Item)
           /\ StreamInv(s)'
<1>1. /\ producer[s] = "reading"
      /\ producer'[s] = "done" /\ stalled'[s] = TRUE
      /\ tokenQueue'[s] = tokenQueue[s] \o <<Error, End>>
      /\ UNCHANGED <<consumer, token, sent, client, read, generation, made>>
    BY DEF ReadTimeout, Post, consumerVars, generationVars, Inv, TypeOK
<1> QED
    BY <1>1, ErrorInv

\* The generation puts texts into its streamer, or ends.
LEMMA GenerationInv ==
    ASSUME Inv, NEW s \in Streams, GenerationStep(s)
    PROVE  /\ made'[s] \in Nat
           /\ StreamInv(s)'
<1>1. /\ UNCHANGED <<consumer, token, sent, producer, read, stalled, tokenQueue>>
      /\ generation[s] = "running"
    BY DEF GenerationStep, Generate, GenerateEnds, GenerateFails, consumerVars, producerVars
<1>2. made[s] \in Nat /\ read[s] \in Nat /\ Len(tokenQueue[s]) \in Nat /\ Len(Chunks[s]) \in Nat
    BY StreamTypes DEF Inv
<1>3. Counts(s)
    BY DEF Inv, StreamInv
<1>4. Counts(s)' /\ made'[s] \in Nat
    <2>1. CASE Generate(s)
        <3>1. made[s] < Len(Chunks[s]) /\ made'[s] = made[s] + 1 /\ UNCHANGED generation
            BY <2>1 DEF Generate, Inv, TypeOK
        <3> QED
            BY <1>1, <1>2, <1>3, <3>1 DEF Counts
    <2>2. CASE GenerateEnds(s)
        <3>1. made[s] = Len(Chunks[s]) /\ UNCHANGED made /\ generation'[s] = "ended"
            BY <2>2 DEF GenerateEnds, Inv, TypeOK
        <3> QED
            BY <1>1, <1>2, <1>3, <3>1 DEF Counts
    <2>3. CASE GenerateFails(s)
        <3>1. UNCHANGED made /\ generation'[s] = "failed"
            BY <2>3 DEF GenerateFails, Inv, TypeOK
        <3> QED
            BY <1>1, <1>2, <1>3, <3>1 DEF Counts
    <2> QED
        BY <2>1, <2>2, <2>3 DEF GenerationStep
<1>5. /\ Promised!LastSent(s)' = Promised!LastSent(s)
      /\ Promised!Events(s)' = Promised!Events(s)
      /\ \A i, j : Promised!Follows(s, i, j)' = Promised!Follows(s, i, j)
    BY <1>1, SameSent
<1>6. \A n : Before(s, n)' = Before(s, n)
    BY <1>1, <1>5 DEF Before, Taken
<1>7. Waiting(s)' = Waiting(s)
    BY <1>1 DEF Waiting
<1>8. TakenNext(s)' /\ InOrder(s)' /\ UpToRead(s)'
    BY <1>1, <1>5, <1>6, <1>7 DEF Inv, StreamInv, TakenNext, InOrder, InPlace, UpToRead
<1> QED
    BY <1>4, <1>8 DEF StreamInv

-----------------------------------------------------------------------------
\* A step of one stream keeps the types.
LEMMA StepTypes ==
    ASSUME Inv, NEW s \in Streams,
           \/ Open(s) \/ Disconnect(s) \/ Start(s) \/ StartFails(s)
           \/ ConsumerStep(s) \/ ProducerStep(s) \/ GenerationStep(s)
    PROVE  TypeOK'
<1>t. TypeOK
    BY DEF Inv
<1>1. CASE Open(s)
    BY <1>t, <1>1 DEF Open, TypeOK, generationVars
<1>2. CASE Disconnect(s)
    BY <1>t, <1>2 DEF Disconnect, TypeOK, generationVars, producerVars
<1>3. CASE Start(s)
    BY <1>t, <1>3 DEF Start, TypeOK, consumerVars
<1>4. CASE StartFails(s)
    <2>1. tokenQueue'[s] \in Seq(Item)
        BY <1>4, StartInv
    <2> QED
        BY <1>t, <1>4, <2>1 DEF StartFails, Post, TypeOK, consumerVars, generationVars
<1>5. CASE Get(s)
    <2>1. tokenQueue'[s] \in Seq(Item) /\ token'[s] \in Nat
        BY <1>5, GetInv
    <2>2. /\ consumer' \in [Streams -> {"none", "waiting", "checking"} \cup Ended]
          /\ token' \in [Streams -> Nat]
        BY <1>t, <1>5, <2>1 DEF Get, EndStream, TypeOK, Ended
    <2>3. tokenQueue' \in [Streams -> Seq(Item)]
        BY <1>t, <1>5, <2>1 DEF Get, TypeOK
    <2> QED
        BY <1>t, <1>5, <2>2, <2>3 DEF Get, TypeOK, producerVars, generationVars
<1>6. CASE Check(s)
    <2>1. sent'[s] \in Seq(Nat \ {0})
        BY <1>6, CheckInv
    <2>2. sent' \in [Streams -> Seq(Nat \ {0})]
        BY <1>t, <1>6, <2>1 DEF Check, TypeOK
    <2> QED
        BY <1>t, <1>6, <2>2 DEF Check, EndStream, TypeOK, producerVars, generationVars, Ended
<1>7. CASE Timeout(s)
    BY <1>t, <1>7 DEF Timeout, EndStream, TypeOK, producerVars, generationVars, Ended
<1>8. CASE Cancel(s)
    BY <1>t, <1>8 DEF Cancel, EndStream, TypeOK, producerVars, generationVars, Ended
<1>9. CASE Read(s)
    <2>1. tokenQueue'[s] \in Seq(Item) /\ read'[s] \in Nat
        BY <1>9, ReadInv
    <2>2. tokenQueue' \in [Streams -> Seq(Item)]
        BY <1>t, <1>9, <2>1 DEF Read, Post, TypeOK
    <2>3. read' \in [Streams -> Nat]
        BY <1>t, <1>9, <2>1 DEF Read, TypeOK
    <2> QED
        BY <1>t, <1>9, <2>2, <2>3 DEF Read, TypeOK, consumerVars, generationVars
<1>10. CASE ReadEnd(s)
    <2>1. tokenQueue'[s] \in Seq(Item)
        BY <1>10, ReadEndInv
    <2> QED
        BY <1>t, <1>10, <2>1 DEF ReadEnd, Post, TypeOK, consumerVars, generationVars
<1>11. CASE ReadTimeout(s)
    <2>1. tokenQueue'[s] \in Seq(Item)
        BY <1>11, ReadTimeoutInv
    <2> QED
        BY <1>t, <1>11, <2>1 DEF ReadTimeout, Post, TypeOK, consumerVars, generationVars
<1>12. CASE GenerationStep(s)
    <2>1. made'[s] \in Nat
        BY <1>12, GenerationInv
    <2>2. made' \in [Streams -> Nat]
        BY <1>t, <1>12, <2>1 DEF GenerationStep, Generate, GenerateEnds, GenerateFails, TypeOK
    <2> QED
        BY <1>t, <1>12, <2>2 DEF GenerationStep, Generate, GenerateEnds, GenerateFails, TypeOK,
                                 consumerVars, producerVars
<1> QED
    BY <1>1, <1>2, <1>3, <1>4, <1>5, <1>6, <1>7, <1>8, <1>9, <1>10, <1>11, <1>12
       DEF ConsumerStep, ProducerStep

\* A step of one stream touches no other.
LEMMA StepOthers ==
    ASSUME Inv, NEW s \in Streams,
           \/ Open(s) \/ Disconnect(s) \/ Start(s) \/ StartFails(s)
           \/ ConsumerStep(s) \/ ProducerStep(s) \/ GenerationStep(s),
           NEW r \in Streams, r # s
    PROVE  Untouched(r)
<1>t. /\ DOMAIN consumer = Streams /\ DOMAIN token = Streams /\ DOMAIN sent = Streams
      /\ DOMAIN producer = Streams /\ DOMAIN tokenQueue = Streams /\ DOMAIN stalled = Streams
      /\ DOMAIN generation = Streams /\ DOMAIN made = Streams /\ DOMAIN read = Streams
    BY DEF Inv, TypeOK
<1>1. CASE Open(s) \/ Disconnect(s)
    BY <1>t, <1>1 DEF Open, Disconnect, Untouched, consumerVars, producerVars, generationVars
<1>2. CASE Start(s) \/ StartFails(s)
    BY <1>t, <1>2 DEF Start, StartFails, Post, Untouched, consumerVars, generationVars
<1>3. CASE ConsumerStep(s)
    <2>1. CASE Get(s)
        BY <1>t, <2>1 DEF Get, EndStream, Untouched, producerVars, generationVars
    <2>2. CASE Check(s)
        BY <1>t, <2>2 DEF Check, EndStream, Untouched, producerVars, generationVars
    <2>3. CASE Timeout(s) \/ Cancel(s)
        BY <1>t, <2>3 DEF Timeout, Cancel, EndStream, Untouched, producerVars, generationVars
    <2> QED
        BY <1>3, <2>1, <2>2, <2>3 DEF ConsumerStep
<1>4. CASE ProducerStep(s)
    <2>1. CASE Read(s)
        BY <1>t, <2>1 DEF Read, Post, Untouched, consumerVars, generationVars
    <2>2. CASE ReadEnd(s)
        BY <1>t, <2>2 DEF ReadEnd, Post, Untouched, consumerVars, generationVars
    <2>3. CASE ReadTimeout(s)
        BY <1>t, <2>3 DEF ReadTimeout, Post, Untouched, consumerVars, generationVars
    <2> QED
        BY <1>4, <2>1, <2>2, <2>3 DEF ProducerStep
<1>5. CASE GenerationStep(s)
    BY <1>t, <1>5 DEF GenerationStep, Generate, GenerateEnds, GenerateFails, Untouched,
                consumerVars, producerVars
<1> QED
    BY <1>1, <1>2, <1>3, <1>4, <1>5

\* The streams that read are as many as the executor has threads at most.
LEMMA StepReading ==
    ASSUME Inv, NEW s \in Streams,
           \/ Open(s) \/ Disconnect(s) \/ Start(s) \/ StartFails(s)
           \/ ConsumerStep(s) \/ ProducerStep(s) \/ GenerationStep(s)
    PROVE  Cardinality(Reading') <= MaxWorkers
<1>1. /\ IsFiniteSet(Reading) /\ Cardinality(Reading) \in Nat
      /\ MaxWorkers \in Nat /\ Cardinality(Reading) <= MaxWorkers
    <2>1. Reading \subseteq Streams
        BY DEF Reading
    <2> QED
        BY <2>1, StreamingAssumption, FS_Subset, FS_CardinalityType DEF Inv
<1>2. CASE Start(s)
    <2>1. /\ Cardinality(Reading) < MaxWorkers
          /\ producer' = [producer EXCEPT ![s] = "reading"]
        BY <1>2 DEF Start, Reading
    <2>2. Reading' = Reading \cup {s}
        BY <2>1 DEF Reading, Inv, TypeOK
    <2>3. Cardinality(Reading \cup {s}) <= Cardinality(Reading) + 1
        BY <1>1, FS_AddElement
    <2>4. Cardinality(Reading \cup {s}) \in Nat
        BY <1>1, FS_AddElement, FS_CardinalityType
    <2> QED
        BY <1>1, <2>1, <2>2, <2>3, <2>4
<1>3. CASE ~Start(s)
    <2>1. Reading' \subseteq Reading
        <3>1. CASE Open(s) \/ Disconnect(s) \/ StartFails(s)
            BY <3>1 DEF Open, Disconnect, StartFails, producerVars, Reading, Inv, TypeOK
        <3>2. CASE ConsumerStep(s)
            BY <3>2 DEF ConsumerStep, Get, Check, Timeout, Cancel, producerVars, Reading
        <3>3. CASE ProducerStep(s)
            BY <3>3 DEF ProducerStep, Read, ReadEnd, ReadTimeout, Reading, Inv, TypeOK
        <3>4. CASE GenerationStep(s)
            BY <3>4 DEF GenerationStep, Generate, GenerateEnds, GenerateFails, producerVars, Reading
        <3> QED
            BY <1>3, <3>1, <3>2, <3>3, <3>4
    <2>2. Cardinality(Reading') \in Nat /\ Cardinality(Reading') <= Cardinality(Reading)
        BY <1>1, <2>1, FS_Subset, FS_CardinalityType
    <2> QED
        BY <1>1, <2>2
<1> QED
    BY <1>2, <1>3

\* Every step preserves the invariant.
LEMMA NextInv == Inv /\ [Next]_vars => Inv'
<1> SUFFICES ASSUME Inv, [Next]_vars PROVE Inv'
    OBVIOUS
<1>1. CASE UNCHANGED vars
    <2>1. TypeOK'
        BY <1>1 DEF vars, consumerVars, producerVars, generationVars, Inv, TypeOK
    <2>2. ASSUME NEW r \in Streams PROVE StreamInv(r)'
        <3>1. Untouched(r)
            BY <1>1 DEF Untouched, vars, consumerVars, producerVars, generationVars
        <3> QED
            BY <3>1, Frame DEF Inv
    <2>3. Reading' = Reading
        BY <1>1 DEF Reading, vars, producerVars
    <2> QED
        BY <2>1, <2>2, <2>3 DEF Inv
<1>2. ASSUME NEW s \in Streams,
             \/ Open(s) \/ Disconnect(s) \/ Start(s) \/ StartFails(s)
             \/ ConsumerStep(s) \/ ProducerStep(s) \/ GenerationStep(s)
      PROVE  Inv'
    <2>1. TypeOK' /\ Cardinality(Reading') <= MaxWorkers
        BY <1>2, StepTypes, StepReading
    <2>2. StreamInv(s)'
        <3>1. CASE Open(s)
            BY <3>1, OpenInv
        <3>2. CASE Disconnect(s)
            <4>1. Untouched(s)
                BY <3>2 DEF Disconnect, Untouched, producerVars, generationVars
            <4> QED
                BY <4>1, Frame DEF Inv
        <3>3. CASE Start(s) \/ StartFails(s)
            BY <3>3, StartInv
        <3>4. CASE ConsumerStep(s)
            BY <3>4, GetInv, CheckInv, CloseInv DEF ConsumerStep
        <3>5. CASE ProducerStep(s)
            BY <3>5, ReadInv, ReadEndInv, ReadTimeoutInv DEF ProducerStep
        <3>6. CASE GenerationStep(s)
            BY <3>6, GenerationInv
        <3> QED
            BY <1>2, <3>1, <3>2, <3>3, <3>4, <3>5, <3>6
    <2>3. ASSUME NEW r \in Streams, r # s PROVE StreamInv(r)'
        <3>1. Untouched(r)
            BY <1>2, <2>3, StepOthers
        <3> QED
            BY <3>1, Frame DEF Inv
    <2> QED
        BY <2>1, <2>2, <2>3 DEF Inv
<1> QED
    BY <1>1, <1>2 DEF Next

\* What the queues hold is in order, in every reachable state.
THEOREM InvHolds == Spec => []Inv
<1>1. Init => Inv
    BY InitInv
<1>2. Inv /\ [Next]_vars => Inv'
    BY NextInv
<1> QED
    BY <1>1, <1>2, PTL DEF Spec

\* Type correctness of the three actors of a stream and of both queues.
THEOREM TypeCorrect == Spec => []TypeOK
<1>1. Inv => TypeOK
    BY DEF Inv
<1> QED
    BY <1>1, InvHolds, PTL

\* No more generations run within the patience of their streamers than the executor
\* has threads, for any number of streams.
THEOREM ExecutorBoundsGenerations == Spec => []GenerationsBounded
<1>1. Inv => GenerationsBounded
    <2> SUFFICES ASSUME Inv PROVE GenerationsBounded
        OBVIOUS
    <2> DEFINE Running == {s \in Streams : generation[s] = "running" /\ ~stalled[s]}
    <2>1. Running \subseteq Reading
        BY DEF Inv, StreamInv, Counts, Reading
    <2>2. IsFiniteSet(Reading) /\ Cardinality(Reading) <= MaxWorkers /\ MaxWorkers \in Nat
        <3>1. Reading \subseteq Streams
            BY DEF Reading
        <3> QED
            BY <3>1, StreamingAssumption, FS_Subset DEF Inv
    <2>3. /\ Cardinality(Running) \in Nat /\ Cardinality(Reading) \in Nat
          /\ Cardinality(Running) <= Cardinality(Reading)
        BY <2>1, <2>2, FS_Subset, FS_CardinalityType
    <2> QED
        BY <2>2, <2>3 DEF GenerationsBounded
<1> QED
    BY <1>1, InvHolds, PTL

-----------------------------------------------------------------------------
(***************************************************************************)
(* The refinement: what the client sees is a behaviour of TokenStream.     *)
(* Only four kinds of steps are more than a stutter there: Open begins a   *)
(* stream, Check delivers the text taken, the ways out of the generator    *)
(* finish it, and Disconnect makes the client leave.                       *)
(***************************************************************************)
Outcomes == [s \in Streams |-> Outcome(s)]

\* How the outcome of one stream changes.
LEMMA OutcomeStep ==
    ASSUME NEW s \in Streams, NEW o,
           TypeOK, consumer' = [consumer EXCEPT ![s] = o]
    PROVE  Outcomes' = [Outcomes EXCEPT ![s] = IF o \in {"waiting", "checking"} THEN "open" ELSE o]
BY DEF Outcomes, Outcome, TypeOK

\* A stream that begins is Begin of TokenStream.
LEMMA OpenRefines ==
    ASSUME Inv, NEW s \in Streams, Open(s)
    PROVE  Promised!Begin(s)
<1>1. Outcomes' = [Outcomes EXCEPT ![s] = "open"]
    BY OutcomeStep DEF Open, Inv
<1>2. Outcomes[s] = "none"
    BY DEF Open, Outcomes, Outcome
<1> QED
    BY <1>1, <1>2 DEF Open, Promised!Begin, Outcomes

\* A stream that is over is Finish; it is complete when the last event was sent.
LEMMA FinishRefines ==
    ASSUME Inv, NEW s \in Streams, NEW o \in Ended,
           Waiting(s), consumer' = [consumer EXCEPT ![s] = o],
           UNCHANGED <<sent, client>>,
           o = "complete" => \A i \in Promised!Events(s) : i <= Promised!LastSent(s),
           o = "cut" => ~client[s]
    PROVE  Promised!Finish(s, o)
<1>1. Outcomes' = [Outcomes EXCEPT ![s] = o]
    BY OutcomeStep DEF Inv, Ended
<1>2. Outcomes[s] = "open"
    BY DEF Waiting, Outcomes, Outcome
<1> QED
    BY <1>1, <1>2 DEF Promised!Finish, Outcomes

\* Taking from the queue is invisible, or the end of the stream.
LEMMA GetRefines ==
    ASSUME Inv, NEW s \in Streams, Get(s)
    PROVE  \/ UNCHANGED <<sent, Outcomes, client>>
           \/ \E o \in {"complete", "error", "cut"} : Promised!Finish(s, o)
<1> DEFINE q == tokenQueue[s]
<1>1. /\ consumer[s] = "waiting" /\ Waiting(s) /\ q # <<>>
      /\ UNCHANGED <<sent, client>>
    BY DEF Get, Waiting
<1>2. q \in Seq(Item)
    BY StreamTypes DEF Inv
<1>3. Len(q) \in Nat \ {0} /\ Head(q) = q[1] /\ 1 \in 1 .. Len(q)
    BY <1>1, <1>2, TakeOne
<1>4. CASE q[1].type = "end"
    <2>1. consumer' = [consumer EXCEPT ![s] = "complete"]
        BY <1>3, <1>4 DEF Get, EndStream
    <2>2. \A i \in Promised!Events(s) : i <= Promised!LastSent(s)
        <3>1. InOrder(s)
            BY DEF Inv, StreamInv
        <3>2. \A i \in Promised!Events(s) : i <= Before(s, 1)
            BY <1>1, <1>3, <1>4, <3>1 DEF InOrder, InPlace
        <3> QED
            BY <1>1, <3>2 DEF Before, Taken
    <2>3. Promised!Finish(s, "complete")
        BY <1>1, <2>1, <2>2, FinishRefines DEF Ended
    <2> QED
        BY <2>3
<1>5. CASE q[1].type # "end" /\ (q[1].type = "error" \/ Chunks[s][q[1].at] = "marker")
    <2>1. consumer' = [consumer EXCEPT ![s] = "error"]
        BY <1>3, <1>5 DEF Get, EndStream
    <2>2. Promised!Finish(s, "error")
        BY <1>1, <2>1, FinishRefines DEF Ended
    <2> QED
        BY <2>2
<1>6. CASE q[1].type # "end" /\ ~(q[1].type = "error" \/ Chunks[s][q[1].at] = "marker")
    <2>1. consumer' = [consumer EXCEPT ![s] = "checking"]
        BY <1>3, <1>6 DEF Get
    <2>2. Outcomes' = [Outcomes EXCEPT ![s] = "open"]
        BY <2>1, OutcomeStep DEF Inv
    <2>3. Outcomes[s] = "open"
        BY <1>1 DEF Outcomes, Outcome
    <2>4. Outcomes' = Outcomes
        BY <2>2, <2>3 DEF Outcomes
    <2> QED
        BY <1>1, <2>4
<1> QED
    BY <1>4, <1>5, <1>6

\* A text is sent when it is the next one, or the client is gone.
LEMMA CheckRefines ==
    ASSUME Inv, NEW s \in Streams, Check(s)
    PROVE  Promised!Deliver(s) \/ \E o \in {"complete", "error", "cut"} : Promised!Finish(s, o)
<1>1. consumer[s] = "checking" /\ Waiting(s) /\ UNCHANGED client
    BY DEF Check, Waiting
<1>2. CASE client[s]
    <2>1. Promised!Follows(s, Promised!LastSent(s), token[s])
        BY <1>1 DEF Inv, StreamInv, TakenNext
    <2>2. Outcomes' = [Outcomes EXCEPT ![s] = "open"]
        BY <1>2, OutcomeStep DEF Check, Inv
    <2>3. Outcomes[s] = "open"
        BY <1>1 DEF Outcomes, Outcome
    <2>4. Outcomes' = Outcomes
        BY <2>2, <2>3 DEF Outcomes
    <2>5. sent' = [sent EXCEPT ![s] = Append(@, token[s])]
        BY <1>2 DEF Check
    <2>6. token[s] \in Promised!Events(s)
        BY <2>1 DEF Promised!Follows
    <2>7. Promised!Deliver(s)
        BY <1>1, <2>1, <2>3, <2>4, <2>5, <2>6 DEF Promised!Deliver, Outcomes
    <2> QED
        BY <2>7
<1>3. CASE ~client[s]
    <2>1. consumer' = [consumer EXCEPT ![s] = "cut"] /\ UNCHANGED sent
        BY <1>3 DEF Check, EndStream
    <2>2. Promised!Finish(s, "cut")
        BY <1>1, <1>3, <2>1, FinishRefines DEF Ended
    <2> QED
        BY <2>2
<1> QED
    BY <1>2, <1>3

LEMMA StepRefines == Inv /\ [Next]_vars => [Promised!Next]_<<sent, Outcomes, client>>
<1> SUFFICES ASSUME Inv, [Next]_vars PROVE [Promised!Next]_<<sent, Outcomes, client>>
    OBVIOUS
<1>1. CASE UNCHANGED vars
    BY <1>1 DEF vars, consumerVars, Outcomes, Outcome
<1>2. ASSUME NEW s \in Streams,
             \/ Open(s) \/ Disconnect(s) \/ Start(s) \/ StartFails(s)
             \/ ConsumerStep(s) \/ ProducerStep(s) \/ GenerationStep(s)
      PROVE  [Promised!Next]_<<sent, Outcomes, client>>
    <2>1. CASE Open(s)
        BY <2>1, OpenRefines DEF Promised!Next
    <2>2. CASE Disconnect(s)
        <3>1. Promised!Leave(s)
            BY <2>2 DEF Disconnect, Promised!Leave, Outcome
        <3> QED
            BY <3>1 DEF Promised!Next
    <2>3. CASE Start(s) \/ StartFails(s) \/ ProducerStep(s) \/ GenerationStep(s)
        <3>1. UNCHANGED <<consumer, sent, client>>
            BY <2>3 DEF Start, StartFails, ProducerStep, Read, ReadEnd, ReadTimeout,
                        GenerationStep, Generate, GenerateEnds, GenerateFails, consumerVars
        <3> QED
            BY <3>1 DEF Outcomes, Outcome
    <2>4. CASE Get(s)
        BY <2>4, GetRefines DEF Promised!Next
    <2>5. CASE Check(s)
        BY <2>5, CheckRefines DEF Promised!Next
    <2>6. CASE Timeout(s)
        <3>1. Promised!Finish(s, "error")
            BY <2>6, FinishRefines DEF Timeout, EndStream, Ended, Waiting
        <3> QED
            BY <3>1 DEF Promised!Next
    <2>7. CASE Cancel(s)
        <3>1. Promised!Finish(s, "cut")
            BY <2>7, FinishRefines DEF Cancel, EndStream, Ended, Waiting
        <3> QED
            BY <3>1 DEF Promised!Next
    <2> QED
        BY <1>2, <2>1, <2>2, <2>3, <2>4, <2>5, <2>6, <2>7 DEF ConsumerStep
<1> QED
    BY <1>1, <1>2 DEF Next

\* A stream keeps what it promises its client, whatever its queues hold, its
\* generation does and its timeouts interrupt: every event once and in order, and no
\* complete end without the last of them.
THEOREM StreamRefines == Spec => KeepsStreamPromise
<1>1. Init => Promised!Init
    BY DEF Init, Promised!Init, Outcome
<1>2. Inv /\ [Next]_vars => [Promised!Next]_<<sent, Outcomes, client>>
    BY StepRefines
<1> QED
    BY <1>1, <1>2, InvHolds, PTL DEF Spec, KeepsStreamPromise, Promised!Spec, Outcomes

-----------------------------------------------------------------------------
(***************************************************************************)
(* What the promise amounts to: the client has an initial part of the      *)
(* events, in their order and each once, and all of them when its stream   *)
(* is complete.                                                            *)
(***************************************************************************)
InitialPart(s) ==
    /\ \A n \in 1 .. Len(sent[s]) : sent[s][n] \in Promised!Events(s)
    /\ \A m, n \in 1 .. Len(sent[s]) : m < n => sent[s][m] < sent[s][n]
    /\ \A e \in Promised!Events(s) :
           e <= Promised!LastSent(s) => \E n \in 1 .. Len(sent[s]) : sent[s][n] = e

AllWhenComplete(s) ==
    Outcome(s) = "complete" =>
        \A e \in Promised!Events(s) : \E n \in 1 .. Len(sent[s]) : sent[s][n] = e

Received == \A s \in Streams : InitialPart(s) /\ AllWhenComplete(s)

\* The text a delivery adds is the next one: the client keeps an initial part.
LEMMA DeliverReceived ==
    ASSUME TypeOK, NEW s \in Streams, InitialPart(s), Promised!Deliver(s)
    PROVE  InitialPart(s)'
<1>1. PICK j \in Promised!Events(s) :
          /\ Promised!Follows(s, Promised!LastSent(s), j)
          /\ sent' = [sent EXCEPT ![s] = Append(@, j)]
    BY DEF Promised!Deliver
<1> DEFINE old == sent[s]
           new == sent'[s]
           last == Promised!LastSent(s)
<1>2. /\ old \in Seq(Nat \ {0}) /\ Len(old) \in Nat /\ last \in Nat
      /\ Promised!Events(s) \subseteq 1 .. Len(Chunks[s]) /\ Len(Chunks[s]) \in Nat
    BY StreamTypes
<1>3. j \in Nat \ {0} /\ last < j /\ \A e \in Promised!Events(s) : last < e => j <= e
    BY <1>1, <1>2 DEF Promised!Follows
<1>4. /\ new \in Seq(Nat \ {0}) /\ Len(new) = Len(old) + 1
      /\ \A n \in 1 .. Len(old) : new[n] = old[n]
      /\ new[Len(old) + 1] = j
    <2>1. sent \in [Streams -> Seq(Nat \ {0})]
        BY DEF TypeOK
    <2>2. new = Append(old, j)
        BY <1>1, <2>1
    <2> QED
        BY <1>2, <1>3, <2>2, AppendProperties
<1>5. Promised!LastSent(s)' = j
    <2>1. Len(new) > 0 /\ new[Len(new)] = j
        BY <1>2, <1>4
    <2>2. new # <<>>
        BY <2>1
    <2> QED
        BY <2>1, <2>2 DEF Promised!LastSent
<1>6. old # <<>> => last = old[Len(old)] /\ Len(old) > 0
    BY <1>2, EmptySeq DEF Promised!LastSent
<1>7. \A n \in 1 .. Len(old) : old[n] \in Nat \ {0} /\ old[n] <= last
    <2> SUFFICES ASSUME NEW n \in 1 .. Len(old)
                 PROVE  old[n] \in Nat \ {0} /\ old[n] <= last
        OBVIOUS
    <2>1. old[n] \in Nat \ {0} /\ Len(old) \in 1 .. Len(old) /\ old # <<>>
        BY <1>2, ElementOfSeq
    <2>2. CASE n = Len(old)
        BY <1>2, <1>6, <2>1, <2>2
    <2>3. CASE n # Len(old)
        <3>1. n < Len(old)
            BY <1>2, <2>3
        <3>2. old[n] < old[Len(old)] /\ old[Len(old)] \in Nat
            BY <1>2, <2>1, <3>1, ElementOfSeq DEF InitialPart
        <3> QED
            BY <1>6, <2>1, <3>2
    <2> QED
        BY <2>2, <2>3
<1>8. /\ \A n \in 1 .. Len(old) : old[n] \in Promised!Events(s)
      /\ \A m, n \in 1 .. Len(old) : m < n => old[m] < old[n]
      /\ \A e \in Promised!Events(s) : e <= last => \E n \in 1 .. Len(old) : old[n] = e
    BY DEF InitialPart
<1> HIDE DEF old, new, last
<1>9. \A n \in 1 .. Len(new) : n \in 1 .. Len(old) \/ n = Len(old) + 1
    BY <1>2, <1>4
<1>10. 1 .. Len(old) \subseteq 1 .. Len(new) /\ Len(old) + 1 \in 1 .. Len(new)
    BY <1>2, <1>4
<1>11. \A n \in 1 .. Len(new) : new[n] \in Promised!Events(s)
    BY <1>1, <1>4, <1>8, <1>9
<1>12. ASSUME NEW m \in 1 .. Len(new), NEW n \in 1 .. Len(new), m < n
       PROVE  new[m] < new[n]
    <2>1. m \in 1 .. Len(old)
        BY <1>2, <1>4, <1>12
    <2>2. CASE n \in 1 .. Len(old)
        BY <1>4, <1>8, <1>12, <2>1, <2>2
    <2>3. CASE n = Len(old) + 1
        <3>1. new[m] = old[m] /\ old[m] \in Nat /\ old[m] <= last
            BY <1>4, <1>7, <2>1
        <3>2. new[n] = j
            BY <1>4, <2>3
        <3> QED
            BY <1>2, <1>3, <3>1, <3>2
    <2> QED
        BY <1>9, <2>2, <2>3
<1>13. ASSUME NEW e \in Promised!Events(s), e <= j
       PROVE  \E n \in 1 .. Len(new) : new[n] = e
    <2>1. CASE e <= last
        BY <1>4, <1>8, <1>10, <2>1
    <2>2. CASE ~(e <= last)
        <3>1. e = j
            BY <1>2, <1>3, <1>13, <2>2
        <3> QED
            BY <1>4, <1>10, <3>1
    <2> QED
        BY <2>1, <2>2
<1>14. Promised!Events(s)' = Promised!Events(s)
    BY DEF Promised!Events
<1> QED
    BY <1>5, <1>11, <1>12, <1>13, <1>14 DEF InitialPart, new

\* Whatever happens, a client has the first texts of its stream in their order, none
\* twice and none left out; a stream that ends as complete has them all.
THEOREM ClientsReceive == Spec => []Received
<1>1. Init => Received
    <2> SUFFICES ASSUME Init, NEW s \in Streams PROVE InitialPart(s) /\ AllWhenComplete(s)
        BY DEF Received
    <2>1. sent[s] = <<>> /\ Outcome(s) = "none"
        BY DEF Init, Outcome
    <2>2. Promised!LastSent(s) = 0 /\ \A e \in Promised!Events(s) : ~(e <= 0)
        BY <2>1, StreamingAssumption DEF Promised!LastSent, Promised!Events
    <2> QED
        BY <2>1, <2>2 DEF InitialPart, AllWhenComplete
<1>2. Inv /\ Received /\ [Next]_vars => Received'
    <2> SUFFICES ASSUME Inv, Received, [Next]_vars, NEW s \in Streams
                 PROVE  InitialPart(s)' /\ AllWhenComplete(s)'
        BY DEF Received
    <2>1. /\ TypeOK /\ InitialPart(s) /\ AllWhenComplete(s)
          /\ [Promised!Next]_<<sent, Outcomes, client>>
        BY StepRefines DEF Inv, Received
    <2>2. Outcomes[s] = Outcome(s) /\ Outcomes'[s] = Outcome(s)'
        BY DEF Outcomes
    <2>3. CASE Promised!Deliver(s)
        <3>1. Outcome(s) = "open" /\ Outcome(s)' = Outcome(s)
            BY <2>2, <2>3 DEF Promised!Deliver, Outcomes
        <3> QED
            BY <2>1, <2>3, <3>1, DeliverReceived DEF AllWhenComplete
    <2>4. CASE ~Promised!Deliver(s)
        <3>1. sent'[s] = sent[s]
            BY <2>1, <2>4 DEF TypeOK, Promised!Next, Promised!Begin, Promised!Deliver,
                              Promised!Finish, Promised!Leave
        <3>2. InitialPart(s)'
            BY <2>1, <3>1 DEF InitialPart, Promised!LastSent, Promised!Events
        <3>3. CASE Promised!Finish(s, "complete")
            <4>1. \A e \in Promised!Events(s) : e <= Promised!LastSent(s)
                BY <3>3 DEF Promised!Finish
            <4> QED
                BY <2>1, <3>1, <3>2, <4>1 DEF InitialPart, AllWhenComplete, Promised!Events
        <3>4. CASE ~Promised!Finish(s, "complete")
            <4>1. Outcome(s)' = "complete" => Outcome(s) = "complete"
                BY <2>1, <2>2, <3>4 DEF Outcomes, Promised!Next, Promised!Begin, Promised!Deliver,
                                        Promised!Finish, Promised!Leave
            <4> QED
                BY <2>1, <3>1, <3>2, <4>1 DEF AllWhenComplete, Promised!Events
        <3> QED
            BY <3>3, <3>4
    <2> QED
        BY <2>3, <2>4
<1> QED
    BY <1>1, <1>2, InvHolds, PTL DEF Spec
=============================================================================
