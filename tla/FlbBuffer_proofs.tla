--------------------------- MODULE FlbBuffer_proofs ---------------------------
(***************************************************************************)
(* Proofs about FlbBuffer, for every set of chunks, outputs, routes, any   *)
(* number of workers and of starts.                                        *)
(***************************************************************************)
EXTENDS FlbBuffer, SequenceTheorems, FiniteSetTheorems, TLAPS

USE DEF EngineIdle

-----------------------------------------------------------------------------
(* Sequences.                                                              *)

\* A request is appended to a channel.
LEMMA AppendRange ==
  ASSUME NEW S, NEW s \in Seq(S), NEW e \in S
  PROVE  /\ Append(s, e) \in Seq(S)
         /\ Append(s, e) # <<>>
         /\ Range(Append(s, e)) = Range(s) \union {e}
         /\ IsInjective(s) /\ e \notin Range(s) => IsInjective(Append(s, e))
<1>1. /\ Append(s, e) \in Seq(S) /\ Len(Append(s, e)) = Len(s) + 1
      /\ \A i \in 1..Len(s) : Append(s, e)[i] = s[i]
      /\ Append(s, e)[Len(s) + 1] = e
  OBVIOUS
<1>2. DOMAIN s = 1..Len(s) /\ DOMAIN Append(s, e) = 1..(Len(s) + 1)
  BY <1>1
<1>3. Range(Append(s, e)) = Range(s) \union {e}
  BY <1>1, <1>2 DEF Range
<1>4. IsInjective(s) /\ e \notin Range(s) => IsInjective(Append(s, e))
  BY <1>1, <1>2 DEF IsInjective, Range
<1> QED BY <1>1, <1>3, <1>4

\* The head of a channel is taken.
LEMMA TailRange ==
  ASSUME NEW S, NEW s \in Seq(S), s # <<>>
  PROVE  /\ Head(s) \in S /\ Head(s) \in Range(s)
         /\ Tail(s) \in Seq(S)
         /\ Range(s) = Range(Tail(s)) \union {Head(s)}
         /\ IsInjective(s) => IsInjective(Tail(s)) /\ Head(s) \notin Range(Tail(s))
<1>1. /\ Len(s) \in Nat /\ Len(s) >= 1 /\ Head(s) = s[1] /\ Head(s) \in S
      /\ Tail(s) \in Seq(S) /\ Len(Tail(s)) = Len(s) - 1
      /\ \A i \in 1..(Len(s) - 1) : Tail(s)[i] = s[i + 1]
  OBVIOUS
<1>2. DOMAIN s = 1..Len(s) /\ DOMAIN Tail(s) = 1..(Len(s) - 1)
  BY <1>1
<1>3. Range(s) = Range(Tail(s)) \union {Head(s)}
  <2>1. ASSUME NEW x \in Range(s), x # Head(s) PROVE x \in Range(Tail(s))
    <3>1. PICK i \in 1..Len(s) : s[i] = x
      BY <1>2 DEF Range
    <3>2. i - 1 \in 1..(Len(s) - 1) /\ Tail(s)[i - 1] = x
      BY <1>1, <2>1, <3>1
    <3> QED BY <1>2, <3>2 DEF Range
  <2>2. ASSUME NEW x \in Range(Tail(s)) PROVE x \in Range(s)
    <3>1. PICK i \in 1..(Len(s) - 1) : Tail(s)[i] = x
      BY <1>2 DEF Range
    <3> QED BY <1>1, <1>2, <3>1 DEF Range
  <2>3. Head(s) \in Range(s)
    BY <1>1, <1>2 DEF Range
  <2> QED BY <2>1, <2>2, <2>3
<1>4. IsInjective(s) => IsInjective(Tail(s)) /\ Head(s) \notin Range(Tail(s))
  BY <1>1, <1>2 DEF IsInjective, Range
<1> QED BY <1>1, <1>3, <1>4

LEMMA EmptyRange ==
  /\ Range(<<>>) = {} /\ IsInjective(<<>>)
BY DEF Range, IsInjective

\* A non-empty channel is one with something in it.
LEMMA RangeEmpty ==
  ASSUME NEW S, NEW s \in Seq(S)
  PROVE  /\ Range(s) \subseteq S
         /\ s = <<>> <=> Range(s) = {}
<1>1. DOMAIN s = 1..Len(s) /\ Len(s) \in Nat /\ \A i \in 1..Len(s) : s[i] \in S
  OBVIOUS
<1>2. Range(s) \subseteq S
  BY <1>1 DEF Range
<1>3. s = <<>> => Range(s) = {}
  BY EmptyRange
<1>4. ASSUME s # <<>> PROVE Range(s) # {}
  BY <1>4, TailRange
<1> QED BY <1>2, <1>3, <1>4

\* A node is unlinked.
LEMMA RemoveAtSeq ==
  ASSUME NEW S, NEW s \in Seq(S), NEW k \in 1..Len(s)
  PROVE  /\ RemoveAt(s, k) \in Seq(S)
         /\ DOMAIN RemoveAt(s, k) = 1..(Len(s) - 1)
         /\ \A i \in 1..(Len(s) - 1) :
              RemoveAt(s, k)[i] = IF i < k THEN s[i] ELSE s[i + 1]
<1> DEFINE a == SubSeq(s, 1, k - 1)
           b == SubSeq(s, k + 1, Len(s))
<1>1. /\ a \in Seq(S) /\ Len(a) = k - 1 /\ \A i \in 1..(k - 1) : a[i] = s[i]
  OBVIOUS
<1>2. /\ b \in Seq(S) /\ Len(b) = Len(s) - k
      /\ \A i \in 1..(Len(s) - k) : b[i] = s[k + i]
  OBVIOUS
<1>3. RemoveAt(s, k) = a \o b
  BY DEF RemoveAt
<1> HIDE DEF a, b
<1>4. /\ a \o b \in Seq(S) /\ Len(a \o b) = Len(s) - 1
      /\ \A i \in 1..(Len(s) - 1) :
           (a \o b)[i] = IF i <= k - 1 THEN a[i] ELSE b[i - (k - 1)]
  BY <1>1, <1>2
<1>5. \A i \in 1..(Len(s) - 1) : (a \o b)[i] = IF i < k THEN s[i] ELSE s[i + 1]
  <2> TAKE i \in 1..(Len(s) - 1)
  <2>1. CASE i < k
    BY <1>1, <1>4, <2>1
  <2>2. CASE ~(i < k)
    <3>1. i - (k - 1) \in 1..(Len(s) - k) /\ k + (i - (k - 1)) = i + 1
      BY <2>2
    <3> QED BY <1>2, <1>4, <2>2, <3>1
  <2> QED BY <2>1, <2>2
<1> QED BY <1>3, <1>4, <1>5

LEMMA SeqElem ==
  ASSUME NEW S, NEW s \in Seq(S)
  PROVE  /\ DOMAIN s = 1..Len(s) /\ Len(s) \in Nat
         /\ \A i \in 1..Len(s) : s[i] \in S /\ s[i] \in Range(s)
         /\ \A x \in Range(s) : x \in S /\ \E i \in 1..Len(s) : s[i] = x
BY DEF Range

LEMMA ConcatSeq ==
  ASSUME NEW S, NEW s \in Seq(S), NEW t \in Seq(S)
  PROVE  /\ s \o t \in Seq(S) /\ Len(s \o t) = Len(s) + Len(t)
         /\ \A i \in 1..(Len(s) + Len(t)) :
              (s \o t)[i] = IF i <= Len(s) THEN s[i] ELSE t[i - Len(s)]
OBVIOUS

\* An enumeration of a finite set.
LEMMA EnumSeq ==
  ASSUME NEW S, IsFiniteSet(S), NEW s \in SetToSeqs(S)
  PROVE  s \in Seq(S) /\ IsInjective(s)
BY FS_CardinalityType, SMT DEF SetToSeqs, IsInjective

\* The key of an event: nothing is lost of an id below 4.
LEMMA KeyOfId ==
  ASSUME NEW id \in Nat
  PROVE  /\ FLB_BUFFER_EV_KEY(id) \in Nat
         /\ id < 4 => FLB_BUFFER_EV_KEY(id) = id
BY SMT DEF FLB_BUFFER_EV_KEY

-----------------------------------------------------------------------------
(* Types.                                                                  *)

TypeInv == TypeOK /\ ReadyInv

\* The set of workers and what is sent to them.
LEMMA Basics ==
  /\ 0 \in Workers /\ WorkersN \in Nat /\ WorkersN > 0
  /\ \A c \in Chunks : Routes[c] \subseteq OutputSet /\ Routes[c] # {}
BY BufferAssumption DEF BufferAssumption, Workers

\* The worker the next chunk goes to exists.
LEMMA NextWorkerType ==
  ASSUME TypeOK PROVE NextWorker \in Workers
BY Basics DEF TypeOK, NextWorker, Workers

\* What an event of the batch finds in its channel.
LEMMA HeadType ==
  ASSUME TypeInv, NEW w \in Workers, NEW k, Takes(w, k)
  PROVE  /\ batch' = [batch EXCEPT ![w] = @ \ {k}]
         /\ batch' \in [Workers -> SUBSET Channels]
         /\ moving[w] = {}
         /\ k = "add" => Head(ch_add[w]) \in Chunks /\ Tail(ch_add[w]) \in Seq(Chunks)
         /\ k = "del" => Head(ch_del[w]) \in Chunks /\ Tail(ch_del[w]) \in Seq(Chunks)
         /\ k = "mov" => Head(ch_mov[w]) \in Names /\ Tail(ch_mov[w]) \in Seq(Names)
         /\ k = "del_ref" => /\ Head(ch_del_ref[w]) \in Chunks \X OutputSet
                             /\ Tail(ch_del_ref[w]) \in Seq(Chunks \X OutputSet)
<1>1. /\ k \in batch[w] /\ moving[w] = {}
      /\ batch' = [batch EXCEPT ![w] = @ \ {k}]
      /\ batch' \in [Workers -> SUBSET Channels]
  BY DEF Takes, TypeInv, TypeOK
<1>2. CASE k = "add"
  BY <1>1, <1>2, TailRange, SMTT(30) DEF TypeInv, TypeOK, ReadyInv
<1>3. CASE k = "del"
  BY <1>1, <1>3, TailRange, SMTT(30) DEF TypeInv, TypeOK, ReadyInv
<1>4. CASE k = "mov"
  BY <1>1, <1>4, TailRange DEF TypeInv, TypeOK, ReadyInv
<1>5. CASE k = "del_ref"
  BY <1>1, <1>5, TailRange DEF TypeInv, TypeOK, ReadyInv
<1> QED BY <1>1, <1>2, <1>3, <1>4, <1>5

\* Files keep their type, and outgoing/ stays finite, without a route.
LEMMA RemoveRouteType ==
  ASSUME NEW dir \in SUBSET Names, NEW n \in dir, NEW o
  PROVE  /\ RemoveRoute(dir, n, o) \in SUBSET Names
         /\ IsFiniteSet(dir) => IsFiniteSet(RemoveRoute(dir, n, o))
<1>1. [n EXCEPT !.routes = @ \ {o}] \in Names
  BY DEF Names
<1>2. RemoveRoute(dir, n, o) \subseteq dir \union {[n EXCEPT !.routes = @ \ {o}]}
  BY DEF RemoveRoute
<1>3. IsFiniteSet(dir) => IsFiniteSet(dir \union {[n EXCEPT !.routes = @ \ {o}]})
  BY FS_AddElement
<1> QED BY <1>1, <1>2, <1>3, FS_Subset

LEMMA EmptySeqType == \A S : <<>> \in Seq(S)
OBVIOUS

LEMMA InitType == Init => TypeInv
<1> SUFFICES ASSUME Init PROVE TypeInv
  OBVIOUS
<1>1. {c \in Chunks : task[c] = "live"} = {}
  BY DEF Init
<1>2. ReadyInv
  BY <1>1, FS_EmptySet DEF Init, ReadyInv
<1>3. worker_lru \in -1..(WorkersN - 1) /\ starts \in 0..MaxStarts
  BY Basics, BufferAssumption DEF BufferAssumption, Init
<1>4. walk \in [key : Nat, at : SUBSET Names]
  BY EmptySeqType DEF Init, NoWalk
<1>5. /\ ch_del_ref \in [Workers -> Seq(Chunks \X OutputSet)]
      /\ qch \in Seq({"STOP", "PUSH", "POP"} \X Nat)
      /\ queue \in Seq(Entries) /\ ch_manager \in Seq(Nat)
      /\ ch_add \in [Workers -> Seq(Chunks)] /\ ch_del \in [Workers -> Seq(Chunks)]
      /\ ch_mov \in [Workers -> Seq(Names)]
  BY EmptySeqType DEF Init
<1>6. TypeOK
  BY <1>3, <1>4, <1>5, Basics DEF Init, TypeOK
<1> QED BY <1>2, <1>6 DEF TypeInv

LEMMA StartType == ASSUME TypeInv, Start PROVE TypeInv'
<1> DEFINE F == {n \in outgoing : PendingRoutes(n) # {}}
<1> USE DEF TypeInv
<1>1. IsFiniteSet(F)
  BY FS_Subset DEF ReadyInv
<1>2. PICK s \in SetToSeqs(F) :
        queue' = [i \in 1..Len(s) |-> flb_buffer_qchunk_add(s[i])]
  BY DEF Start
<1>3. s \in Seq(F)
  BY <1>1, EnumSeq
<1>4. queue' \in Seq(Entries)
  <2>1. \A i \in 1..Len(s) : s[i] \in Names
    BY <1>3 DEF TypeOK
  <2>2. \A n \in Names : flb_buffer_qchunk_add(n) \in Entries
    BY DEF flb_buffer_qchunk_add, Entries, PendingRoutes, Referenced
  <2>3. Len(s) \in Nat
    BY <1>3
  <2> QED BY <1>2, <2>1, <2>2, <2>3
<1>5. starts' \in 0..MaxStarts
  BY BufferAssumption DEF BufferAssumption, TypeOK, Start
<1>6. worker_lru' \in -1..(WorkersN - 1)
  BY Basics DEF Start
<1>7. TypeOK'
  BY <1>4, <1>5, <1>6
     DEF TypeOK, Start, files, taskVars, channels, history
<1>8. ReadyInv'
  BY DEF ReadyInv, Start, files, taskVars, channels, history
<1> QED BY <1>7, <1>8

LEMMA VanishType == ASSUME TypeInv, Vanish PROVE TypeInv'
<1> USE DEF TypeInv
<1>0. worker_lru' \in -1..(WorkersN - 1)
  BY Basics DEF Vanish
<1>a. walk' \in [key : Nat, at : SUBSET Names]
  BY EmptySeqType DEF Vanish, NoWalk
<1>b. /\ ch_del_ref' \in [Workers -> Seq(Chunks \X OutputSet)]
      /\ qch' \in Seq({"STOP", "PUSH", "POP"} \X Nat)
      /\ queue' \in Seq(Entries) /\ ch_manager' \in Seq(Nat)
      /\ ch_add' \in [Workers -> Seq(Chunks)] /\ ch_del' \in [Workers -> Seq(Chunks)]
      /\ ch_mov' \in [Workers -> Seq(Names)]
  BY EmptySeqType DEF Vanish
<1>1. TypeOK'
  BY <1>0, <1>a, <1>b, Basics DEF TypeOK, Vanish, files, history
<1>2. {c \in Chunks : task'[c] = "live"} = {}
  BY DEF Vanish, TypeOK
<1>3. ReadyInv'
  BY <1>2, FS_EmptySet DEF ReadyInv, Vanish, files
<1> QED BY <1>1, <1>3

\* The set of living tasks after an action that may add c to it.
LEMMA LiveFinite ==
  ASSUME TypeInv, NEW c \in Chunks,
         \A d \in Chunks : d # c => (task'[d] = "live" => task[d] = "live")
  PROVE  IsFiniteSet({d \in Chunks : task'[d] = "live"})
<1>1. IsFiniteSet({d \in Chunks : task[d] = "live"} \union {c})
  BY FS_AddElement DEF TypeInv, ReadyInv
<1>2. {d \in Chunks : task'[d] = "live"}
        \subseteq {d \in Chunks : task[d] = "live"} \union {c}
  OBVIOUS
<1> QED BY <1>1, <1>2, FS_Subset

LEMMA CreateType ==
  ASSUME TypeInv, NEW c \in Chunks, Create(c) PROVE TypeInv'
<1> USE DEF TypeInv
<1>1. NextWorker \in Workers /\ NextWorker \in -1..(WorkersN - 1)
  BY NextWorkerType, Basics DEF Workers
<1>2. /\ Append(ch_add[NextWorker], c) \in Seq(Chunks)
      /\ Append(ch_add[NextWorker], c) # <<>>
  BY <1>1, AppendRange DEF TypeOK
<1>3. TypeOK'
  BY <1>1, <1>2, Basics
     DEF TypeOK, Create, files, process, qworker, history
<1>4. IsFiniteSet({d \in Chunks : task'[d] = "live"})
  BY LiveFinite DEF Create, TypeOK
<1>5. ReadyInv'
  BY <1>1, <1>2, <1>4 DEF ReadyInv, Create, files, TypeOK
<1> QED BY <1>3, <1>5

LEMMA ResultType ==
  ASSUME TypeInv, NEW c \in Chunks, NEW o \in OutputSet, NEW ret,
         Result(c, o, ret)
  PROVE  TypeInv'
<1> USE DEF TypeInv
<1>1. /\ popped' \subseteq Chunks \X OutputSet
      /\ ch_del_ref' \in [Workers -> Seq(Chunks \X OutputSet)]
      /\ \A w \in Workers : ch_del_ref[w] # <<>> => ch_del_ref'[w] # <<>>
  <2>1. CASE flb_buffer_chunk_pop(c, o)
    <3>1. worker_id[c] \in Workers
      BY DEF TypeOK
    <3> DEFINE R == Chunks \X OutputSet
    <3>2. <<c, o>> \in R /\ ch_del_ref[worker_id[c]] \in Seq(R)
      BY <3>1 DEF TypeOK
    <3>3. ch_del_ref \in [Workers -> Seq(R)] /\ popped \subseteq R
      BY DEF TypeOK
    <3> HIDE DEF R
    <3>4. /\ Append(ch_del_ref[worker_id[c]], <<c, o>>) \in Seq(R)
          /\ Append(ch_del_ref[worker_id[c]], <<c, o>>) # <<>>
      BY <3>2, AppendRange
    <3>5. /\ popped' \subseteq R /\ ch_del_ref' \in [Workers -> Seq(R)]
          /\ \A w \in Workers : ch_del_ref[w] # <<>> => ch_del_ref'[w] # <<>>
      BY <2>1, <3>1, <3>2, <3>3, <3>4 DEF flb_buffer_chunk_pop
    <3> QED BY <3>5 DEF R
  <2>2. CASE UNCHANGED <<popped, ch_del_ref>>
    BY <2>2 DEF TypeOK
  <2> QED BY <2>1, <2>2 DEF Result
<1>2. /\ task' \in [Chunks -> {"none", "live", "gone"}]
      /\ pend' \in [Chunks -> SUBSET OutputSet]
      /\ ref_id' \in [Chunks -> Nat]
      /\ qch' \in Seq({"STOP", "PUSH", "POP"} \X Nat)
      /\ \A d \in Chunks : task'[d] = "live" => task[d] = "live"
  <2>1. CASE flb_task_destroy(c)
    <3>1. Append(qch, <<"POP", ref_id[c]>>) \in Seq({"STOP", "PUSH", "POP"} \X Nat)
      BY AppendRange DEF TypeOK
    <3> QED BY <2>1, <3>1 DEF flb_task_destroy, TypeOK
  <2>2. CASE /\ pend' = [pend EXCEPT ![c] = @ \ {o}]
             /\ UNCHANGED <<task, ref_id, qch>>
    BY <2>2 DEF TypeOK
  <2> QED BY <2>1, <2>2 DEF Result
<1>3. TypeOK'
  BY <1>1, <1>2 DEF TypeOK, Result, files, process
<1>4. IsFiniteSet({d \in Chunks : task'[d] = "live"})
  BY <1>2, LiveFinite
<1>5. ReadyInv'
  BY <1>1, <1>4 DEF ReadyInv, Result, files, TypeOK
<1> QED BY <1>3, <1>5

\* The requests of the qchunk worker.
Requests == {"STOP", "PUSH", "POP"} \X Nat

\* An entry of the queue.
LEMMA EntryType ==
  ASSUME TypeOK
  PROVE  /\ DOMAIN queue = 1..Len(queue) /\ Len(queue) \in Nat
         /\ \A i \in 1..Len(queue) : queue[i] \in Entries /\ queue[i] \in Range(queue)
         /\ \A e \in Range(queue) : e \in Entries /\ \E i \in 1..Len(queue) : queue[i] = e
         /\ \A e \in Entries :
              /\ e.name \in Names /\ e.name.chunk \in Chunks /\ e.id \in Nat
              /\ e.routes \in SUBSET OutputSet
<1>1. queue \in Seq(Entries)
  BY DEF TypeOK
<1>2. \A e \in Entries :
              /\ e.name \in Names /\ e.name.chunk \in Chunks /\ e.id \in Nat
              /\ e.routes \in SUBSET OutputSet
  BY DEF Entries, Names
<1> QED BY <1>1, <1>2, SeqElem

LEMMA FlushType == ASSUME TypeInv, Flush PROVE TypeInv'
<1> USE DEF TypeInv
<1>1. <<"PUSH", 0>> \in Requests /\ qch \in Seq(Requests)
  BY DEF Requests, TypeOK
<1>2. qch' \in Seq(Requests)
  BY <1>1, AppendRange DEF Flush
<1>3. TypeOK'
  BY <1>2 DEF TypeOK, Flush, Requests, files, process, engine, taskVars, workers,
              channels, history
<1>4. ReadyInv'
  BY DEF ReadyInv, Flush, files, engine, taskVars, workers, channels
<1> QED BY <1>3, <1>4

LEMMA EventType == ASSUME TypeInv, flb_buffer_engine_event PROVE TypeInv'
<1> USE DEF TypeInv
<1>1. /\ Head(ch_manager) \in Nat /\ Tail(ch_manager) \in Seq(Nat)
      /\ ch_manager' = Tail(ch_manager)
  BY TailRange DEF TypeOK, flb_buffer_engine_event
<1>2. queue # <<>> => queue[1].name \in Names
  BY EntryType
<1>3. walk' \in [key : Nat, at : SUBSET Names]
  BY <1>1, <1>2, KeyOfId DEF flb_buffer_engine_event, NoWalk
<1>4. TypeOK'
  BY <1>1, <1>3 DEF TypeOK, flb_buffer_engine_event, files, process, taskVars,
                    workers, channels, qworker, history
<1>5. ReadyInv'
  BY DEF ReadyInv, flb_buffer_engine_event, files, taskVars, workers, channels
<1> QED BY <1>4, <1>5

\* One node of the walk: it is not the entry, or it is.
LEMMA PushStep ==
  ASSUME TypeInv, flb_buffer_qchunk_push
  PROVE  /\ life = "up" /\ walk.at # {}
         /\ \/ /\ UNCHANGED <<taskVars, refused>>
               /\ \/ walk' = NoWalk
                  \/ \E j \in 1..Len(queue) :
                       walk' = [walk EXCEPT !.at = {queue[j].name}]
            \/ /\ walk' = NoWalk
               /\ \E i \in 1..Len(queue) :
                    /\ queue[i].id = walk.key
                    /\ \/ flb_task_create_direct(queue[i]) /\ UNCHANGED refused
                       \/ /\ refused' = refused \union {queue[i].name.chunk}
                          /\ UNCHANGED taskVars
<1>1. DOMAIN queue = 1..Len(queue) /\ Len(queue) \in Nat
  BY EntryType DEF TypeInv
<1>2. PICK i \in AtEntry :
        \/ /\ queue[i].id # walk.key
           /\ walk' = IF i = Len(queue) THEN NoWalk
                      ELSE [walk EXCEPT !.at = {queue[i + 1].name}]
           /\ UNCHANGED <<taskVars, refused>>
        \/ /\ queue[i].id = walk.key /\ walk' = NoWalk
           /\ \/ flb_task_create_direct(queue[i]) /\ UNCHANGED refused
              \/ /\ refused' = refused \union {queue[i].name.chunk}
                 /\ UNCHANGED taskVars
  BY DEF flb_buffer_qchunk_push
<1>3. i \in 1..Len(queue) /\ walk.at # {} /\ life = "up"
  BY <1>1 DEF AtEntry, flb_buffer_qchunk_push
<1>4. i # Len(queue) => i + 1 \in 1..Len(queue)
  <2>1. i \in Nat /\ i >= 1 /\ i <= Len(queue) /\ Len(queue) \in Nat
    BY <1>1, <1>3
  <2> QED BY <2>1
<1> QED BY <1>2, <1>3, <1>4

LEMMA PushType == ASSUME TypeInv, flb_buffer_qchunk_push PROVE TypeInv'
<1> USE DEF TypeInv
<1>0. walk' \in [key : Nat, at : SUBSET Names]
  <2>1. \A j \in 1..Len(queue) : queue[j].name \in Names
    BY EntryType
  <2>2. walk' = NoWalk \/ \E j \in 1..Len(queue) : walk' = [walk EXCEPT !.at = {queue[j].name}]
    BY PushStep
  <2>3. NoWalk \in [key : Nat, at : SUBSET Names]
    BY DEF NoWalk
  <2>4. walk \in [key : Nat, at : SUBSET Names]
    BY DEF TypeOK
  <2>5. ASSUME NEW j \in 1..Len(queue), walk' = [walk EXCEPT !.at = {queue[j].name}]
        PROVE  walk' \in [key : Nat, at : SUBSET Names]
    BY <2>1, <2>4, <2>5
  <2> QED BY <2>2, <2>3, <2>5
<1>1. CASE \E i \in 1..Len(queue) : flb_task_create_direct(queue[i]) /\ UNCHANGED refused
  <2>1. PICK i \in 1..Len(queue) : flb_task_create_direct(queue[i]) /\ UNCHANGED refused
    BY <1>1
  <2> DEFINE c == queue[i].name.chunk
  <2>3. /\ c \in Chunks /\ queue[i].id \in Nat /\ queue[i].routes \in SUBSET OutputSet
    BY EntryType
  <2>4. TypeOK'
    BY <1>0, <2>1, <2>3, Basics
       DEF TypeOK, flb_task_create_direct, flb_buffer_qchunk_push, files,
           process, workers, channels, qworker
  <2>5. IsFiniteSet({d \in Chunks : task'[d] = "live"})
    BY <2>1, <2>3, LiveFinite DEF flb_task_create_direct, TypeOK
  <2>6. ReadyInv'
    BY <2>5 DEF ReadyInv, flb_buffer_qchunk_push, files, workers, channels
  <2> QED BY <2>4, <2>6
<1>2. CASE UNCHANGED taskVars
  <2>1. refused' \subseteq Chunks
    <3>1. \A i \in 1..Len(queue) : queue[i].name.chunk \in Chunks
      BY EntryType
    <3>2. \/ refused' = refused
          \/ \E i \in 1..Len(queue) : refused' = refused \union {queue[i].name.chunk}
      BY PushStep
    <3>3. refused \subseteq Chunks
      BY DEF TypeOK
    <3> QED BY <3>1, <3>2, <3>3
  <2>2. TypeOK'
    BY <1>0, <1>2, <2>1
       DEF TypeOK, flb_buffer_qchunk_push, files, process, taskVars, workers,
           channels, qworker
  <2>3. ReadyInv'
    BY <1>2 DEF ReadyInv, flb_buffer_qchunk_push, files, taskVars, workers, channels
  <2> QED BY <2>2, <2>3
<1> QED BY <1>1, <1>2, PushStep

\* The tasks flb_buffer_stop() destroys.
Mapped == {c \in Chunks : task[c] = "live" /\ ref_id[c] > 0}

LEMMA StopSeq ==
  ASSUME TypeInv, flb_buffer_stop
  PROVE  \E s \in Seq(Mapped) :
           /\ IsInjective(s)
           /\ qch' \in Seq(Requests) /\ DOMAIN qch' = 1..(Len(qch) + Len(s) + 1)
           /\ \A i \in 1..(Len(qch) + Len(s) + 1) :
                qch'[i] = IF i <= Len(qch) THEN qch[i]
                          ELSE IF i <= Len(qch) + Len(s)
                          THEN <<"POP", ref_id[s[i - Len(qch)]]>>
                          ELSE <<"STOP", 0>>
<1>1. IsFiniteSet(Mapped)
  BY FS_Subset DEF TypeInv, ReadyInv, Mapped
<1>2. PICK s \in SetToSeqs(Mapped) :
        qch' = qch \o [i \in 1..Len(s) |-> <<"POP", ref_id[s[i]]>>]
                   \o << <<"STOP", 0>> >>
  BY DEF flb_buffer_stop, Mapped
<1>3. s \in Seq(Mapped) /\ IsInjective(s)
  BY <1>1, EnumSeq
<1> DEFINE t == [i \in 1..Len(s) |-> <<"POP", ref_id[s[i]]>>]
           u == << <<"STOP", 0>> >>
<1>4. qch \in Seq(Requests) /\ Len(qch) \in Nat /\ Len(s) \in Nat
  BY <1>3 DEF TypeInv, TypeOK, Requests
<1>5. t \in Seq(Requests) /\ Len(t) = Len(s) /\ \A i \in 1..Len(s) : t[i] = <<"POP", ref_id[s[i]]>>
  <2>1. \A i \in 1..Len(s) : ref_id[s[i]] \in Nat
    <3>1. \A i \in 1..Len(s) : s[i] \in Chunks
      BY <1>3, SeqElem DEF Mapped
    <3> QED BY <3>1 DEF TypeInv, TypeOK
  <2>2. \A i \in 1..Len(s) : <<"POP", ref_id[s[i]]>> \in Requests
    BY <2>1 DEF Requests
  <2> QED BY <1>4, <2>2
<1>6. u \in Seq(Requests) /\ Len(u) = 1 /\ u[1] = <<"STOP", 0>>
  <2>1. <<"STOP", 0>> \in Requests
    BY DEF Requests
  <2> QED BY <2>1
<1>7. qch' = (qch \o t) \o u
  BY <1>2
<1> HIDE DEF t, u
<1>8. /\ qch \o t \in Seq(Requests) /\ Len(qch \o t) = Len(qch) + Len(s)
      /\ \A i \in 1..(Len(qch) + Len(s)) :
           (qch \o t)[i] = IF i <= Len(qch) THEN qch[i] ELSE t[i - Len(qch)]
  <2>1. Len(t) = Len(s) /\ t \in Seq(Requests)
    BY <1>5
  <2>2. /\ qch \o t \in Seq(Requests) /\ Len(qch \o t) = Len(qch) + Len(t)
        /\ \A i \in 1..(Len(qch) + Len(t)) :
             (qch \o t)[i] = IF i <= Len(qch) THEN qch[i] ELSE t[i - Len(qch)]
    BY <1>4, <2>1, ConcatSeq
  <2> QED BY <2>1, <2>2
<1>9. /\ qch' \in Seq(Requests) /\ Len(qch') = Len(qch) + Len(s) + 1
      /\ \A i \in 1..(Len(qch) + Len(s) + 1) :
           qch'[i] = IF i <= Len(qch) + Len(s) THEN (qch \o t)[i] ELSE u[1]
  <2> DEFINE v == qch \o t
  <2>1. v \in Seq(Requests) /\ Len(v) = Len(qch) + Len(s) /\ qch' = v \o u
    BY <1>7, <1>8
  <2> HIDE DEF v
  <2>2. /\ v \o u \in Seq(Requests) /\ Len(v \o u) = Len(v) + 1
        /\ \A i \in 1..(Len(v) + 1) :
             (v \o u)[i] = IF i <= Len(v) THEN v[i] ELSE u[i - Len(v)]
    BY <1>6, <2>1, ConcatSeq
  <2>3. \A i \in 1..(Len(v) + 1) : i > Len(v) => i - Len(v) = 1
    BY <1>4, <2>1
  <2>4. \A i \in 1..(Len(v) + 1) :
             (v \o u)[i] = IF i <= Len(v) THEN v[i] ELSE u[1]
    BY <1>4, <2>1, <2>2, <2>3
  <2> QED BY <2>1, <2>2, <2>4 DEF v
<1>10. \A i \in 1..(Len(qch) + Len(s) + 1) :
                qch'[i] = IF i <= Len(qch) THEN qch[i]
                          ELSE IF i <= Len(qch) + Len(s)
                          THEN <<"POP", ref_id[s[i - Len(qch)]]>>
                          ELSE <<"STOP", 0>>
  <2> TAKE i \in 1..(Len(qch) + Len(s) + 1)
  <2>1. CASE i <= Len(qch)
    BY <1>4, <1>8, <1>9, <2>1
  <2>2. CASE i > Len(qch) /\ i <= Len(qch) + Len(s)
    <3>1. i - Len(qch) \in 1..Len(s)
      BY <1>4, <2>2
    <3>2. qch'[i] = (qch \o t)[i]
      BY <1>4, <1>9, <2>2
    <3>3. (qch \o t)[i] = t[i - Len(qch)]
      BY <1>4, <1>8, <2>2
    <3>4. t[i - Len(qch)] = <<"POP", ref_id[s[i - Len(qch)]]>>
      BY <1>5, <3>1
    <3>5. ~(i <= Len(qch)) /\ i <= Len(qch) + Len(s)
      BY <1>4, <2>2
    <3> QED BY <3>2, <3>3, <3>4, <3>5
  <2>3. CASE i > Len(qch) + Len(s)
    BY <1>4, <1>6, <1>9, <2>3
  <2> QED BY <1>4, <2>1, <2>2, <2>3
<1>11. DOMAIN qch' = 1..(Len(qch) + Len(s) + 1)
  BY <1>9
<1> QED BY <1>3, <1>9, <1>10, <1>11

LEMMA StopType == ASSUME TypeInv, flb_buffer_stop PROVE TypeInv'
<1> USE DEF TypeInv
<1>1. qch' \in Seq(Requests)
  BY StopSeq
<1>2. TypeOK'
  BY <1>1 DEF TypeOK, Requests, flb_buffer_stop, files, history
<1>3. \A c \in Chunks : task'[c] = "live" => task[c] = "live"
  BY DEF flb_buffer_stop
<1>4. IsFiniteSet({c \in Chunks : task'[c] = "live"})
  <2>1. {c \in Chunks : task'[c] = "live"} \subseteq {c \in Chunks : task[c] = "live"}
    BY <1>3
  <2> QED BY <2>1, FS_Subset DEF ReadyInv
<1>5. ReadyInv'
  BY <1>4 DEF ReadyInv, flb_buffer_stop, files
<1> QED BY <1>2, <1>5

LEMMA DestroyType == ASSUME TypeInv, flb_buffer_destroy PROVE TypeInv'
<1> USE DEF TypeInv
<1>1. /\ ch_del_ref' \in [Workers -> Seq(Chunks \X OutputSet)]
      /\ qch' \in Seq({"STOP", "PUSH", "POP"} \X Nat)
      /\ queue' \in Seq(Entries)
      /\ ch_add' \in [Workers -> Seq(Chunks)] /\ ch_del' \in [Workers -> Seq(Chunks)]
      /\ ch_mov' \in [Workers -> Seq(Names)]
  BY EmptySeqType DEF flb_buffer_destroy
<1>2. TypeOK'
  BY <1>1 DEF TypeOK, flb_buffer_destroy, files, engine, taskVars, history
<1>3. ReadyInv'
  BY DEF ReadyInv, flb_buffer_destroy, Ended, files, engine, taskVars
<1> QED BY <1>2, <1>3

LEMMA WaitType ==
  ASSUME TypeInv, NEW w \in Workers, Wait(w) PROVE TypeInv'
<1> USE DEF TypeInv
<1>1. batch' \in [Workers -> SUBSET Channels]
  BY DEF TypeOK, Wait, Ready
<1>2. TypeOK'
  BY <1>1 DEF TypeOK, Wait, files, process, engine, taskVars, channels, qworker,
              history
<1>3. ReadyInv'
  BY DEF ReadyInv, TypeOK, Wait, Ready, files, engine, taskVars, channels
<1> QED BY <1>2, <1>3

LEMMA ManageType ==
  ASSUME TypeInv, NEW w \in Workers, Manage(w) PROVE TypeInv'
<1> USE DEF TypeInv
<1>1. /\ batch' = [batch EXCEPT ![w] = @ \ {"mng"}]
      /\ batch' \in [Workers -> SUBSET Channels]
  BY HeadType DEF Manage
<1>2. TypeOK'
  BY <1>1 DEF TypeOK, Manage, files, process, engine, taskVars, qworker, history
<1>3. ReadyInv'
  BY <1>1 DEF ReadyInv, TypeOK, Manage, files, engine, taskVars
<1> QED BY <1>2, <1>3

LEMMA AddType ==
  ASSUME TypeInv, NEW w \in Workers, flb_buffer_chunk_add(w) PROVE TypeInv'
<1> USE DEF TypeInv
<1> DEFINE c == Head(ch_add[w])
           n == [chunk |-> c, routes |-> Routes[c], w |-> w]
<1>1. /\ batch' = [batch EXCEPT ![w] = @ \ {"add"}]
      /\ batch' \in [Workers -> SUBSET Channels]
      /\ c \in Chunks /\ Tail(ch_add[w]) \in Seq(Chunks)
  BY HeadType DEF flb_buffer_chunk_add
<1>2. n \in Names
  BY <1>1, Basics DEF Names
<1>3. Append(ch_mov[w], n) \in Seq(Names) /\ Append(ch_mov[w], n) # <<>>
  BY <1>2, AppendRange DEF TypeOK
<1>4. PICK stored \in {"nothing", "part", "all"} :
        /\ incoming' = IF stored = "nothing" THEN incoming ELSE incoming \union {n}
        /\ ch_mov' = IF stored = "all" THEN [ch_mov EXCEPT ![w] = Append(@, n)]
                     ELSE ch_mov
  BY DEF flb_buffer_chunk_add
<1> HIDE DEF n
<1>5. incoming' \subseteq Names /\ ch_mov' \in [Workers -> Seq(Names)]
  BY <1>2, <1>3, <1>4 DEF TypeOK
<1>6. TypeOK'
  BY <1>1, <1>5 DEF TypeOK, flb_buffer_chunk_add, process, engine, taskVars,
                    qworker, history
<1>7. \A v \in Workers : ch_mov[v] # <<>> => ch_mov'[v] # <<>>
  BY <1>3, <1>4 DEF TypeOK
<1>8. ReadyInv'
  BY <1>1, <1>7 DEF ReadyInv, TypeOK, flb_buffer_chunk_add, engine, taskVars
<1> QED BY <1>6, <1>8

LEMMA RefsType ==
  ASSUME NEW n \in Names PROVE RefsOf(n) \in SUBSET (Names \X OutputSet)
BY DEF RefsOf, Names

LEMMA MoveType ==
  ASSUME TypeInv, NEW w \in Workers, flb_buffer_chunk_real_move(w) PROVE TypeInv'
<1> USE DEF TypeInv
<1> DEFINE n == Head(ch_mov[w])
<1>1. /\ batch' = [batch EXCEPT ![w] = @ \ {"mov"}]
      /\ batch' \in [Workers -> SUBSET Channels]
      /\ n \in Names /\ Tail(ch_mov[w]) \in Seq(Names)
  BY HeadType DEF flb_buffer_chunk_real_move
<1>2. /\ incoming' \subseteq Names /\ outgoing' \subseteq Names
      /\ moving' \in [Workers -> SUBSET (Names \X OutputSet)]
      /\ IsFiniteSet(outgoing')
  <2>1. CASE n \in incoming
    <3>1. IsFiniteSet(outgoing \union {n})
      BY FS_AddElement DEF ReadyInv
    <3>2. RefsOf(n) \in SUBSET (Names \X OutputSet)
      BY <1>1, RefsType
    <3> HIDE DEF n
    <3>3. /\ incoming' = incoming \ {n} /\ outgoing' = outgoing \union {n}
          /\ moving' = [moving EXCEPT ![w] = RefsOf(n)]
      BY <2>1 DEF flb_buffer_chunk_real_move, Rename, n
    <3> QED BY <1>1, <3>1, <3>2, <3>3 DEF TypeOK
  <2>2. CASE n \notin incoming
    BY <2>2 DEF flb_buffer_chunk_real_move, Rename, TypeOK, ReadyInv
  <2> QED BY <2>1, <2>2
<1>3. TypeOK'
  BY <1>1, <1>2 DEF TypeOK, flb_buffer_chunk_real_move, process, engine, taskVars,
                    qworker, history
<1>4. ReadyInv'
  BY <1>1, <1>2 DEF ReadyInv, TypeOK, flb_buffer_chunk_real_move, engine, taskVars
<1> QED BY <1>3, <1>4

\* One reference is created.
LEMMA ReferenceStep ==
  ASSUME TypeInv, NEW w \in Workers, Reference(w)
  PROVE  \E n \in Names, o \in OutputSet :
           /\ n.chunk \in Chunks /\ <<n, o>> \in moving[w]
           /\ \/ tasks' = [tasks EXCEPT ![o] = @ \union {n}]
              \/ RefMayFail /\ tasks' = tasks
           /\ promoted' = IF moving[w] = {<<n, o>>} THEN promoted \union {n.chunk}
                                                    ELSE promoted
           /\ moving' = [moving EXCEPT ![w] = @ \ {<<n, o>>}]
<1>1. PICK r \in moving[w] :
        /\ \E made \in IF RefMayFail THEN BOOLEAN ELSE {TRUE} :
             tasks' = IF made THEN [tasks EXCEPT ![r[2]] = @ \union {r[1]}]
                              ELSE tasks
        /\ promoted' = IF moving[w] = {r} THEN promoted \union {r[1].chunk}
                                          ELSE promoted
        /\ moving' = [moving EXCEPT ![w] = @ \ {r}]
  BY DEF Reference
<1>2. PICK n \in Names, o \in OutputSet : r = <<n, o>>
  BY DEF TypeInv, TypeOK
<1>3. n.chunk \in Chunks /\ r[1] = n /\ r[2] = o
  BY <1>2 DEF Names
<1>4. \/ tasks' = [tasks EXCEPT ![o] = @ \union {n}]
      \/ RefMayFail /\ tasks' = tasks
  BY <1>1, <1>3, BufferAssumption DEF BufferAssumption
<1> QED BY <1>1, <1>2, <1>3, <1>4

LEMMA ReferenceType ==
  ASSUME TypeInv, NEW w \in Workers, Reference(w) PROVE TypeInv'
<1> USE DEF TypeInv
<1>1. PICK n \in Names, o \in OutputSet :
           /\ n.chunk \in Chunks /\ <<n, o>> \in moving[w]
           /\ \/ tasks' = [tasks EXCEPT ![o] = @ \union {n}]
              \/ RefMayFail /\ tasks' = tasks
           /\ promoted' = IF moving[w] = {<<n, o>>} THEN promoted \union {n.chunk}
                                                    ELSE promoted
           /\ moving' = [moving EXCEPT ![w] = @ \ {<<n, o>>}]
  BY ReferenceStep
<1>2. promoted' \subseteq Chunks
  BY <1>1 DEF TypeOK
<1>4. tasks' \in [OutputSet -> SUBSET Names]
  <2>1. tasks \in [OutputSet -> SUBSET Names]
    BY DEF TypeOK
  <2>2. CASE tasks' = tasks
    BY <2>1, <2>2
  <2>3. CASE tasks' = [tasks EXCEPT ![o] = @ \union {n}]
    BY <2>1, <2>3
  <2> QED BY <1>1, <2>2, <2>3
<1>3. moving' \in [Workers -> SUBSET (Names \X OutputSet)]
  BY <1>1 DEF TypeOK
<1>5. TypeOK'
  BY <1>2, <1>3, <1>4 DEF TypeOK, Reference, process, engine, taskVars, channels, qworker
<1>6. ReadyInv'
  BY DEF ReadyInv, Reference, engine, taskVars, channels
<1> QED BY <1>5, <1>6

\* chunk_miss() rewrites at most one file.
LEMMA MissStep ==
  ASSUME NEW c, NEW o, chunk_miss(c, o)
  PROVE  \/ incoming' = incoming /\ outgoing' = outgoing
         \/ \E n \in outgoing :
              /\ n.chunk = c /\ outgoing' = RemoveRoute(outgoing, n, o)
              /\ incoming' = incoming
         \/ \E n \in incoming :
              /\ n.chunk = c /\ incoming' = RemoveRoute(incoming, n, o)
              /\ outgoing' = outgoing
BY DEF chunk_miss, Find

\* One request to remove a reference: it is there, or chunk_miss() is called.
LEMMA DeleteRefStep ==
  ASSUME TypeInv, NEW w \in Workers, flb_buffer_chunk_delete_ref(w)
  PROVE  \E c \in Chunks, o \in OutputSet :
           /\ Head(ch_del_ref[w]) = <<c, o>> /\ <<c, o>> \in Range(ch_del_ref[w])
           /\ ch_del_ref' = [ch_del_ref EXCEPT ![w] = Tail(@)]
           /\ \/ /\ \A n \in tasks[o] : n.chunk # c
                 /\ chunk_miss(c, o) /\ UNCHANGED <<tasks, ch_del>>
              \/ /\ \E n \in tasks[o] :
                      n.chunk = c /\ tasks' = [tasks EXCEPT ![o] = @ \ {n}]
                 /\ ch_del' = [ch_del EXCEPT ![w] = Append(@, c)]
                 /\ UNCHANGED <<incoming, outgoing>>
<1>1. Head(ch_del_ref[w]) \in Chunks \X OutputSet
  BY HeadType DEF flb_buffer_chunk_delete_ref
<1>2. PICK c \in Chunks, o \in OutputSet : Head(ch_del_ref[w]) = <<c, o>>
  BY <1>1
<1>3. ch_del_ref[w] # <<>>
  BY DEF flb_buffer_chunk_delete_ref, Takes, TypeInv, ReadyInv
<1>4. <<c, o>> \in Range(ch_del_ref[w])
  <2> DEFINE R == Chunks \X OutputSet
  <2>1. ch_del_ref[w] \in Seq(R)
    BY DEF TypeInv, TypeOK
  <2> HIDE DEF R
  <2>2. Head(ch_del_ref[w]) \in Range(ch_del_ref[w])
    BY <1>3, <2>1, TailRange
  <2> QED BY <1>2, <2>2
<1>5. Head(ch_del_ref[w])[1] = c /\ Head(ch_del_ref[w])[2] = o
  BY <1>2
<1>6. IF Find(tasks[o], c) = {}
      THEN chunk_miss(c, o) /\ UNCHANGED <<tasks, ch_del>>
      ELSE /\ \E n \in Find(tasks[o], c) : tasks' = [tasks EXCEPT ![o] = @ \ {n}]
           /\ ch_del' = [ch_del EXCEPT ![w] = Append(@, c)]
           /\ UNCHANGED <<incoming, outgoing>>
  BY <1>5 DEF flb_buffer_chunk_delete_ref
<1>7. ch_del_ref' = [ch_del_ref EXCEPT ![w] = Tail(@)]
  BY DEF flb_buffer_chunk_delete_ref
<1>8. \/ /\ \A n \in tasks[o] : n.chunk # c
         /\ chunk_miss(c, o) /\ UNCHANGED <<tasks, ch_del>>
      \/ /\ \E n \in tasks[o] :
              n.chunk = c /\ tasks' = [tasks EXCEPT ![o] = @ \ {n}]
         /\ ch_del' = [ch_del EXCEPT ![w] = Append(@, c)]
         /\ UNCHANGED <<incoming, outgoing>>
  <2>1. CASE Find(tasks[o], c) = {}
    BY <1>6, <2>1 DEF Find
  <2>2. CASE Find(tasks[o], c) # {}
    BY <1>6, <2>2 DEF Find
  <2> QED BY <2>1, <2>2
<1> QED BY <1>2, <1>4, <1>7, <1>8

LEMMA DeleteRefType ==
  ASSUME TypeInv, NEW w \in Workers, flb_buffer_chunk_delete_ref(w) PROVE TypeInv'
<1> USE DEF TypeInv
<1> DEFINE R == Chunks \X OutputSet
<1>1. /\ batch' = [batch EXCEPT ![w] = @ \ {"del_ref"}]
      /\ batch' \in [Workers -> SUBSET Channels]
      /\ Tail(ch_del_ref[w]) \in Seq(R)
  BY HeadType DEF flb_buffer_chunk_delete_ref
<1>a. PICK c \in Chunks, o \in OutputSet :
           /\ Head(ch_del_ref[w]) = <<c, o>> /\ <<c, o>> \in Range(ch_del_ref[w])
           /\ ch_del_ref' = [ch_del_ref EXCEPT ![w] = Tail(@)]
           /\ \/ /\ \A n \in tasks[o] : n.chunk # c
                 /\ chunk_miss(c, o) /\ UNCHANGED <<tasks, ch_del>>
              \/ /\ \E n \in tasks[o] :
                      n.chunk = c /\ tasks' = [tasks EXCEPT ![o] = @ \ {n}]
                 /\ ch_del' = [ch_del EXCEPT ![w] = Append(@, c)]
                 /\ UNCHANGED <<incoming, outgoing>>
  BY DeleteRefStep
<1>2. \/ /\ chunk_miss(c, o) /\ UNCHANGED <<tasks, ch_del>>
      \/ /\ \E n \in tasks[o] : tasks' = [tasks EXCEPT ![o] = @ \ {n}]
         /\ ch_del' = [ch_del EXCEPT ![w] = Append(@, c)]
         /\ UNCHANGED <<incoming, outgoing>>
  BY <1>a
<1>3. /\ incoming' \subseteq Names /\ outgoing' \subseteq Names
      /\ IsFiniteSet(outgoing')
      /\ tasks' \in [OutputSet -> SUBSET Names]
      /\ ch_del' \in [Workers -> Seq(Chunks)]
      /\ \A v \in Workers : ch_del[v] # <<>> => ch_del'[v] # <<>>
  <2>1. CASE chunk_miss(c, o) /\ UNCHANGED <<tasks, ch_del>>
    <3>1. incoming \in SUBSET Names /\ outgoing \in SUBSET Names /\ IsFiniteSet(outgoing)
      BY DEF TypeOK, ReadyInv
    <3>2. CASE incoming' = incoming /\ outgoing' = outgoing
      BY <2>1, <3>1, <3>2 DEF TypeOK
    <3>3. CASE \E n \in outgoing :
                 outgoing' = RemoveRoute(outgoing, n, o) /\ incoming' = incoming
      <4>1. outgoing' \in SUBSET Names /\ IsFiniteSet(outgoing') /\ incoming' = incoming
        BY <3>1, <3>3, RemoveRouteType
      <4> QED BY <2>1, <3>1, <4>1 DEF TypeOK
    <3>4. CASE \E n \in incoming :
                 incoming' = RemoveRoute(incoming, n, o) /\ outgoing' = outgoing
      <4>1. incoming' \in SUBSET Names /\ outgoing' = outgoing
        BY <3>1, <3>4, RemoveRouteType
      <4> QED BY <2>1, <3>1, <4>1 DEF TypeOK
    <3> QED BY <2>1, <3>2, <3>3, <3>4, MissStep
  <2>2. CASE /\ \E n \in tasks[o] : tasks' = [tasks EXCEPT ![o] = @ \ {n}]
             /\ ch_del' = [ch_del EXCEPT ![w] = Append(@, c)]
             /\ UNCHANGED <<incoming, outgoing>>
    <3>1. ch_del[w] \in Seq(Chunks)
      BY DEF TypeOK
    <3>2. Append(ch_del[w], c) \in Seq(Chunks) /\ Append(ch_del[w], c) # <<>>
      BY <3>1, AppendRange
    <3>3. tasks' \in [OutputSet -> SUBSET Names]
      BY <2>2, SMTT(30) DEF TypeOK
    <3>4. /\ ch_del' \in [Workers -> Seq(Chunks)]
          /\ \A v \in Workers : ch_del[v] # <<>> => ch_del'[v] # <<>>
      BY <2>2, <3>2 DEF TypeOK
    <3>5. incoming' \subseteq Names /\ outgoing' \subseteq Names /\ IsFiniteSet(outgoing')
      BY <2>2 DEF TypeOK, ReadyInv
    <3> QED BY <3>3, <3>4, <3>5
  <2> QED BY <1>2, <2>1, <2>2
<1>4. ch_del_ref' \in [Workers -> Seq(R)]
  <2>1. ch_del_ref \in [Workers -> Seq(R)]
    BY DEF TypeOK
  <2> HIDE DEF R
  <2> QED BY <1>1, <2>1 DEF flb_buffer_chunk_delete_ref
<1>5. TypeOK'
  BY <1>1, <1>3, <1>4 DEF TypeOK, flb_buffer_chunk_delete_ref, process, engine,
                          taskVars, qworker, history
<1>6. ReadyInv'
  BY <1>1, <1>3 DEF ReadyInv, TypeOK, flb_buffer_chunk_delete_ref, engine, taskVars
<1> QED BY <1>5, <1>6

LEMMA DeleteType ==
  ASSUME TypeInv, NEW w \in Workers, flb_buffer_chunk_delete(w) PROVE TypeInv'
<1> USE DEF TypeInv
<1>1. /\ batch' = [batch EXCEPT ![w] = @ \ {"del"}]
      /\ batch' \in [Workers -> SUBSET Channels]
      /\ Tail(ch_del[w]) \in Seq(Chunks)
  BY HeadType DEF flb_buffer_chunk_delete
<1>2. outgoing' \subseteq outgoing
  BY DEF flb_buffer_chunk_delete, UnlinkUnreferenced
<1>3. IsFiniteSet(outgoing')
  BY <1>2, FS_Subset DEF ReadyInv
<1>4. TypeOK'
  BY <1>1, <1>2 DEF TypeOK, flb_buffer_chunk_delete, process, engine, taskVars,
                    qworker, history
<1>5. ReadyInv'
  BY <1>1, <1>3 DEF ReadyInv, TypeOK, flb_buffer_chunk_delete, engine, taskVars
<1> QED BY <1>4, <1>5

\* What the qchunk worker takes from its channel.
LEMMA RequestType ==
  ASSUME TypeInv, qch # <<>>
  PROVE  /\ qch \in Seq(Requests) /\ Head(qch) \in Requests /\ Tail(qch) \in Seq(Requests)
         /\ Head(qch)[2] \in Nat
         /\ Head(qch)[1] = "POP" => Head(qch) = <<"POP", Head(qch)[2]>>
<1>1. qch \in Seq(Requests)
  BY DEF TypeInv, TypeOK, Requests
<1>2. Head(qch) \in Requests /\ Tail(qch) \in Seq(Requests)
  BY <1>1, TailRange
<1> QED BY <1>1, <1>2 DEF Requests

LEMMA PushRequestType == ASSUME TypeInv, PushRequest PROVE TypeInv'
<1> USE DEF TypeInv
<1>1. qch' \in Seq(Requests)
  BY RequestType DEF PushRequest
<1>2. queue' \in Seq(Entries) /\ ch_manager' \in Seq(Nat)
  <2>1. CASE Loadable = {}
    BY <2>1 DEF PushRequest, TypeOK
  <2>2. CASE Loadable # {}
    <3>1. PICK i \in Loadable, id \in 1..Len(queue), d \in {"mapped", "NULL"} :
            /\ queue' = [queue EXCEPT ![i].id = id, ![i].data = d]
            /\ ch_manager' = Append(ch_manager, id)
      BY <2>2 DEF PushRequest
    <3> DEFINE e == [queue[i] EXCEPT !.id = id, !.data = d]
    <3>2. i \in 1..Len(queue) /\ queue[i] \in Entries /\ id \in Nat
      BY EntryType DEF Loadable, FirstWith
    <3>3. e \in Entries
      BY <3>2 DEF Entries
    <3>4. queue' = [queue EXCEPT ![i] = e]
      BY <3>1, <3>2, EntryType
    <3> HIDE DEF e
    <3>5. queue' \in Seq(Entries)
      BY <3>2, <3>3, <3>4 DEF TypeOK
    <3>6. ch_manager' \in Seq(Nat)
      BY <3>1, <3>2, AppendRange DEF TypeOK
    <3> QED BY <3>5, <3>6
  <2> QED BY <2>1, <2>2
<1>3. TypeOK'
  BY <1>1, <1>2 DEF TypeOK, Requests, PushRequest, files, process, taskVars,
                    workers, channels, history
<1>4. ReadyInv'
  BY DEF ReadyInv, PushRequest, files, taskVars, workers, channels
<1> QED BY <1>3, <1>4

LEMMA PopRequestType == ASSUME TypeInv, PopRequest PROVE TypeInv'
<1> USE DEF TypeInv
<1>1. qch' \in Seq(Requests)
  BY RequestType DEF PopRequest
<1>2. queue' \in Seq(Entries)
  <2>1. \A i \in FirstWith(Head(qch)[2]) : i \in 1..Len(queue)
    BY EntryType DEF FirstWith
  <2>2. \A i \in 1..Len(queue) : RemoveAt(queue, i) \in Seq(Entries)
    BY RemoveAtSeq DEF TypeOK
  <2>3. \/ queue' = queue
        \/ \E i \in FirstWith(Head(qch)[2]) : queue' = RemoveAt(queue, i)
    BY DEF PopRequest
  <2> QED BY <2>1, <2>2, <2>3 DEF TypeOK
<1>3. TypeOK'
  BY <1>1, <1>2 DEF TypeOK, Requests, PopRequest, files, process, taskVars,
                    workers, channels, history
<1>4. ReadyInv'
  BY DEF ReadyInv, PopRequest, files, taskVars, workers, channels
<1> QED BY <1>3, <1>4

LEMMA QStopType == ASSUME TypeInv, QStop PROVE TypeInv'
<1> USE DEF TypeInv
<1>1. qch' \in Seq(Requests)
  BY RequestType DEF QStop
<1>2. TypeOK'
  BY <1>1 DEF TypeOK, Requests, QStop, files, process, engine, taskVars, workers,
              channels, history
<1>3. ReadyInv'
  BY DEF ReadyInv, QStop, files, engine, taskVars, workers, channels
<1> QED BY <1>2, <1>3

LEMMA StutterType == ASSUME TypeInv, UNCHANGED vars PROVE TypeInv'
<1>1. TypeOK'
  BY DEF TypeInv, TypeOK, vars, files, process, engine, taskVars, workers, channels,
         qworker, history
<1>2. ReadyInv'
  BY DEF TypeInv, ReadyInv, vars, files, engine, taskVars, workers, channels
<1> QED BY <1>1, <1>2 DEF TypeInv

LEMMA NextType == TypeInv /\ [Next]_vars => TypeInv'
<1> SUFFICES ASSUME TypeInv, [Next]_vars PROVE TypeInv'
  OBVIOUS
<1>1. CASE Start \/ Crash \/ Exit \/ FreedUnderWalk
  BY <1>1, StartType, VanishType DEF Crash, Exit, FreedUnderWalk
<1>2. CASE \E c \in Chunks : Create(c)
  BY <1>2, CreateType
<1>3. CASE \E c \in Chunks, o \in OutputSet, ret \in {"POP", "ERROR"} : Result(c, o, ret)
  BY <1>3, ResultType
<1>4. CASE Flush \/ flb_buffer_engine_event \/ flb_buffer_qchunk_push
  BY <1>4, FlushType, EventType, PushType
<1>5. CASE flb_buffer_stop \/ flb_buffer_destroy
  BY <1>5, StopType, DestroyType
<1>6. CASE \E w \in Workers : Wait(w) \/ Manage(w) \/ flb_buffer_chunk_add(w)
  BY <1>6, WaitType, ManageType, AddType
<1>7. CASE \E w \in Workers : flb_buffer_chunk_real_move(w) \/ Reference(w)
  BY <1>7, MoveType, ReferenceType
<1>8. CASE \E w \in Workers :
             flb_buffer_chunk_delete_ref(w) \/ flb_buffer_chunk_delete(w)
  BY <1>8, DeleteRefType, DeleteType
<1>9. CASE PushRequest \/ PopRequest \/ QStop
  BY <1>9, PushRequestType, PopRequestType, QStopType
<1>10. CASE UNCHANGED vars
  BY <1>10, StutterType
<1> QED
  BY <1>1, <1>2, <1>3, <1>4, <1>5, <1>6, <1>7, <1>8, <1>9, <1>10
     DEF Next, Engine, Qworker, Worker

LEMMA TypeInvariant == Spec => []TypeInv
BY InitType, NextType, PTL DEF Spec

\* Files, channels, lists and maps keep their types whatever the engine, the
\* workers and crashes do: in particular a chunk only ever goes to a worker
\* that exists (get_worker()), and a worker that takes an event of its batch
\* finds a request in the channel.
THEOREM TypeCorrect == Spec => []TypeOK
<1>1. TypeInv => TypeOK
  BY DEF TypeInv
<1> QED BY <1>1, TypeInvariant, PTL

-----------------------------------------------------------------------------
(* The files and the requests of the workers.                              *)

DiskInv == FileInv /\ RequestInv /\ MoveInv /\ RouteInv /\ BackedUp
MemInv == FreshInv /\ EntryInv /\ IdInv
BufInv == TypeInv /\ DiskInv /\ MemInv

diskVars == <<incoming, outgoing, tasks, task, pend, worker_id, ch_add, ch_mov,
              ch_del, ch_del_ref, moving, promoted, popped>>

LEMMA DiskSame == ASSUME DiskInv, UNCHANGED diskVars PROVE DiskInv'
<1> USE DEF diskVars
<1>1. FileInv'
  BY DEF DiskInv, FileInv
<1>2. RequestInv'
  BY DEF DiskInv, RequestInv, AddInv, MovInv, DelInv
<1>3. MoveInv'
  BY DEF DiskInv, MoveInv
<1>4. RouteInv'
  BY DEF DiskInv, RouteInv
<1>5. BackedUp'
  BY DEF DiskInv, BackedUp
<1> QED BY <1>1, <1>2, <1>3, <1>4, <1>5 DEF DiskInv

\* What the channels hold.
LEMMA RangeTypes ==
  ASSUME TypeInv
  PROVE  \A w \in Workers :
        /\ ch_add[w] \in Seq(Chunks) /\ ch_del[w] \in Seq(Chunks)
        /\ ch_mov[w] \in Seq(Names)
        /\ \A n \in Range(ch_mov[w]) : n \in Names /\ n.chunk \in Chunks
        /\ \A d \in Range(ch_add[w]) : d \in Chunks
        /\ \A d \in Range(ch_del[w]) : d \in Chunks
        /\ \A r \in Range(ch_del_ref[w]) :
             r[1] \in Chunks /\ r[2] \in OutputSet /\ r = <<r[1], r[2]>>
        /\ \A r \in moving[w] :
             /\ r[1] \in Names /\ r[1].chunk \in Chunks /\ r[2] \in OutputSet
             /\ r = <<r[1], r[2]>>
<1> TAKE w \in Workers
<1> DEFINE R == Chunks \X OutputSet
<1>1. /\ ch_add[w] \in Seq(Chunks) /\ ch_del[w] \in Seq(Chunks)
      /\ ch_mov[w] \in Seq(Names) /\ ch_del_ref[w] \in Seq(R)
      /\ moving[w] \subseteq Names \X OutputSet
  BY DEF TypeInv, TypeOK
<1>2. \A n \in Names : n.chunk \in Chunks
  BY DEF Names
<1>3. \A r \in R : r[1] \in Chunks /\ r[2] \in OutputSet /\ r = <<r[1], r[2]>>
  OBVIOUS
<1>4. \A r \in moving[w] : r[1] \in Names /\ r[2] \in OutputSet /\ r = <<r[1], r[2]>>
  BY <1>1
<1> HIDE DEF R
<1>5. /\ Range(ch_add[w]) \subseteq Chunks /\ Range(ch_del[w]) \subseteq Chunks
      /\ Range(ch_mov[w]) \subseteq Names /\ Range(ch_del_ref[w]) \subseteq R
  BY <1>1, RangeEmpty
<1> QED BY <1>1, <1>2, <1>3, <1>4, <1>5

\* A process that ends leaves the files and no requests.
LEMMA VanishDisk == ASSUME BufInv, Vanish PROVE DiskInv'
<1> USE DEF BufInv, DiskInv
<1>1. FileInv'
  BY DEF FileInv, Vanish, files
<1>2. RequestInv'
  BY EmptyRange DEF RequestInv, AddInv, MovInv, DelInv, Vanish
<1>3. MoveInv'
  BY DEF MoveInv, Vanish
<1>4. RouteInv'
  <2>1. \A w \in Workers : Range(ch_del_ref'[w]) = {}
    BY EmptyRange DEF Vanish
  <2>2. \A n \in outgoing : n.chunk \in Chunks
    BY DEF TypeInv, TypeOK, Names
  <2>3. \A c \in Chunks : pend'[c] = {} /\ worker_id'[c] \in Workers
    BY Basics DEF Vanish
  <2>4. outgoing' = outgoing
    BY DEF Vanish, files
  <2> QED BY <2>1, <2>2, <2>3, <2>4 DEF RouteInv
<1>5. BackedUp'
  BY DEF BackedUp, Vanish, files, history
<1> QED BY <1>1, <1>2, <1>3, <1>4, <1>5

\* A new chunk has no file and no request yet.
LEMMA CreateDisk ==
  ASSUME BufInv, NEW c \in Chunks, Create(c) PROVE DiskInv'
<1> USE DEF BufInv, DiskInv
<1> DEFINE w0 == NextWorker
<1>0. w0 \in Workers
  BY NextWorkerType DEF TypeInv
<1>1. /\ Quiet(c) /\ \A n \in incoming \union outgoing : n.chunk # c
  BY DEF MemInv, FreshInv, Create
<1>2. /\ ch_add' = [ch_add EXCEPT ![w0] = Append(@, c)]
      /\ worker_id' = [worker_id EXCEPT ![c] = w0]
      /\ pend' = [pend EXCEPT ![c] = Routes[c]]
      /\ task' = [task EXCEPT ![c] = "live"]
      /\ UNCHANGED <<incoming, outgoing, tasks, ch_mov, ch_del, ch_del_ref, moving,
                     promoted, popped>>
  BY DEF Create, files, history
<1>3. \A w \in Workers :
        /\ ch_add[w] \in Seq(Chunks)
        /\ \A n \in Range(ch_mov[w]) : n.chunk \in Chunks /\ n.chunk # c
        /\ \A d \in Range(ch_add[w]) : d \in Chunks /\ d # c
        /\ \A d \in Range(ch_del[w]) : d \in Chunks /\ d # c
        /\ \A r \in Range(ch_del_ref[w]) : r[1] \in Chunks /\ r[1] # c
        /\ \A r \in moving[w] : r[1].chunk \in Chunks /\ r[1].chunk # c
  BY <1>1, RangeTypes DEF Quiet
<1>4. \A w \in Workers : IF w = w0 THEN /\ Range(ch_add'[w]) = Range(ch_add[w]) \union {c}
                                        /\ IsInjective(ch_add'[w])
                         ELSE ch_add'[w] = ch_add[w]
  <2>1. /\ Range(Append(ch_add[w0], c)) = Range(ch_add[w0]) \union {c}
        /\ IsInjective(Append(ch_add[w0], c))
    BY <1>0, <1>3, AppendRange DEF RequestInv, AddInv
  <2> QED BY <1>0, <1>2, <2>1 DEF TypeInv, TypeOK
<1>5. \A d \in Chunks : d # c => worker_id'[d] = worker_id[d] /\ pend'[d] = pend[d]
                                 /\ task'[d] = task[d]
  BY <1>2 DEF TypeInv, TypeOK
<1>6. worker_id'[c] = w0 /\ pend'[c] = Routes[c] /\ task'[c] = "live"
  BY <1>2 DEF TypeInv, TypeOK
<1> HIDE DEF w0
<1>7. FileInv'
  BY <1>2 DEF FileInv
<1>8. RequestInv'
  <2> SUFFICES ASSUME NEW w \in Workers
               PROVE  AddInv(w)' /\ MovInv(w)' /\ DelInv(w)'
    BY DEF RequestInv
  <2>0. AddInv(w) /\ MovInv(w) /\ DelInv(w)
    BY DEF RequestInv
  <2>1. AddInv(w)'
    <3>1. IsInjective(ch_add'[w])
      BY <1>4, <2>0 DEF AddInv
    <3>2. ASSUME NEW d \in Range(ch_add'[w])
          PROVE  /\ worker_id'[d] = w
                 /\ \A n \in incoming \union outgoing \union Range(ch_mov[w]) : n.chunk # d
      <4>1. CASE d = c
        <5>1. w = w0
          BY <1>3, <1>4, <3>2, <4>1
        <5> QED BY <1>1, <1>3, <1>6, <4>1, <5>1
      <4>2. CASE d # c
        <5>1. d \in Range(ch_add[w])
          BY <1>4, <3>2, <4>2
        <5> QED BY <1>3, <1>5, <2>0, <4>2, <5>1 DEF AddInv
      <4> QED BY <4>1, <4>2
    <3> QED BY <1>2, <3>1, <3>2 DEF AddInv
  <2>2. MovInv(w)'
    BY <1>2, <1>3, <1>5, <2>0 DEF MovInv
  <2>3. DelInv(w)'
    BY <1>2, <1>3, <1>5, <2>0 DEF DelInv
  <2> QED BY <2>1, <2>2, <2>3
<1>9. MoveInv'
  BY <1>2, <1>3, <1>5 DEF MoveInv
<1>10. RouteInv'
  <2>1. \A n \in outgoing : n.chunk \in Chunks /\ n.chunk # c
    BY <1>1 DEF TypeInv, TypeOK, Names
  <2>2. \A d \in Chunks : pend'[d] \subseteq Routes[d]
    BY <1>5, <1>6 DEF RouteInv
  <2>3. \A d \in Chunks : task'[d] # "live" => pend'[d] = {}
    BY <1>5, <1>6 DEF RouteInv
  <2>4. \A n \in outgoing : \A o \in OutputSet :
          \/ o \in pend'[n.chunk]
          \/ <<n.chunk, o>> \in Range(ch_del_ref[worker_id'[n.chunk]])
          => n \in tasks[o] \/ <<n, o>> \in moving[worker_id'[n.chunk]]
    <3> TAKE n \in outgoing
    <3>1. pend'[n.chunk] = pend[n.chunk] /\ worker_id'[n.chunk] = worker_id[n.chunk]
      BY <1>5, <2>1
    <3> QED BY <3>1 DEF RouteInv
  <2> QED BY <1>2, <2>2, <2>3, <2>4 DEF RouteInv
<1>11. BackedUp'
  BY <1>2 DEF BackedUp
<1> QED BY <1>7, <1>8, <1>9, <1>10, <1>11

\* Routes of tasks end; nothing else changes.
LEMMA ShrinkDisk ==
  ASSUME BufInv,
         \A d \in Chunks : pend'[d] \subseteq pend[d],
         \A d \in Chunks : task'[d] # "live" => pend'[d] = {},
         UNCHANGED <<incoming, outgoing, tasks, worker_id, ch_add, ch_mov, ch_del,
                     ch_del_ref, moving, promoted, popped>>
  PROVE  DiskInv'
<1> USE DEF BufInv, DiskInv
<1>1. FileInv'
  BY DEF FileInv
<1>2. RequestInv'
  <2> SUFFICES ASSUME NEW w \in Workers
               PROVE  AddInv(w)' /\ MovInv(w)' /\ DelInv(w)'
    BY DEF RequestInv
  <2>1. AddInv(w) /\ MovInv(w) /\ DelInv(w)
    BY DEF RequestInv
  <2>2. AddInv(w)' /\ MovInv(w)'
    BY <2>1 DEF AddInv, MovInv
  <2>3. \A r \in Range(ch_del_ref[w]) : r[1] \in Chunks
    BY RangeTypes
  <2>4. DelInv(w)'
    BY <2>1, <2>3 DEF DelInv
  <2> QED BY <2>2, <2>4
<1>3. MoveInv'
  BY DEF MoveInv
<1>4. RouteInv'
  <2>1. \A n \in outgoing : n.chunk \in Chunks
    BY DEF TypeInv, TypeOK, Names
  <2>2. \A d \in Chunks : pend'[d] \subseteq Routes[d]
    BY DEF RouteInv
  <2>3. \A n \in outgoing : \A o \in OutputSet :
          \/ o \in pend'[n.chunk]
          \/ <<n.chunk, o>> \in Range(ch_del_ref[worker_id[n.chunk]])
          => n \in tasks[o] \/ <<n, o>> \in moving[worker_id[n.chunk]]
    <3> TAKE n \in outgoing
    <3>1. pend'[n.chunk] \subseteq pend[n.chunk]
      BY <2>1
    <3> QED BY <3>1 DEF RouteInv
  <2> QED BY <2>2, <2>3 DEF RouteInv
<1>5. BackedUp'
  BY DEF BackedUp
<1> QED BY <1>1, <1>2, <1>3, <1>4, <1>5

\* What a result does to the task.
LEMMA ResultStep ==
  ASSUME TypeInv, NEW c \in Chunks, NEW o \in OutputSet, NEW ret,
         Result(c, o, ret)
  PROVE  /\ o \in pend[c] /\ task[c] = "live" /\ life \in {"up", "freed"}
         /\ o \notin pend'[c]
         /\ \A d \in Chunks : pend'[d] \subseteq pend[d] /\ (d # c => pend'[d] = pend[d])
         /\ \A d \in Chunks : d # c => task'[d] = task[d] /\ ref_id'[d] = ref_id[d]
         /\ \/ /\ task'[c] = "gone" /\ pend'[c] = {} /\ ref_id'[c] = 0
               /\ qch' = IF ref_id[c] > 0 THEN Append(qch, <<"POP", ref_id[c]>>) ELSE qch
            \/ task' = task /\ ref_id' = ref_id /\ qch' = qch
         /\ \/ UNCHANGED <<popped, ch_del_ref>>
            \/ flb_buffer_chunk_pop(c, o)
<1>1. CASE flb_task_destroy(c)
  BY <1>1 DEF Result, flb_task_destroy, TypeInv, TypeOK
<1>2. CASE /\ pend' = [pend EXCEPT ![c] = @ \ {o}]
           /\ UNCHANGED <<task, ref_id, qch>>
  BY <1>2 DEF Result, TypeInv, TypeOK
<1> QED BY <1>1, <1>2 DEF Result

LEMMA ResultDisk ==
  ASSUME BufInv, NEW c \in Chunks, NEW o \in OutputSet, NEW ret,
         Result(c, o, ret)
  PROVE  DiskInv'
<1> USE DEF BufInv, DiskInv
<1>1. /\ o \in pend[c] /\ o \notin pend'[c]
      /\ \A d \in Chunks : pend'[d] \subseteq pend[d]
      /\ \/ UNCHANGED <<popped, ch_del_ref>>
         \/ flb_buffer_chunk_pop(c, o)
  BY ResultStep
<1>2. \A d \in Chunks : task'[d] # "live" => pend'[d] = {}
  <2>1. \A d \in Chunks : task[d] # "live" => pend[d] = {}
    BY DEF RouteInv
  <2>2. \A d \in Chunks : d # c => task'[d] = task[d] /\ pend'[d] = pend[d]
    BY ResultStep
  <2>3. task'[c] # "live" => pend'[c] = {}
    BY ResultStep
  <2> QED BY <2>1, <2>2, <2>3
<1>3. UNCHANGED <<incoming, outgoing, tasks, worker_id, ch_add, ch_mov, ch_del,
                  moving, promoted>>
  BY DEF Result, files
<1>4. CASE UNCHANGED <<popped, ch_del_ref>>
  BY <1>1, <1>2, <1>3, <1>4, ShrinkDisk
<1>5. CASE flb_buffer_chunk_pop(c, o)
  <2> DEFINE w0 == worker_id[c]
  <2>1. /\ popped' = popped \union {<<c, o>>} /\ w0 \in Workers
        /\ ch_del_ref' = [ch_del_ref EXCEPT ![w0] = Append(@, <<c, o>>)]
    BY <1>5 DEF flb_buffer_chunk_pop, TypeInv, TypeOK
  <2>2. \A w \in Workers : AddInv(w) /\ MovInv(w) /\ DelInv(w)
    BY DEF RequestInv
  <2>3. <<c, o>> \notin Range(ch_del_ref[w0])
    BY <1>1, <2>1, <2>2 DEF DelInv
  <2>4. \A w \in Workers :
          IF w = w0 THEN /\ Range(ch_del_ref'[w]) = Range(ch_del_ref[w]) \union {<<c, o>>}
                         /\ IsInjective(ch_del_ref'[w])
                    ELSE ch_del_ref'[w] = ch_del_ref[w]
    <3> DEFINE R == Chunks \X OutputSet
    <3>1. <<c, o>> \in R /\ ch_del_ref[w0] \in Seq(R) /\ IsInjective(ch_del_ref[w0])
      BY <2>1, <2>2 DEF TypeInv, TypeOK, DelInv
    <3> HIDE DEF R
    <3>2. /\ Range(Append(ch_del_ref[w0], <<c, o>>)) = Range(ch_del_ref[w0]) \union {<<c, o>>}
          /\ IsInjective(Append(ch_del_ref[w0], <<c, o>>))
      BY <2>3, <3>1, AppendRange
    <3>3. \A w \in Workers : ch_del_ref'[w] = IF w = w0 THEN Append(ch_del_ref[w0], <<c, o>>)
                                                        ELSE ch_del_ref[w]
      BY <2>1 DEF TypeInv, TypeOK
    <3> QED BY <3>2, <3>3
  <2> HIDE DEF w0
  <2>5. FileInv'
    BY <1>3 DEF FileInv
  <2>6. RequestInv'
    <3> SUFFICES ASSUME NEW w \in Workers
                 PROVE  AddInv(w)' /\ MovInv(w)' /\ DelInv(w)'
      BY DEF RequestInv
    <3>1. AddInv(w)' /\ MovInv(w)'
      BY <1>3, <2>2 DEF AddInv, MovInv
    <3>2. IsInjective(ch_del_ref'[w])
      BY <2>2, <2>4 DEF DelInv
    <3>3. ASSUME NEW r \in Range(ch_del_ref'[w])
          PROVE  /\ worker_id[r[1]] = w /\ r \in popped'
                 /\ r[2] \in Routes[r[1]] /\ r[2] \notin pend'[r[1]]
      <4>1. CASE r \in Range(ch_del_ref[w])
        BY <1>1, <2>1, <2>2, <4>1, RangeTypes DEF DelInv
      <4>2. CASE r \notin Range(ch_del_ref[w])
        <5>1. r = <<c, o>> /\ w = w0
          BY <2>4, <3>3, <4>2
        <5>2. o \in Routes[c]
          BY <1>1 DEF RouteInv
        <5>3. r \in popped'
          BY <2>1, <5>1
        <5> QED BY <1>1, <5>1, <5>2, <5>3 DEF w0
      <4> QED BY <4>1, <4>2
    <3>4. DelInv(w)'
      BY <1>3, <2>2, <3>2, <3>3 DEF DelInv
    <3> QED BY <3>1, <3>4
  <2>7. MoveInv'
    BY <1>3 DEF MoveInv
  <2>8. RouteInv'
    <3>1. \A n \in outgoing : n.chunk \in Chunks /\ worker_id[n.chunk] \in Workers
      BY DEF TypeInv, TypeOK, Names
    <3>2. \A d \in Chunks : pend'[d] \subseteq Routes[d]
      BY <1>1 DEF RouteInv
    <3>3. ASSUME NEW n \in outgoing, NEW p \in OutputSet,
                 \/ p \in pend'[n.chunk]
                 \/ <<n.chunk, p>> \in Range(ch_del_ref'[worker_id[n.chunk]])
          PROVE  n \in tasks[p] \/ <<n, p>> \in moving[worker_id[n.chunk]]
      <4>1. p \in pend'[n.chunk] => p \in pend[n.chunk]
        BY <1>1, <3>1
      <4>2. <<n.chunk, p>> \in Range(ch_del_ref'[worker_id[n.chunk]])
              => \/ <<n.chunk, p>> \in Range(ch_del_ref[worker_id[n.chunk]])
                 \/ p \in pend[n.chunk]
        BY <1>1, <2>4, <3>1
      <4> QED BY <3>3, <4>1, <4>2 DEF RouteInv
    <3> QED BY <1>2, <1>3, <3>2, <3>3 DEF RouteInv
  <2>9. BackedUp'
    BY <1>3, <2>1 DEF BackedUp
  <2> QED BY <2>5, <2>6, <2>7, <2>8, <2>9
<1> QED BY <1>1, <1>4, <1>5

LEMMA PushDisk == ASSUME BufInv, flb_buffer_qchunk_push PROVE DiskInv'
<1> USE DEF BufInv, DiskInv
<1>1. UNCHANGED <<incoming, outgoing, tasks, ch_add, ch_mov, ch_del, ch_del_ref,
                  moving, promoted, popped>>
  BY DEF flb_buffer_qchunk_push, files, workers, channels
<1>2. CASE UNCHANGED taskVars
  BY <1>1, <1>2, DiskSame DEF diskVars, taskVars
<1>3. CASE \E i \in 1..Len(queue) :
             queue[i].id = walk.key /\ flb_task_create_direct(queue[i])
  <2>1. PICK i \in 1..Len(queue) :
             queue[i].id = walk.key /\ flb_task_create_direct(queue[i])
    BY <1>3
  <2> DEFINE e == queue[i]
             c == e.name.chunk
  <2>2. e \in Range(queue) /\ c \in Chunks /\ e.name \in Names /\ e.routes \in SUBSET OutputSet
    BY EntryType DEF TypeInv
  <2>3. Waiting(e)
    BY <2>1, PushStep DEF Waiting
  <2>4. /\ Quiet(c) /\ e.name \in outgoing /\ \A o \in e.routes : e.name \in tasks[o]
    BY <2>2, <2>3 DEF MemInv, EntryInv
  <2>5. /\ worker_id' = [worker_id EXCEPT ![c] = 0]
        /\ pend' = [pend EXCEPT ![c] = e.routes]
        /\ task' = [task EXCEPT ![c] = "live"]
    BY <2>1 DEF flb_task_create_direct
  <2> HIDE DEF e
  <2>6. \A d \in Chunks : d # c => worker_id'[d] = worker_id[d] /\ pend'[d] = pend[d]
                                   /\ task'[d] = task[d]
    BY <2>5 DEF TypeInv, TypeOK
  <2>7. worker_id'[c] = 0 /\ pend'[c] = e.routes /\ task'[c] = "live"
    BY <2>2, <2>5 DEF TypeInv, TypeOK
  <2>8. \A w \in Workers :
          /\ \A n \in Range(ch_mov[w]) : n.chunk \in Chunks /\ n.chunk # c
          /\ \A d \in Range(ch_add[w]) : d \in Chunks /\ d # c
          /\ \A d \in Range(ch_del[w]) : d \in Chunks /\ d # c
          /\ \A r \in Range(ch_del_ref[w]) : r[1] \in Chunks /\ r[1] # c
          /\ \A r \in moving[w] : r[1].chunk \in Chunks /\ r[1].chunk # c
    BY <2>4, RangeTypes DEF Quiet
  <2>9. FileInv'
    BY <1>1 DEF FileInv
  <2>10. RequestInv'
    <3> SUFFICES ASSUME NEW w \in Workers
                 PROVE  AddInv(w)' /\ MovInv(w)' /\ DelInv(w)'
      BY DEF RequestInv
    <3>1. AddInv(w) /\ MovInv(w) /\ DelInv(w)
      BY DEF RequestInv
    <3>2. AddInv(w)'
      BY <1>1, <2>6, <2>8, <3>1 DEF AddInv
    <3>3. MovInv(w)'
      BY <1>1, <2>6, <2>8, <3>1 DEF MovInv
    <3>4. DelInv(w)'
      BY <1>1, <2>6, <2>8, <3>1 DEF DelInv
    <3> QED BY <3>2, <3>3, <3>4
  <2>11. MoveInv'
    BY <1>1, <2>6, <2>8 DEF MoveInv
  <2>12. RouteInv'
    <3>1. \A n \in outgoing : n.chunk \in Chunks
      BY DEF TypeInv, TypeOK, Names
    <3>2. e.routes \subseteq Routes[c]
      BY <2>2, <2>4 DEF FileInv
    <3>3. \A d \in Chunks : /\ pend'[d] \subseteq Routes[d]
                            /\ task'[d] # "live" => pend'[d] = {}
      BY <2>6, <2>7, <3>2 DEF RouteInv
    <3>4. ASSUME NEW n \in outgoing, NEW p \in OutputSet,
                 \/ p \in pend'[n.chunk]
                 \/ <<n.chunk, p>> \in Range(ch_del_ref[worker_id'[n.chunk]])
          PROVE  n \in tasks[p] \/ <<n, p>> \in moving[worker_id'[n.chunk]]
      <4>1. CASE n.chunk = c
        <5>1. n = e.name
          BY <2>4, <4>1 DEF FileInv
        <5>2. <<c, p>> \notin Range(ch_del_ref[0])
          BY <2>8, Basics
        <5>3. p \in e.routes
          BY <2>7, <3>4, <4>1, <5>2
        <5> QED BY <2>4, <5>1, <5>3
      <4>2. CASE n.chunk # c
        <5>1. /\ worker_id'[n.chunk] = worker_id[n.chunk]
              /\ pend'[n.chunk] = pend[n.chunk]
          BY <2>6, <3>1, <4>2
        <5> QED BY <3>4, <5>1 DEF RouteInv
      <4> QED BY <4>1, <4>2
    <3> QED BY <1>1, <3>3, <3>4 DEF RouteInv
  <2>13. BackedUp'
    BY <1>1 DEF BackedUp
  <2> QED BY <2>9, <2>10, <2>11, <2>12, <2>13
<1> QED BY <1>2, <1>3, PushStep

LEMMA StopDisk == ASSUME BufInv, flb_buffer_stop PROVE DiskInv'
<1>1. \A d \in Chunks : pend'[d] \subseteq pend[d]
  BY DEF flb_buffer_stop, BufInv, TypeInv, TypeOK
<1>2. \A d \in Chunks : task'[d] # "live" => pend'[d] = {}
  <2>1. \A d \in Chunks : task[d] # "live" => pend[d] = {}
    BY DEF BufInv, DiskInv, RouteInv
  <2> QED BY <2>1 DEF flb_buffer_stop
<1>3. UNCHANGED <<incoming, outgoing, tasks, worker_id, ch_add, ch_mov, ch_del,
                  ch_del_ref, moving, promoted, popped>>
  BY DEF flb_buffer_stop, files, history
<1> QED BY <1>1, <1>2, <1>3, ShrinkDisk

LEMMA DestroyDisk == ASSUME BufInv, flb_buffer_destroy PROVE DiskInv'
<1> USE DEF BufInv, DiskInv
<1>0. UNCHANGED <<incoming, outgoing, tasks, task, pend, worker_id, moving, promoted,
                  popped>>
  BY DEF flb_buffer_destroy, files, engine, taskVars, history
<1>1. FileInv'
  BY <1>0 DEF FileInv
<1>2. RequestInv'
  BY EmptyRange DEF RequestInv, AddInv, MovInv, DelInv, flb_buffer_destroy
<1>3. MoveInv'
  BY <1>0 DEF MoveInv
<1>4. RouteInv'
  <2>1. \A w \in Workers : Range(ch_del_ref'[w]) = {}
    BY EmptyRange DEF flb_buffer_destroy
  <2>2. \A n \in outgoing : n.chunk \in Chunks /\ worker_id[n.chunk] \in Workers
    BY DEF TypeInv, TypeOK, Names
  <2>3. \A n \in outgoing : Range(ch_del_ref'[worker_id[n.chunk]]) = {}
    BY <2>1, <2>2
  <2> QED BY <1>0, <2>3 DEF RouteInv
<1>5. BackedUp'
  BY <1>0 DEF BackedUp
<1> QED BY <1>1, <1>2, <1>3, <1>4, <1>5

LEMMA AddDisk ==
  ASSUME BufInv, NEW w \in Workers, flb_buffer_chunk_add(w) PROVE DiskInv'
<1> USE DEF BufInv, DiskInv
<1> DEFINE c == Head(ch_add[w])
           n == [chunk |-> c, routes |-> Routes[c], w |-> w]
<1>1. \A v \in Workers : AddInv(v) /\ MovInv(v) /\ DelInv(v)
  BY DEF RequestInv
<1>2. /\ c \in Chunks /\ c \in Range(ch_add[w]) /\ c \notin Range(ch_add'[w])
      /\ \A v \in Workers : /\ Range(ch_add'[v]) \subseteq Range(ch_add[v])
                            /\ IsInjective(ch_add'[v])
  <2>1. ch_add[w] # <<>> /\ ch_add' = [ch_add EXCEPT ![w] = Tail(@)]
    BY DEF flb_buffer_chunk_add, Takes, TypeInv, ReadyInv
  <2>2. ch_add \in [Workers -> Seq(Chunks)] /\ \A v \in Workers : IsInjective(ch_add[v])
    BY <1>1 DEF TypeInv, TypeOK, AddInv
  <2>3. /\ Head(ch_add[w]) \in Chunks /\ Head(ch_add[w]) \in Range(ch_add[w])
        /\ Range(ch_add[w]) = Range(Tail(ch_add[w])) \union {Head(ch_add[w])}
        /\ IsInjective(Tail(ch_add[w])) /\ Head(ch_add[w]) \notin Range(Tail(ch_add[w]))
    BY <2>1, <2>2, TailRange
  <2>4. \A v \in Workers : ch_add'[v] = IF v = w THEN Tail(ch_add[w]) ELSE ch_add[v]
    BY <2>1, <2>2
  <2> QED BY <2>2, <2>3, <2>4
<1>3. PICK stored \in {"nothing", "part", "all"} :
        /\ incoming' = IF stored = "nothing" THEN incoming ELSE incoming \union {n}
        /\ ch_mov' = IF stored = "all" THEN [ch_mov EXCEPT ![w] = Append(@, n)]
                     ELSE ch_mov
  BY DEF flb_buffer_chunk_add
<1>4. UNCHANGED <<outgoing, tasks, task, pend, worker_id, ch_del, ch_del_ref, moving,
                  promoted, popped>>
  BY DEF flb_buffer_chunk_add, engine, taskVars, history
<1>5. n \in Names /\ n.chunk = c /\ n.routes = Routes[c] /\ n.w = w
  BY <1>2, Basics DEF Names
<1> HIDE DEF c, n
<1>6. /\ worker_id[c] = w
      /\ \A m \in incoming \union outgoing \union Range(ch_mov[w]) : m.chunk # c
  BY <1>1, <1>2 DEF AddInv
<1>7. \A v \in Workers : c \notin Range(ch_add'[v])
  BY <1>1, <1>2, <1>6 DEF AddInv
<1>8. \A v \in Workers :
        /\ IsInjective(ch_mov'[v])
        /\ \A m \in Range(ch_mov'[v]) : m \in Range(ch_mov[v]) \/ (m = n /\ v = w)
  <2>1. CASE stored = "all"
    <3>1. ch_mov[w] \in Seq(Names) /\ n \notin Range(ch_mov[w]) /\ IsInjective(ch_mov[w])
      BY <1>1, <1>5, <1>6 DEF TypeInv, TypeOK, MovInv
    <3>2. /\ Range(Append(ch_mov[w], n)) = Range(ch_mov[w]) \union {n}
          /\ IsInjective(Append(ch_mov[w], n))
      BY <1>5, <3>1, AppendRange
    <3>3. \A v \in Workers : ch_mov'[v] = IF v = w THEN Append(ch_mov[w], n) ELSE ch_mov[v]
      BY <1>3, <2>1 DEF TypeInv, TypeOK
    <3> QED BY <1>1, <3>2, <3>3 DEF MovInv
  <2>2. CASE stored # "all"
    BY <1>1, <1>3, <2>2 DEF MovInv
  <2> QED BY <2>1, <2>2
<1>9. FileInv'
  <2>1. \A m \in incoming' : m \in incoming \/ m = n
    BY <1>3
  <2> QED BY <1>4, <1>5, <1>6, <2>1 DEF FileInv
<1>10. RequestInv'
  <2> SUFFICES ASSUME NEW v \in Workers
               PROVE  AddInv(v)' /\ MovInv(v)' /\ DelInv(v)'
    BY DEF RequestInv
  <2>1. AddInv(v)'
    <3>1. ASSUME NEW d \in Range(ch_add'[v])
          PROVE  /\ worker_id[d] = v
                 /\ \A m \in incoming' \union outgoing \union Range(ch_mov'[v]) : m.chunk # d
      <4>1. d \in Range(ch_add[v]) /\ d # c
        BY <1>2, <1>7, <3>1
      <4>2. \A m \in incoming' \union outgoing \union Range(ch_mov'[v]) :
              m = n \/ m \in incoming \union outgoing \union Range(ch_mov[v])
        BY <1>3, <1>8
      <4> QED BY <1>1, <1>5, <4>1, <4>2 DEF AddInv
    <3> QED BY <1>2, <1>4, <3>1 DEF AddInv
  <2>2. MovInv(v)'
    <3>1. ASSUME NEW m \in Range(ch_mov'[v])
          PROVE  /\ worker_id[m.chunk] = v /\ m.routes = Routes[m.chunk] /\ m.w = v
                 /\ \A k \in outgoing : k.chunk # m.chunk
      <4>1. CASE m \in Range(ch_mov[v])
        BY <1>1, <4>1 DEF MovInv
      <4>2. CASE m = n /\ v = w
        BY <1>5, <1>6, <4>2
      <4> QED BY <1>8, <3>1, <4>1, <4>2
    <3> QED BY <1>4, <1>8, <3>1 DEF MovInv
  <2>3. DelInv(v)'
    BY <1>1, <1>4 DEF DelInv
  <2> QED BY <2>1, <2>2, <2>3
<1>11. MoveInv'
  BY <1>4 DEF MoveInv
<1>12. RouteInv'
  BY <1>4 DEF RouteInv
<1>13. BackedUp'
  BY <1>4 DEF BackedUp
<1> QED BY <1>9, <1>10, <1>11, <1>12, <1>13

LEMMA MoveDisk ==
  ASSUME BufInv, NEW w \in Workers, flb_buffer_chunk_real_move(w) PROVE DiskInv'
<1> USE DEF BufInv, DiskInv
<1> DEFINE n == Head(ch_mov[w])
           c == n.chunk
<1>1. \A v \in Workers : AddInv(v) /\ MovInv(v) /\ DelInv(v)
  BY DEF RequestInv
<1>2. /\ n \in Names /\ n \in Range(ch_mov[w]) /\ n \notin Range(ch_mov'[w])
      /\ \A v \in Workers : /\ Range(ch_mov'[v]) \subseteq Range(ch_mov[v])
                            /\ IsInjective(ch_mov'[v])
  <2>1. ch_mov[w] # <<>> /\ ch_mov' = [ch_mov EXCEPT ![w] = Tail(@)]
    BY DEF flb_buffer_chunk_real_move, Takes, TypeInv, ReadyInv
  <2>2. ch_mov \in [Workers -> Seq(Names)] /\ \A v \in Workers : IsInjective(ch_mov[v])
    BY <1>1 DEF TypeInv, TypeOK, MovInv
  <2>3. /\ Head(ch_mov[w]) \in Names /\ Head(ch_mov[w]) \in Range(ch_mov[w])
        /\ Range(ch_mov[w]) = Range(Tail(ch_mov[w])) \union {Head(ch_mov[w])}
        /\ IsInjective(Tail(ch_mov[w])) /\ Head(ch_mov[w]) \notin Range(Tail(ch_mov[w]))
    BY <2>1, <2>2, TailRange
  <2>4. \A v \in Workers : ch_mov'[v] = IF v = w THEN Tail(ch_mov[w]) ELSE ch_mov[v]
    BY <2>1, <2>2
  <2> QED BY <2>2, <2>3, <2>4
<1>3. /\ moving[w] = {}
      /\ UNCHANGED <<tasks, task, pend, worker_id, ch_add, ch_del, ch_del_ref,
                     promoted, popped>>
  BY DEF flb_buffer_chunk_real_move, Takes, engine, taskVars, history
<1>4. /\ c \in Chunks /\ worker_id[c] = w /\ n.routes = Routes[c] /\ n.w = w
      /\ \A m \in outgoing : m.chunk # c
  BY <1>1, <1>2 DEF MovInv, Names
<1>5. CASE n \notin incoming
  <2>1. UNCHANGED <<incoming, outgoing, moving>>
    BY <1>5 DEF flb_buffer_chunk_real_move, Rename
  <2>2. FileInv' /\ MoveInv' /\ BackedUp'
    BY <1>3, <2>1 DEF FileInv, MoveInv, BackedUp
  <2>3. RouteInv'
    BY <1>3, <2>1 DEF RouteInv
  <2>4. RequestInv'
    <3> SUFFICES ASSUME NEW v \in Workers
                 PROVE  AddInv(v)' /\ MovInv(v)' /\ DelInv(v)'
      BY DEF RequestInv
    <3>1. AddInv(v)'
      BY <1>1, <1>2, <1>3, <2>1 DEF AddInv
    <3>2. MovInv(v)'
      BY <1>1, <1>2, <1>3, <2>1 DEF MovInv
    <3>3. DelInv(v)'
      BY <1>1, <1>3 DEF DelInv
    <3> QED BY <3>1, <3>2, <3>3
  <2> QED BY <2>2, <2>3, <2>4
<1>6. CASE n \in incoming
  <2>1. /\ incoming' = incoming \ {n} /\ outgoing' = outgoing \union {n}
        /\ moving' = [moving EXCEPT ![w] = RefsOf(n)]
    BY <1>6 DEF flb_buffer_chunk_real_move, Rename
  <2> HIDE DEF n
  <2>2. /\ \A v \in Workers : v # w => moving'[v] = moving[v]
        /\ moving'[w] = {n} \X Routes[c]
    BY <1>4, <2>1 DEF TypeInv, TypeOK, RefsOf
  <2>3. \A v \in Workers : \A m \in Range(ch_mov'[v]) : m.chunk # c
    <3> TAKE v \in Workers
    <3> TAKE m \in Range(ch_mov'[v])
    <3>1. m \in Range(ch_mov[v]) /\ m \in Names
      BY <1>2, RangeTypes
    <3>2. worker_id[m.chunk] = v /\ m.routes = Routes[m.chunk] /\ m.w = v
      BY <1>1, <3>1 DEF MovInv
    <3>3. ASSUME m.chunk = c PROVE FALSE
      <4>1. v = w
        BY <1>4, <3>2, <3>3
      <4>2. m = n
        BY <1>2, <1>4, <3>1, <3>2, <3>3, <4>1 DEF Names
      <4> QED BY <1>2, <4>1, <4>2
    <3> QED BY <3>3
  <2>4. FileInv'
    BY <1>3, <1>4, <1>6, <2>1 DEF FileInv
  <2>5. RequestInv'
    <3> SUFFICES ASSUME NEW v \in Workers
                 PROVE  AddInv(v)' /\ MovInv(v)' /\ DelInv(v)'
      BY DEF RequestInv
    <3>1. AddInv(v)'
      BY <1>1, <1>2, <1>3, <1>6, <2>1 DEF AddInv
    <3>2. MovInv(v)'
      BY <1>1, <1>2, <1>3, <2>1, <2>3 DEF MovInv
    <3>3. DelInv(v)'
      BY <1>1, <1>3 DEF DelInv
    <3> QED BY <3>1, <3>2, <3>3
  <2>6. MoveInv'
    <3>1. ASSUME NEW v \in Workers, NEW r \in moving'[v]
          PROVE  /\ worker_id[r[1].chunk] = v /\ r[1] \in outgoing'
                 /\ r[2] \in Routes[r[1].chunk]
                 /\ \A o \in Routes[r[1].chunk] :
                      <<r[1], o>> \in moving'[v] \/ r[1] \in tasks[o]
      <4>1. CASE v = w
        <5>1. r[1] = n /\ r[2] \in Routes[c]
          BY <2>2, <3>1, <4>1
        <5>2. \A o \in Routes[c] : <<n, o>> \in moving'[v]
          BY <2>2, <4>1
        <5> QED BY <1>4, <2>1, <4>1, <5>1, <5>2
      <4>2. CASE v # w
        BY <2>1, <2>2, <3>1, <4>2 DEF MoveInv
      <4> QED BY <4>1, <4>2
    <3> QED BY <1>3, <3>1 DEF MoveInv
  <2>7. RouteInv'
    <3>1. ASSUME NEW m \in outgoing', NEW o \in OutputSet,
                 \/ o \in pend[m.chunk]
                 \/ <<m.chunk, o>> \in Range(ch_del_ref[worker_id[m.chunk]])
          PROVE  m \in tasks[o] \/ <<m, o>> \in moving'[worker_id[m.chunk]]
      <4>1. CASE m = n
        <5>1. o \in pend[c] => o \in Routes[c]
          BY <1>4 DEF RouteInv
        <5>2. <<c, o>> \in Range(ch_del_ref[w]) => o \in Routes[c]
          BY <1>1 DEF DelInv
        <5>3. o \in Routes[c]
          BY <1>4, <3>1, <4>1, <5>1, <5>2
        <5> QED BY <1>4, <2>2, <4>1, <5>3
      <4>2. CASE m # n
        <5>1. m \in outgoing /\ m.chunk \in Chunks /\ worker_id[m.chunk] \in Workers
          BY <2>1, <4>2 DEF TypeInv, TypeOK, Names
        <5>2. m \in tasks[o] \/ <<m, o>> \in moving[worker_id[m.chunk]]
          BY <3>1, <5>1 DEF RouteInv
        <5> QED BY <1>3, <2>2, <5>1, <5>2
      <4> QED BY <4>1, <4>2
    <3>2. /\ \A d \in Chunks : pend[d] \subseteq Routes[d]
          /\ \A d \in Chunks : task[d] # "live" => pend[d] = {}
      BY DEF RouteInv
    <3> QED BY <1>3, <3>1, <3>2 DEF RouteInv
  <2>8. BackedUp'
    BY <1>3, <2>1 DEF BackedUp
  <2> QED BY <2>4, <2>5, <2>6, <2>7, <2>8
<1> QED BY <1>5, <1>6

LEMMA ReferenceDisk ==
  ASSUME BufInv, ~RefMayFail, NEW w \in Workers, Reference(w) PROVE DiskInv'
<1> USE DEF BufInv, DiskInv
<1>1. PICK n \in Names, o \in OutputSet :
           /\ n.chunk \in Chunks /\ <<n, o>> \in moving[w]
           /\ \/ tasks' = [tasks EXCEPT ![o] = @ \union {n}]
              \/ RefMayFail /\ tasks' = tasks
           /\ promoted' = IF moving[w] = {<<n, o>>} THEN promoted \union {n.chunk}
                                                    ELSE promoted
           /\ moving' = [moving EXCEPT ![w] = @ \ {<<n, o>>}]
  BY ReferenceStep
<1>2. UNCHANGED <<incoming, outgoing, task, pend, worker_id, ch_add, ch_mov, ch_del,
                  ch_del_ref, popped>>
  BY DEF Reference, engine, taskVars, channels
<1>3. \A p \in OutputSet : tasks'[p] = IF p = o THEN tasks[o] \union {n} ELSE tasks[p]
  BY <1>1 DEF TypeInv, TypeOK
<1>4. \A v \in Workers : moving'[v] = IF v = w THEN moving[w] \ {<<n, o>>} ELSE moving[v]
  BY <1>1 DEF TypeInv, TypeOK
<1>5. /\ worker_id[n.chunk] = w /\ n \in outgoing /\ o \in Routes[n.chunk]
      /\ \A p \in Routes[n.chunk] : <<n, p>> \in moving[w] \/ n \in tasks[p]
  BY <1>1 DEF MoveInv
<1>6. FileInv'
  BY <1>2, <1>3, <1>5 DEF FileInv
<1>7. RequestInv'
  BY <1>2 DEF RequestInv, AddInv, MovInv, DelInv
<1>8. MoveInv'
  <2>1. ASSUME NEW v \in Workers, NEW r \in moving'[v]
        PROVE  /\ worker_id[r[1].chunk] = v /\ r[1] \in outgoing
               /\ r[2] \in Routes[r[1].chunk]
               /\ \A p \in Routes[r[1].chunk] :
                    <<r[1], p>> \in moving'[v] \/ r[1] \in tasks'[p]
    <3>1. r \in moving[v] /\ r[1].chunk \in Chunks
      BY <1>4, <2>1, RangeTypes
    <3>2. /\ worker_id[r[1].chunk] = v /\ r[1] \in outgoing
          /\ r[2] \in Routes[r[1].chunk]
          /\ \A p \in Routes[r[1].chunk] :
               <<r[1], p>> \in moving[v] \/ r[1] \in tasks[p]
      BY <3>1 DEF MoveInv
    <3>3. ASSUME NEW p \in Routes[r[1].chunk]
          PROVE  <<r[1], p>> \in moving'[v] \/ r[1] \in tasks'[p]
      <4>1. p \in OutputSet
        BY <3>1, <3>3, Basics
      <4>2. CASE r[1] \in tasks[p]
        BY <1>3, <4>1, <4>2
      <4>3. CASE <<r[1], p>> \in moving[v] /\ <<r[1], p>> # <<n, o>>
        BY <1>4, <4>3
      <4>4. CASE <<r[1], p>> = <<n, o>>
        BY <1>3, <4>1, <4>4
      <4> QED BY <3>2, <3>3, <4>2, <4>3, <4>4
    <3> QED BY <3>2, <3>3
  <2> QED BY <1>2, <2>1 DEF MoveInv
<1>9. RouteInv'
  <2>1. ASSUME NEW m \in outgoing, NEW p \in OutputSet,
               \/ p \in pend[m.chunk]
               \/ <<m.chunk, p>> \in Range(ch_del_ref[worker_id[m.chunk]])
        PROVE  m \in tasks'[p] \/ <<m, p>> \in moving'[worker_id[m.chunk]]
    <3>1. worker_id[m.chunk] \in Workers
      BY DEF TypeInv, TypeOK, Names
    <3>2. m \in tasks[p] \/ <<m, p>> \in moving[worker_id[m.chunk]]
      BY <2>1 DEF RouteInv
    <3>3. CASE m \in tasks[p]
      BY <1>3, <3>3
    <3>4. CASE <<m, p>> \in moving[worker_id[m.chunk]] /\ <<m, p>> # <<n, o>>
      BY <1>4, <3>1, <3>4
    <3>5. CASE <<m, p>> = <<n, o>>
      BY <1>3, <3>5
    <3> QED BY <3>2, <3>3, <3>4, <3>5
  <2>2. /\ \A d \in Chunks : pend[d] \subseteq Routes[d]
        /\ \A d \in Chunks : task[d] # "live" => pend[d] = {}
    BY DEF RouteInv
  <2> QED BY <1>2, <2>1, <2>2 DEF RouteInv
<1>10. BackedUp'
  <2>1. ASSUME NEW c \in promoted', NEW p \in Routes[c], <<c, p>> \notin popped
        PROVE  \E m \in outgoing : m.chunk = c /\ m \in tasks'[p]
    <3>0. c \in Chunks /\ p \in OutputSet
      BY <1>1, <2>1, Basics DEF TypeInv, TypeOK
    <3>1. CASE c \in promoted
      <4>1. PICK m \in outgoing : m.chunk = c /\ m \in tasks[p]
        BY <2>1, <3>1 DEF BackedUp
      <4> QED BY <1>3, <3>0, <4>1
    <3>2. CASE c = n.chunk /\ moving[w] = {<<n, o>>}
      <4>1. p = o \/ n \in tasks[p]
        BY <1>5, <2>1, <3>2
      <4> QED BY <1>3, <1>5, <3>0, <3>2, <4>1
    <3> QED BY <1>1, <2>1, <3>1, <3>2
  <2> QED BY <1>2, <2>1 DEF BackedUp
<1> QED BY <1>6, <1>7, <1>8, <1>9, <1>10

\* chunk_miss() without a route: only a file of the chunk, only in incoming/.
LEMMA RemoveRouteChunk ==
  ASSUME NEW dir \in SUBSET Names, NEW n \in dir, NEW o
  PROVE  /\ \A m \in RemoveRoute(dir, n, o) : m \in dir \/ m.chunk = n.chunk
         /\ \A m \in dir : m # n => m \in RemoveRoute(dir, n, o)
         /\ \A k, m \in RemoveRoute(dir, n, o) :
              (\A i, j \in dir : i.chunk = j.chunk => i = j) /\ k.chunk = m.chunk
                => k = m
<1> DEFINE k == [n EXCEPT !.routes = @ \ {o}]
<1>1. k \in Names /\ k.chunk = n.chunk
  BY DEF Names
<1>2. RemoveRoute(dir, n, o) = dir \ {n} \/ RemoveRoute(dir, n, o) = (dir \ {n}) \union {k}
  BY DEF RemoveRoute
<1> HIDE DEF k
<1> QED BY <1>1, <1>2

LEMMA DeleteRefDisk ==
  ASSUME BufInv, NEW w \in Workers, flb_buffer_chunk_delete_ref(w) PROVE DiskInv'
<1> USE DEF BufInv, DiskInv
<1>1. PICK c \in Chunks, o \in OutputSet :
           /\ Head(ch_del_ref[w]) = <<c, o>> /\ <<c, o>> \in Range(ch_del_ref[w])
           /\ ch_del_ref' = [ch_del_ref EXCEPT ![w] = Tail(@)]
           /\ \/ /\ \A n \in tasks[o] : n.chunk # c
                 /\ chunk_miss(c, o) /\ UNCHANGED <<tasks, ch_del>>
              \/ /\ \E n \in tasks[o] :
                      n.chunk = c /\ tasks' = [tasks EXCEPT ![o] = @ \ {n}]
                 /\ ch_del' = [ch_del EXCEPT ![w] = Append(@, c)]
                 /\ UNCHANGED <<incoming, outgoing>>
  BY DeleteRefStep
<1>2. \A v \in Workers : AddInv(v) /\ MovInv(v) /\ DelInv(v)
  BY DEF RequestInv
<1>3. /\ <<c, o>> \notin Range(ch_del_ref'[w])
      /\ \A v \in Workers : /\ Range(ch_del_ref'[v]) \subseteq Range(ch_del_ref[v])
                            /\ IsInjective(ch_del_ref'[v])
  <2> DEFINE R == Chunks \X OutputSet
  <2>1. ch_del_ref[w] # <<>>
    BY DEF flb_buffer_chunk_delete_ref, Takes, TypeInv, ReadyInv
  <2>2. ch_del_ref \in [Workers -> Seq(R)] /\ \A v \in Workers : IsInjective(ch_del_ref[v])
    BY <1>2 DEF TypeInv, TypeOK, DelInv
  <2> HIDE DEF R
  <2>a. ch_del_ref[w] \in Seq(R) /\ IsInjective(ch_del_ref[w])
    BY <2>2
  <2>b. /\ Range(ch_del_ref[w]) = Range(Tail(ch_del_ref[w])) \union {Head(ch_del_ref[w])}
        /\ IsInjective(Tail(ch_del_ref[w]))
        /\ Head(ch_del_ref[w]) \notin Range(Tail(ch_del_ref[w]))
    BY <2>1, <2>a, TailRange
  <2>3. /\ Range(ch_del_ref[w]) = Range(Tail(ch_del_ref[w])) \union {<<c, o>>}
        /\ IsInjective(Tail(ch_del_ref[w])) /\ <<c, o>> \notin Range(Tail(ch_del_ref[w]))
    BY <1>1, <2>b
  <2>4. \A v \in Workers :
          ch_del_ref'[v] = IF v = w THEN Tail(ch_del_ref[w]) ELSE ch_del_ref[v]
    BY <1>1, <2>2
  <2> QED BY <2>2, <2>3, <2>4
<1>4. /\ moving[w] = {}
      /\ UNCHANGED <<task, pend, worker_id, ch_add, ch_mov, moving, promoted, popped>>
  BY DEF flb_buffer_chunk_delete_ref, Takes, engine, taskVars, history
<1>5. /\ worker_id[c] = w /\ <<c, o>> \in popped /\ o \notin pend[c]
  BY <1>1, <1>2 DEF DelInv
<1>6. CASE /\ \A n \in tasks[o] : n.chunk # c
           /\ chunk_miss(c, o) /\ UNCHANGED <<tasks, ch_del>>
  <2>1. \A n \in outgoing : n.chunk # c
    BY <1>1, <1>4, <1>5, <1>6 DEF RouteInv
  <2>2. PICK n \in incoming \union {<<>>} :
          \/ incoming' = incoming /\ outgoing' = outgoing
          \/ /\ n \in incoming /\ n.chunk = c
             /\ incoming' = RemoveRoute(incoming, n, o) /\ outgoing' = outgoing
    BY <1>6, <2>1, MissStep
  <2>3. outgoing' = outgoing
    BY <2>2
  <2>4. /\ \A m \in incoming' :
             m \in incoming \/ (m.chunk = c /\ \E k \in incoming : k.chunk = c)
        /\ \A k, m \in incoming' : k.chunk = m.chunk => k = m
    <3>0. \A k, m \in incoming : k.chunk = m.chunk => k = m
      BY DEF FileInv
    <3>1. CASE incoming' = incoming
      BY <3>0, <3>1
    <3>2. CASE /\ n \in incoming /\ n.chunk = c
               /\ incoming' = RemoveRoute(incoming, n, o)
      <4>1. incoming \in SUBSET Names /\ \A i, j \in incoming : i.chunk = j.chunk => i = j
        BY DEF TypeInv, TypeOK, FileInv
      <4> QED BY <3>2, <4>1, RemoveRouteChunk
    <3> QED BY <2>2, <3>1, <3>2
  <2>5. FileInv'
    <3>1. \A m \in incoming', k \in outgoing : m.chunk # k.chunk
      BY <2>1, <2>4 DEF FileInv
    <3> QED BY <1>6, <2>3, <2>4, <3>1 DEF FileInv
  <2>6. RequestInv'
    <3> SUFFICES ASSUME NEW v \in Workers
                 PROVE  AddInv(v)' /\ MovInv(v)' /\ DelInv(v)'
      BY DEF RequestInv
    <3>1. AddInv(v)'
      <4>1. \A d \in Range(ch_add[v]) : \A m \in incoming' : m.chunk # d
        <5>1. \A d \in Range(ch_add[v]) : \A m \in incoming : m.chunk # d
          BY <1>2 DEF AddInv
        <5> QED BY <2>4, <5>1
      <4> QED BY <1>2, <1>4, <2>3, <4>1 DEF AddInv
    <3>2. MovInv(v)'
      BY <1>2, <1>4, <2>3 DEF MovInv
    <3>3. DelInv(v)'
      BY <1>2, <1>3, <1>4, <1>6 DEF DelInv
    <3> QED BY <3>1, <3>2, <3>3
  <2>7. MoveInv'
    BY <1>4, <1>6, <2>3 DEF MoveInv
  <2>8. RouteInv'
    <3>1. \A m \in outgoing : worker_id[m.chunk] \in Workers
      BY DEF TypeInv, TypeOK, Names
    <3> QED BY <1>3, <1>4, <1>6, <2>3, <3>1 DEF RouteInv
  <2>9. BackedUp'
    BY <1>4, <1>6, <2>3 DEF BackedUp
  <2> QED BY <2>5, <2>6, <2>7, <2>8, <2>9
<1>7. CASE /\ \E n \in tasks[o] :
                n.chunk = c /\ tasks' = [tasks EXCEPT ![o] = @ \ {n}]
           /\ ch_del' = [ch_del EXCEPT ![w] = Append(@, c)]
           /\ UNCHANGED <<incoming, outgoing>>
  <2>1. PICK n \in tasks[o] : n.chunk = c /\ tasks' = [tasks EXCEPT ![o] = @ \ {n}]
    BY <1>7
  <2>2. \A p \in OutputSet : tasks'[p] = IF p = o THEN tasks[o] \ {n} ELSE tasks[p]
    BY <2>1 DEF TypeInv, TypeOK
  <2>3. \A v \in Workers : \A d \in Range(ch_del'[v]) : d \in Range(ch_del[v]) \/ (d = c /\ v = w)
    <3>1. Range(Append(ch_del[w], c)) = Range(ch_del[w]) \union {c}
      BY RangeTypes, AppendRange
    <3>2. \A v \in Workers : ch_del'[v] = IF v = w THEN Append(ch_del[w], c) ELSE ch_del[v]
      BY <1>7 DEF TypeInv, TypeOK
    <3>3. \A v \in Workers : Range(ch_del'[v]) = IF v = w THEN Range(ch_del[w]) \union {c}
                                                      ELSE Range(ch_del[v])
      BY <3>1, <3>2
    <3> QED BY <3>3
  <2>0. UNCHANGED <<incoming, outgoing>>
    BY <1>7
  <2>4. n \in outgoing
    BY DEF FileInv
  <2>5. FileInv'
    BY <1>7, <2>2 DEF FileInv
  <2>6. RequestInv'
    <3> SUFFICES ASSUME NEW v \in Workers
                 PROVE  AddInv(v)' /\ MovInv(v)' /\ DelInv(v)'
      BY DEF RequestInv
    <3>1. AddInv(v)' /\ MovInv(v)'
      BY <1>2, <1>4, <2>0 DEF AddInv, MovInv
    <3>2. DelInv(v)'
      BY <1>2, <1>3, <1>4, <1>5, <2>3 DEF DelInv
    <3> QED BY <3>1, <3>2
  <2>7. MoveInv'
    <3>1. ASSUME NEW v \in Workers, NEW r \in moving[v]
          PROVE  \A p \in Routes[r[1].chunk] :
                      <<r[1], p>> \in moving[v] \/ r[1] \in tasks'[p]
      <4>1. worker_id[r[1].chunk] = v /\ r[1].chunk \in Chunks
        BY <3>1, RangeTypes DEF MoveInv
      <4>2. r[1] # n
        BY <1>4, <1>5, <2>1, <3>1, <4>1
      <4>3. \A p \in Routes[r[1].chunk] : p \in OutputSet
        BY <4>1, Basics
      <4> QED BY <2>2, <3>1, <4>2, <4>3 DEF MoveInv
    <3> QED BY <1>4, <1>7, <3>1 DEF MoveInv
  <2>8. RouteInv'
    <3>1. ASSUME NEW m \in outgoing, NEW p \in OutputSet,
                 \/ p \in pend[m.chunk]
                 \/ <<m.chunk, p>> \in Range(ch_del_ref'[worker_id[m.chunk]])
          PROVE  m \in tasks'[p] \/ <<m, p>> \in moving[worker_id[m.chunk]]
      <4>1. worker_id[m.chunk] \in Workers
        BY DEF TypeInv, TypeOK, Names
      <4>2. m \in tasks[p] \/ <<m, p>> \in moving[worker_id[m.chunk]]
        BY <1>3, <3>1, <4>1 DEF RouteInv
      <4>3. ~(m = n /\ p = o)
        BY <1>3, <1>5, <2>1, <3>1
      <4> QED BY <2>2, <4>2, <4>3
    <3>2. /\ \A d \in Chunks : pend[d] \subseteq Routes[d]
          /\ \A d \in Chunks : task[d] # "live" => pend[d] = {}
      BY DEF RouteInv
    <3> QED BY <1>4, <1>7, <3>1, <3>2 DEF RouteInv
  <2>9. BackedUp'
    <3>1. ASSUME NEW d \in promoted, NEW p \in Routes[d], <<d, p>> \notin popped
          PROVE  \E m \in outgoing : m.chunk = d /\ m \in tasks'[p]
      <4>1. PICK m \in outgoing : m.chunk = d /\ m \in tasks[p]
        BY <3>1 DEF BackedUp
      <4>2. ~(m = n /\ p = o)
        BY <1>5, <2>1, <3>1, <4>1
      <4>3. p \in OutputSet
        BY <3>1, Basics DEF TypeInv, TypeOK
      <4> QED BY <2>2, <4>1, <4>2, <4>3
    <3> QED BY <1>4, <1>7, <3>1 DEF BackedUp
  <2> QED BY <2>5, <2>6, <2>7, <2>8, <2>9
<1> QED BY <1>1, <1>6, <1>7

LEMMA DeleteDisk ==
  ASSUME BufInv, NEW w \in Workers, flb_buffer_chunk_delete(w) PROVE DiskInv'
<1> USE DEF BufInv, DiskInv
<1> DEFINE c == Head(ch_del[w])
<1>1. \A v \in Workers : AddInv(v) /\ MovInv(v) /\ DelInv(v)
  BY DEF RequestInv
<1>2. /\ c \in Chunks /\ c \in Range(ch_del[w])
      /\ \A v \in Workers : Range(ch_del'[v]) \subseteq Range(ch_del[v])
  <2>1. ch_del[w] # <<>> /\ ch_del' = [ch_del EXCEPT ![w] = Tail(@)]
    BY DEF flb_buffer_chunk_delete, Takes, TypeInv, ReadyInv
  <2>2. ch_del \in [Workers -> Seq(Chunks)]
    BY DEF TypeInv, TypeOK
  <2>3. /\ Head(ch_del[w]) \in Chunks /\ Head(ch_del[w]) \in Range(ch_del[w])
        /\ Range(ch_del[w]) = Range(Tail(ch_del[w])) \union {Head(ch_del[w])}
    BY <2>1, <2>2, TailRange
  <2>4. \A v \in Workers : ch_del'[v] = IF v = w THEN Tail(ch_del[w]) ELSE ch_del[v]
    BY <2>1, <2>2
  <2> QED BY <2>3, <2>4
<1>3. /\ moving[w] = {}
      /\ UNCHANGED <<incoming, tasks, task, pend, worker_id, ch_add, ch_mov, ch_del_ref,
                     moving, promoted, popped>>
  BY DEF flb_buffer_chunk_delete, Takes, engine, taskVars, history
<1>4. /\ outgoing' \subseteq outgoing
      /\ \A n \in outgoing : n \notin outgoing' =>
           n.chunk = c /\ \A o \in OutputSet : n \notin tasks[o]
  BY DEF flb_buffer_chunk_delete, UnlinkUnreferenced, Referenced, Find
<1>5. worker_id[c] = w
  BY <1>1, <1>2 DEF DelInv
<1> HIDE DEF c
<1>6. FileInv'
  BY <1>3, <1>4 DEF FileInv
<1>7. RequestInv'
  <2> SUFFICES ASSUME NEW v \in Workers
               PROVE  AddInv(v)' /\ MovInv(v)' /\ DelInv(v)'
    BY DEF RequestInv
  <2>1. AddInv(v)' /\ MovInv(v)'
    BY <1>1, <1>3, <1>4 DEF AddInv, MovInv
  <2>2. DelInv(v)'
    BY <1>1, <1>2, <1>3 DEF DelInv
  <2> QED BY <2>1, <2>2
<1>8. MoveInv'
  BY <1>3, <1>4, <1>5 DEF MoveInv
<1>9. RouteInv'
  BY <1>3, <1>4 DEF RouteInv
<1>10. BackedUp'
  <2>1. \A d \in promoted : \A o \in Routes[d] : o \in OutputSet
    BY Basics DEF TypeInv, TypeOK
  <2> QED BY <1>3, <1>4, <2>1 DEF BackedUp
<1> QED BY <1>6, <1>7, <1>8, <1>9, <1>10

-----------------------------------------------------------------------------
(* The queue, its ids and the tasks made of them.                          *)

LEMMA QuietSame ==
  ASSUME NEW c, UNCHANGED <<ch_add, ch_mov, ch_del, ch_del_ref, moving>>
  PROVE  Quiet(c)' <=> Quiet(c)
BY DEF Quiet

LEMMA QuietEmpty ==
  ASSUME NEW c, \A w \in Workers : /\ ch_add'[w] = <<>> /\ ch_mov'[w] = <<>>
                                   /\ ch_del'[w] = <<>> /\ ch_del_ref'[w] = <<>>
                                   /\ moving'[w] = {}
  PROVE  Quiet(c)'
BY EmptyRange DEF Quiet

memVars == <<incoming, outgoing, tasks, life, task, ref_id, ch_manager, walk, queue,
             qch, refused, ch_add, ch_mov, ch_del, ch_del_ref, moving>>

LEMMA MemSame == ASSUME MemInv, UNCHANGED memVars PROVE MemInv'
<1> USE DEF MemInv, memVars
<1>0. \A c : Quiet(c)' <=> Quiet(c)
  BY QuietSame
<1>1. FreshInv'
  BY <1>0 DEF FreshInv
<1>2. EntryInv'
  BY <1>0 DEF EntryInv, Waiting
<1>3. IdInv'
  BY DEF IdInv, InUse
<1> QED BY <1>1, <1>2, <1>3

\* A worker's step concerns one chunk, about which it had something to do.
About(d) ==
  /\ \A w \in Workers :
       /\ \A x \in Range(ch_add'[w]) : x \in Range(ch_add[w]) \/ x = d
       /\ \A x \in Range(ch_del'[w]) : x \in Range(ch_del[w]) \/ x = d
       /\ \A n \in Range(ch_mov'[w]) : n \in Range(ch_mov[w]) \/ n.chunk = d
       /\ \A r \in Range(ch_del_ref'[w]) : r \in Range(ch_del_ref[w]) \/ r[1] = d
       /\ \A r \in moving'[w] : r \in moving[w] \/ r[1].chunk = d
  /\ \A n \in incoming' \union outgoing' : n \in incoming \union outgoing \/ n.chunk = d
  /\ \A n \in outgoing : n.chunk # d => n \in outgoing'
  /\ \A o \in OutputSet : \A n \in tasks[o] : n.chunk # d => n \in tasks'[o]

LEMMA QuietAbout ==
  ASSUME NEW c, NEW d, c # d, About(d), Quiet(c) PROVE Quiet(c)'
BY DEF Quiet, About

LEMMA WorkerMem ==
  ASSUME BufInv, NEW d \in Chunks, ~Quiet(d), About(d),
         UNCHANGED <<process, engine, qworker, refused>>
  PROVE  MemInv'
<1> USE DEF BufInv, MemInv
<1>1. UNCHANGED <<life, task, ref_id, ch_manager, walk, queue, qch, refused>>
  BY DEF process, engine, taskVars, qworker
<1>2. life # "down"
  BY DEF FreshInv
<1>3. FreshInv'
  BY <1>1, <1>2, QuietAbout DEF FreshInv, About
<1>4. EntryInv'
  <2>1. ASSUME NEW e \in Range(queue), Waiting(e)
        PROVE  /\ Quiet(e.name.chunk)' /\ e.name \in outgoing'
               /\ \A o \in e.routes : e.name \in tasks'[o]
    <3>1. /\ Quiet(e.name.chunk) /\ e.name \in outgoing
          /\ \A o \in e.routes : e.name \in tasks[o]
      BY <2>1 DEF EntryInv
    <3>2. e.name.chunk # d
      BY <3>1
    <3>3. e.routes \subseteq OutputSet
      BY <2>1, EntryType DEF TypeInv
    <3> QED BY <3>1, <3>2, <3>3, QuietAbout DEF About
  <2> QED BY <1>1, <2>1 DEF EntryInv, Waiting
<1>5. IdInv'
  BY <1>1 DEF IdInv, InUse
<1> QED BY <1>3, <1>4, <1>5

LEMMA AddMem ==
  ASSUME BufInv, NEW w \in Workers, flb_buffer_chunk_add(w) PROVE MemInv'
<1> DEFINE c == Head(ch_add[w])
           n == [chunk |-> c, routes |-> Routes[c], w |-> w]
<1>1. ch_add[w] # <<>> /\ ch_add' = [ch_add EXCEPT ![w] = Tail(@)]
  BY DEF flb_buffer_chunk_add, Takes, BufInv, TypeInv, ReadyInv
<1>2. ch_add \in [Workers -> Seq(Chunks)] /\ ch_mov \in [Workers -> Seq(Names)]
  BY DEF BufInv, TypeInv, TypeOK
<1>3. /\ c \in Chunks /\ c \in Range(ch_add[w])
      /\ Range(Tail(ch_add[w])) \subseteq Range(ch_add[w])
  BY <1>1, <1>2, TailRange
<1>4. ~Quiet(c)
  BY <1>3 DEF Quiet
<1>5. UNCHANGED <<outgoing, tasks, process, engine, ch_del, ch_del_ref, moving, qworker,
                  refused>>
  BY DEF flb_buffer_chunk_add, history
<1>6. \A v \in Workers : Range(ch_add'[v]) \subseteq Range(ch_add[v])
  BY <1>1, <1>2, <1>3
<1>7. PICK stored \in {"nothing", "part", "all"} :
        /\ incoming' = IF stored = "nothing" THEN incoming ELSE incoming \union {n}
        /\ ch_mov' = IF stored = "all" THEN [ch_mov EXCEPT ![w] = Append(@, n)]
                     ELSE ch_mov
  BY DEF flb_buffer_chunk_add
<1>8. n.chunk = c /\ n \in Names
  BY <1>3, Basics DEF Names
<1> HIDE DEF c, n
<1>9. \A v \in Workers : \A m \in Range(ch_mov'[v]) : m \in Range(ch_mov[v]) \/ m.chunk = c
  <2>1. Range(Append(ch_mov[w], n)) = Range(ch_mov[w]) \union {n}
    BY <1>2, <1>8, AppendRange
  <2> QED BY <1>2, <1>7, <1>8, <2>1
<1>10. \A m \in incoming' : m \in incoming \/ m.chunk = c
  BY <1>7, <1>8
<1>11. About(c)
  BY <1>5, <1>6, <1>9, <1>10 DEF About
<1> QED BY <1>3, <1>4, <1>5, <1>11, WorkerMem

LEMMA MoveMem ==
  ASSUME BufInv, NEW w \in Workers, flb_buffer_chunk_real_move(w) PROVE MemInv'
<1> DEFINE n == Head(ch_mov[w])
<1>1. ch_mov[w] # <<>> /\ ch_mov' = [ch_mov EXCEPT ![w] = Tail(@)]
  BY DEF flb_buffer_chunk_real_move, Takes, BufInv, TypeInv, ReadyInv
<1>2. ch_mov \in [Workers -> Seq(Names)]
  BY DEF BufInv, TypeInv, TypeOK
<1>3. /\ n \in Names /\ n \in Range(ch_mov[w])
      /\ Range(Tail(ch_mov[w])) \subseteq Range(ch_mov[w])
  BY <1>1, <1>2, TailRange
<1>4. ~Quiet(n.chunk) /\ n.chunk \in Chunks
  BY <1>3 DEF Quiet, Names
<1>5. UNCHANGED <<tasks, process, engine, ch_add, ch_del, ch_del_ref, qworker, refused>>
  BY DEF flb_buffer_chunk_real_move, history
<1>6. \A v \in Workers : Range(ch_mov'[v]) \subseteq Range(ch_mov[v])
  BY <1>1, <1>2, <1>3
<1>7. \/ UNCHANGED <<incoming, outgoing, moving>>
      \/ /\ incoming' = incoming \ {n} /\ outgoing' = outgoing \union {n}
         /\ moving' = [moving EXCEPT ![w] = RefsOf(n)]
  BY DEF flb_buffer_chunk_real_move, Rename
<1> HIDE DEF n
<1>8. \A v \in Workers : \A r \in moving'[v] : r \in moving[v] \/ r[1].chunk = n.chunk
  <2>1. \A r \in RefsOf(n) : r[1] = n
    BY DEF RefsOf
  <2>2. \A v \in Workers : moving'[v] = moving[v] \/ moving'[v] = RefsOf(n)
    BY <1>7 DEF BufInv, TypeInv, TypeOK
  <2> QED BY <2>1, <2>2
<1>9. About(n.chunk)
  BY <1>5, <1>6, <1>7, <1>8 DEF About
<1> QED BY <1>4, <1>5, <1>9, WorkerMem

LEMMA ReferenceMem ==
  ASSUME BufInv, NEW w \in Workers, Reference(w) PROVE MemInv'
<1>1. PICK n \in Names, o \in OutputSet :
           /\ n.chunk \in Chunks /\ <<n, o>> \in moving[w]
           /\ \/ tasks' = [tasks EXCEPT ![o] = @ \union {n}]
              \/ RefMayFail /\ tasks' = tasks
           /\ promoted' = IF moving[w] = {<<n, o>>} THEN promoted \union {n.chunk}
                                                    ELSE promoted
           /\ moving' = [moving EXCEPT ![w] = @ \ {<<n, o>>}]
  BY ReferenceStep DEF BufInv
<1>2. ~Quiet(n.chunk)
  BY <1>1 DEF Quiet
<1>3. UNCHANGED <<incoming, outgoing, process, engine, ch_add, ch_mov, ch_del, ch_del_ref,
                  qworker, refused>>
  BY DEF Reference, channels
<1>4. \A v \in Workers : moving'[v] \subseteq moving[v]
  BY <1>1 DEF BufInv, TypeInv, TypeOK
<1>5. \A p \in OutputSet : tasks[p] \subseteq tasks'[p]
  <2>1. tasks \in [OutputSet -> SUBSET Names]
    BY DEF BufInv, TypeInv, TypeOK
  <2>2. \/ tasks' = tasks
        \/ \A p \in OutputSet : tasks'[p] = IF p = o THEN tasks[p] \union {n} ELSE tasks[p]
    BY <1>1, <2>1
  <2> QED BY <2>2
<1>6. About(n.chunk)
  BY <1>3, <1>4, <1>5 DEF About
<1> QED BY <1>1, <1>2, <1>3, <1>6, WorkerMem

LEMMA DeleteRefMem ==
  ASSUME BufInv, NEW w \in Workers, flb_buffer_chunk_delete_ref(w) PROVE MemInv'
<1> USE DEF BufInv
<1>1. PICK c \in Chunks, o \in OutputSet :
           /\ Head(ch_del_ref[w]) = <<c, o>> /\ <<c, o>> \in Range(ch_del_ref[w])
           /\ ch_del_ref' = [ch_del_ref EXCEPT ![w] = Tail(@)]
           /\ \/ /\ \A n \in tasks[o] : n.chunk # c
                 /\ chunk_miss(c, o) /\ UNCHANGED <<tasks, ch_del>>
              \/ /\ \E n \in tasks[o] :
                      n.chunk = c /\ tasks' = [tasks EXCEPT ![o] = @ \ {n}]
                 /\ ch_del' = [ch_del EXCEPT ![w] = Append(@, c)]
                 /\ UNCHANGED <<incoming, outgoing>>
  BY DeleteRefStep
<1>2. ~Quiet(c)
  <2>1. <<c, o>>[1] = c
    OBVIOUS
  <2> QED BY <1>1, <2>1 DEF Quiet
<1>3. UNCHANGED <<process, engine, ch_add, ch_mov, moving, qworker, refused>>
  BY DEF flb_buffer_chunk_delete_ref, history
<1>4. \A v \in Workers : Range(ch_del_ref'[v]) \subseteq Range(ch_del_ref[v])
  <2> DEFINE R == Chunks \X OutputSet
  <2>1. ch_del_ref[w] # <<>> /\ ch_del_ref \in [Workers -> Seq(R)]
    BY DEF flb_buffer_chunk_delete_ref, Takes, TypeInv, ReadyInv, TypeOK
  <2> HIDE DEF R
  <2>2. Range(Tail(ch_del_ref[w])) \subseteq Range(ch_del_ref[w])
    BY <2>1, TailRange
  <2> QED BY <1>1, <2>1, <2>2
<1>5. CASE chunk_miss(c, o) /\ UNCHANGED <<tasks, ch_del>>
  <2>0. incoming \in SUBSET Names /\ outgoing \in SUBSET Names
    BY DEF TypeInv, TypeOK
  <2>1. /\ \A n \in incoming' \union outgoing' : n \in incoming \union outgoing \/ n.chunk = c
        /\ \A n \in outgoing : n.chunk # c => n \in outgoing'
    <3>1. CASE incoming' = incoming /\ outgoing' = outgoing
      BY <3>1
    <3>2. CASE \E n \in outgoing : /\ n.chunk = c /\ outgoing' = RemoveRoute(outgoing, n, o)
                                   /\ incoming' = incoming
      BY <2>0, <3>2, RemoveRouteChunk
    <3>3. CASE \E n \in incoming : /\ n.chunk = c /\ incoming' = RemoveRoute(incoming, n, o)
                                   /\ outgoing' = outgoing
      BY <2>0, <3>3, RemoveRouteChunk
    <3> QED BY <1>5, <3>1, <3>2, <3>3, MissStep
  <2>2. About(c)
    BY <1>3, <1>4, <1>5, <2>1 DEF About
  <2> QED BY <1>2, <1>3, <2>2, WorkerMem
<1>6. CASE /\ \E n \in tasks[o] :
                n.chunk = c /\ tasks' = [tasks EXCEPT ![o] = @ \ {n}]
           /\ ch_del' = [ch_del EXCEPT ![w] = Append(@, c)]
           /\ UNCHANGED <<incoming, outgoing>>
  <2>1. \A p \in OutputSet : \A n \in tasks[p] : n.chunk # c => n \in tasks'[p]
    BY <1>6 DEF TypeInv, TypeOK
  <2>2. \A v \in Workers : \A x \in Range(ch_del'[v]) : x \in Range(ch_del[v]) \/ x = c
    <3>1. Range(Append(ch_del[w], c)) = Range(ch_del[w]) \union {c}
      BY RangeTypes, AppendRange
    <3>2. \A v \in Workers : ch_del'[v] = IF v = w THEN Append(ch_del[w], c) ELSE ch_del[v]
      BY <1>6 DEF TypeInv, TypeOK
    <3>3. \A v \in Workers : Range(ch_del'[v]) = IF v = w THEN Range(ch_del[w]) \union {c}
                                                      ELSE Range(ch_del[v])
      BY <3>1, <3>2
    <3> QED BY <3>3
  <2>3. UNCHANGED <<incoming, outgoing>>
    BY <1>6
  <2>4. About(c)
    BY <1>3, <1>4, <2>1, <2>2, <2>3 DEF About
  <2> QED BY <1>2, <1>3, <2>4, WorkerMem
<1> QED BY <1>1, <1>5, <1>6

LEMMA DeleteMem ==
  ASSUME BufInv, NEW w \in Workers, flb_buffer_chunk_delete(w) PROVE MemInv'
<1> DEFINE c == Head(ch_del[w])
<1>1. ch_del[w] # <<>> /\ ch_del' = [ch_del EXCEPT ![w] = Tail(@)]
  BY DEF flb_buffer_chunk_delete, Takes, BufInv, TypeInv, ReadyInv
<1>2. ch_del \in [Workers -> Seq(Chunks)]
  BY DEF BufInv, TypeInv, TypeOK
<1>3. /\ c \in Chunks /\ c \in Range(ch_del[w])
      /\ Range(Tail(ch_del[w])) \subseteq Range(ch_del[w])
  BY <1>1, <1>2, TailRange
<1>4. ~Quiet(c)
  BY <1>3 DEF Quiet
<1>5. UNCHANGED <<incoming, tasks, process, engine, ch_add, ch_mov, ch_del_ref, moving,
                  qworker, refused>>
  BY DEF flb_buffer_chunk_delete, history
<1>6. \A v \in Workers : Range(ch_del'[v]) \subseteq Range(ch_del[v])
  BY <1>1, <1>2, <1>3
<1>7. /\ outgoing' \subseteq outgoing
      /\ \A n \in outgoing : n.chunk # c => n \in outgoing'
  BY DEF flb_buffer_chunk_delete, UnlinkUnreferenced, Find
<1> HIDE DEF c
<1>8. About(c)
  BY <1>5, <1>6, <1>7 DEF About
<1> QED BY <1>3, <1>4, <1>5, <1>8, WorkerMem

\* A request to give an entry back is in the pipe at most once.
LEMMA PopAppend ==
  ASSUME NEW S, NEW s \in Seq(S), NEW e \in S, PopOnce(s),
         e[1] = "POP" => e \notin Range(s)
  PROVE  PopOnce(Append(s, e))
<1>1. /\ DOMAIN Append(s, e) = 1..(Len(s) + 1) /\ DOMAIN s = 1..Len(s) /\ Len(s) \in Nat
      /\ \A i \in 1..Len(s) : Append(s, e)[i] = s[i] /\ s[i] \in Range(s)
      /\ Append(s, e)[Len(s) + 1] = e
  BY SeqElem
<1> DEFINE t == Append(s, e)
<1>2. \A i, j \in 1..(Len(s) + 1) : t[i] = t[j] /\ t[i][1] = "POP" => i = j
  <2> SUFFICES ASSUME NEW i \in 1..(Len(s) + 1), NEW j \in 1..(Len(s) + 1),
                      t[i] = t[j], t[i][1] = "POP"
               PROVE  i = j
    OBVIOUS
  <2> HIDE DEF t
  <2>1. i \in 1..Len(s) \/ i = Len(s) + 1
    BY <1>1
  <2>2. j \in 1..Len(s) \/ j = Len(s) + 1
    BY <1>1
  <2>3. CASE i \in 1..Len(s) /\ j \in 1..Len(s)
    BY <1>1, <2>3 DEF PopOnce, t
  <2>4. CASE i \in 1..Len(s) /\ j = Len(s) + 1
    BY <1>1, <2>4 DEF t
  <2>5. CASE j \in 1..Len(s) /\ i = Len(s) + 1
    BY <1>1, <2>5 DEF t
  <2> QED BY <2>1, <2>2, <2>3, <2>4, <2>5
<1> QED BY <1>1, <1>2 DEF PopOnce

LEMMA PopTail ==
  ASSUME NEW S, NEW s \in Seq(S), s # <<>>, PopOnce(s)
  PROVE  /\ PopOnce(Tail(s))
         /\ Head(s)[1] = "POP" => Head(s) \notin Range(Tail(s))
<1>1. /\ Len(s) \in Nat /\ Len(s) >= 1 /\ Head(s) = s[1]
      /\ DOMAIN s = 1..Len(s) /\ DOMAIN Tail(s) = 1..(Len(s) - 1)
      /\ \A i \in 1..(Len(s) - 1) : Tail(s)[i] = s[i + 1] /\ i + 1 \in 1..Len(s)
  OBVIOUS
<1>2. PopOnce(Tail(s))
  <2> SUFFICES ASSUME NEW i \in 1..(Len(s) - 1), NEW j \in 1..(Len(s) - 1),
                      Tail(s)[i] = Tail(s)[j], Tail(s)[i][1] = "POP"
               PROVE  i = j
    BY <1>1 DEF PopOnce
  <2>1. i + 1 = j + 1
    BY <1>1 DEF PopOnce
  <2> QED BY <1>1, <2>1
<1>3. ASSUME Head(s)[1] = "POP", Head(s) \in Range(Tail(s)) PROVE FALSE
  <2>1. PICK i \in 1..(Len(s) - 1) : Tail(s)[i] = Head(s)
    BY <1>1, <1>3 DEF Range
  <2>2. 1 = i + 1
    BY <1>1, <1>3, <2>1 DEF PopOnce
  <2> QED BY <1>1, <2>2
<1> QED BY <1>2, <1>3

LEMMA InUseRange ==
  ASSUME TypeOK PROVE \A id : InUse(id) <=> \E e \in Range(queue) : e.id = id
BY EntryType DEF InUse

\* An entry is determined by its chunk, and by its id once it has one.
LEMMA OneEntry ==
  ASSUME TypeOK, EntryInv, NEW e \in Range(queue), NEW x \in Range(queue),
         e.name.chunk = x.name.chunk \/ (e.id = x.id /\ e.id > 0)
  PROVE  e = x
<1>1. PICK i \in 1..Len(queue), j \in 1..Len(queue) : queue[i] = e /\ queue[j] = x
  BY EntryType
<1>2. DOMAIN queue = 1..Len(queue)
  BY EntryType
<1>3. i = j
  BY <1>1, <1>2 DEF EntryInv
<1> QED BY <1>1, <1>3

LEMMA VanishMem == ASSUME BufInv, Vanish PROVE MemInv'
<1> USE DEF BufInv, MemInv
<1>1. \A c : Quiet(c)'
  BY QuietEmpty DEF Vanish
<1>2. Range(queue') = {} /\ DOMAIN queue' = {}
  BY EmptyRange DEF Vanish
<1>3. /\ incoming' = incoming /\ outgoing' = outgoing /\ life' = "down"
      /\ ch_manager' = <<>> /\ walk'.at = {} /\ qch' = <<>>
  BY DEF Vanish, files, NoWalk
<1>4. \A c \in Chunks : /\ task'[c] # "live" /\ ref_id'[c] = 0
                        /\ task'[c] = "none" => task[c] = "none"
  BY DEF Vanish
<1>5. FreshInv'
  BY <1>1, <1>2, <1>3, <1>4 DEF FreshInv
<1>6. EntryInv'
  BY <1>2 DEF EntryInv
<1>7. IdInv'
  BY <1>3, <1>4 DEF IdInv
<1> QED BY <1>5, <1>6, <1>7

LEMMA DestroyMem == ASSUME BufInv, flb_buffer_destroy PROVE MemInv'
<1> USE DEF BufInv, MemInv
<1>1. \A c : Quiet(c)'
  BY QuietEmpty DEF flb_buffer_destroy, Ended
<1>2. Range(queue') = {} /\ DOMAIN queue' = {}
  BY EmptyRange DEF flb_buffer_destroy
<1>3. /\ UNCHANGED <<incoming, outgoing, task, ref_id, ch_manager, walk>>
      /\ life = "stopping" /\ life' = "freed"
  BY DEF flb_buffer_destroy, files, engine, taskVars
<1>4. FreshInv'
  BY <1>1, <1>2, <1>3 DEF FreshInv
<1>5. EntryInv'
  BY <1>2 DEF EntryInv
<1>6. IdInv'
  BY <1>3 DEF IdInv
<1> QED BY <1>4, <1>5, <1>6

\* What a start finds is loaded by nobody, and nothing is on its way.
LEMMA StartMem == ASSUME BufInv, Start PROVE MemInv'
<1> USE DEF BufInv, MemInv
<1> DEFINE F == {n \in outgoing : PendingRoutes(n) # {}}
<1>1. IsFiniteSet(F)
  BY FS_Subset DEF TypeInv, ReadyInv
<1>2. PICK s \in SetToSeqs(F) :
        queue' = [i \in 1..Len(s) |-> flb_buffer_qchunk_add(s[i])]
  BY DEF Start
<1>3. s \in Seq(F) /\ IsInjective(s)
  BY <1>1, EnumSeq
<1>4. /\ DOMAIN queue' = 1..Len(s) /\ DOMAIN s = 1..Len(s)
      /\ \A i \in 1..Len(s) : /\ s[i] \in outgoing /\ queue'[i].name = s[i]
                              /\ queue'[i].id = 0
                              /\ queue'[i].routes = Referenced(s[i])
  BY <1>2, <1>3 DEF flb_buffer_qchunk_add, PendingRoutes
<1>5. \A e \in Range(queue') : /\ e.name \in outgoing /\ e.id = 0
                               /\ e.routes = Referenced(e.name)
  BY <1>4 DEF Range
<1>6. /\ UNCHANGED <<incoming, outgoing, tasks, task, ref_id, ch_manager, walk, qch>>
      /\ UNCHANGED <<ch_add, ch_mov, ch_del, ch_del_ref, moving>>
      /\ life = "down" /\ life' = "up"
  BY DEF Start, files, taskVars, channels
<1>7. /\ \A c \in Chunks : task[c] # "live" /\ ref_id[c] = 0 /\ Quiet(c)'
      /\ ch_manager = <<>> /\ walk.at = {} /\ qch = <<>>
  BY <1>6, QuietSame DEF FreshInv
<1>8. \A n \in outgoing : n.chunk \in Chunks /\ task[n.chunk] = "gone"
  <2> TAKE n \in outgoing
  <2>1. n.chunk \in Chunks
    BY DEF TypeInv, TypeOK, Names
  <2>2. task[n.chunk] # "none" /\ task[n.chunk] # "live"
    BY <1>7, <2>1 DEF FreshInv
  <2> QED BY <2>1, <2>2 DEF TypeInv, TypeOK
<1>9. FreshInv'
  BY <1>5, <1>6, <1>7, <1>8 DEF FreshInv
<1>10. EntryInv'
  <2>1. \A i, j \in 1..Len(s) : queue'[i].name.chunk = queue'[j].name.chunk => i = j
    BY <1>3, <1>4 DEF DiskInv, FileInv, IsInjective
  <2>2. \A i \in 1..Len(s) : ~(queue'[i].id > 0)
    BY <1>4
  <2>3. \A e \in Range(queue') :
          /\ task'[e.name.chunk] = "gone" /\ Quiet(e.name.chunk)'
          /\ e.name \in outgoing' /\ \A o \in e.routes : e.name \in tasks'[o]
          /\ ~(e.id > 0)
    BY <1>5, <1>6, <1>7, <1>8 DEF Referenced
  <2> QED BY <1>4, <2>1, <2>2, <2>3 DEF EntryInv
<1>11. IdInv'
  <2>1. Range(ch_manager') = {} /\ Range(qch') = {} /\ IsInjective(ch_manager')
    BY <1>6, <1>7, EmptyRange
  <2>2. PopOnce(qch')
    BY <1>6, <1>7 DEF PopOnce
  <2> QED BY <1>6, <1>7, <2>1, <2>2 DEF IdInv
<1> QED BY <1>9, <1>10, <1>11

LEMMA CreateMem ==
  ASSUME BufInv, NEW c \in Chunks, Create(c) PROVE MemInv'
<1> USE DEF BufInv, MemInv
<1>1. NextWorker \in Workers /\ ch_add \in [Workers -> Seq(Chunks)]
  BY NextWorkerType DEF TypeInv, TypeOK
<1>2. /\ ch_add' = [ch_add EXCEPT ![NextWorker] = Append(@, c)]
      /\ task' = [task EXCEPT ![c] = "live"] /\ task[c] = "none" /\ life = "up"
      /\ UNCHANGED <<incoming, outgoing, tasks, life, ref_id, ch_manager, walk, queue, qch,
                     ch_mov, ch_del, ch_del_ref, moving, refused>>
  BY DEF Create, files, process, qworker, history
<1>3. Range(Append(ch_add[NextWorker], c)) = Range(ch_add[NextWorker]) \union {c}
  BY <1>1, AppendRange
<1>4. \A w \in Workers : \A x \in Range(ch_add'[w]) : x \in Range(ch_add[w]) \/ x = c
  BY <1>1, <1>2, <1>3
<1>5. About(c)
  BY <1>2, <1>4 DEF About
<1>6. \A d \in Chunks : task'[d] = IF d = c THEN "live" ELSE task[d]
  BY <1>2 DEF TypeInv, TypeOK
<1>7. FreshInv'
  BY <1>2, <1>5, <1>6, QuietAbout DEF FreshInv
<1>8. \A e \in Range(queue) : e.name.chunk # c /\ e.name.chunk \in Chunks
  BY <1>2, EntryType DEF FreshInv, TypeInv
<1>9. EntryInv'
  BY <1>2, <1>5, <1>6, <1>8, QuietAbout DEF EntryInv, Waiting
<1>10. IdInv'
  BY <1>2, <1>6 DEF IdInv, InUse
<1> QED BY <1>7, <1>9, <1>10

\* A destroyed task gives its id back; nobody else has it.
LEMMA ResultMem ==
  ASSUME BufInv, NEW c \in Chunks, NEW o \in OutputSet, NEW ret, Result(c, o, ret)
  PROVE  MemInv'
<1> USE DEF BufInv, MemInv
<1>1. /\ task[c] = "live" /\ life \in {"up", "freed"}
      /\ \A d \in Chunks : d # c => task'[d] = task[d] /\ ref_id'[d] = ref_id[d]
      /\ \/ /\ task'[c] = "gone" /\ pend'[c] = {} /\ ref_id'[c] = 0
            /\ qch' = IF ref_id[c] > 0 THEN Append(qch, <<"POP", ref_id[c]>>) ELSE qch
         \/ task' = task /\ ref_id' = ref_id /\ qch' = qch
      /\ \/ UNCHANGED <<popped, ch_del_ref>>
         \/ flb_buffer_chunk_pop(c, o)
  BY ResultStep
<1>2. /\ UNCHANGED <<incoming, outgoing, tasks, life, ch_manager, walk, queue, ch_add,
                     ch_mov, ch_del, moving, refused>>
      /\ walk.at = {}
  BY DEF Result, files, process, EngineIdle
<1>3. \A w \in Workers : \A r \in Range(ch_del_ref'[w]) :
        r \in Range(ch_del_ref[w]) \/ r[1] = c
  <2>1. CASE UNCHANGED ch_del_ref
    BY <2>1
  <2>2. CASE flb_buffer_chunk_pop(c, o)
    <3> DEFINE R == Chunks \X OutputSet
               r0 == <<c, o>>
    <3>1. r0 \in R /\ r0[1] = c
      OBVIOUS
    <3>2. worker_id[c] \in Workers /\ ch_del_ref \in [Workers -> Seq(R)]
      BY DEF TypeInv, TypeOK
    <3>3. ch_del_ref' = [ch_del_ref EXCEPT ![worker_id[c]] = Append(@, r0)]
      BY <2>2 DEF flb_buffer_chunk_pop
    <3> HIDE DEF R, r0
    <3>4. Range(Append(ch_del_ref[worker_id[c]], r0))
            = Range(ch_del_ref[worker_id[c]]) \union {r0}
      BY <3>1, <3>2, AppendRange
    <3> QED BY <3>1, <3>2, <3>3, <3>4
  <2> QED BY <1>1, <2>1, <2>2
<1>4. About(c)
  BY <1>2, <1>3 DEF About
<1>5. task'[c] # "none"
  BY <1>1
<1>6. FreshInv'
  BY <1>1, <1>2, <1>4, <1>5, QuietAbout DEF FreshInv
<1>7. EntryInv'
  <2>1. ASSUME NEW e \in Range(queue), Waiting(e)
        PROVE  task'[e.name.chunk] = "gone" /\ Quiet(e.name.chunk)'
    <3>1. task[e.name.chunk] = "gone" /\ Quiet(e.name.chunk)
      BY <2>1 DEF EntryInv
    <3>2. e.name.chunk # c /\ e.name.chunk \in Chunks
      BY <1>1, <3>1, EntryType DEF TypeInv
    <3> QED BY <1>1, <1>4, <3>1, <3>2, QuietAbout
  <2> QED BY <1>2, <2>1 DEF EntryInv, Waiting
<1>8. CASE qch' = qch /\ \A d \in Chunks : ref_id'[d] > 0 => ref_id'[d] = ref_id[d] /\ task'[d] = "live"
  <2>1. IdInv'
    BY <1>2, <1>8 DEF IdInv, InUse
  <2> QED BY <1>6, <1>7, <2>1
<1>9. CASE /\ task'[c] = "gone" /\ ref_id'[c] = 0 /\ ref_id[c] > 0
           /\ qch' = Append(qch, <<"POP", ref_id[c]>>)
  <2> DEFINE k == ref_id[c]
             q0 == <<"POP", k>>
  <2>1. qch \in Seq(Requests) /\ q0 \in Requests /\ q0[1] = "POP" /\ q0[2] = k
    BY DEF TypeInv, TypeOK, Requests
  <2>2. /\ life = "up" /\ k \notin Range(ch_manager) /\ q0 \notin Range(qch)
        /\ \E e \in Range(queue) : e.id = k /\ e.name.chunk = c
    BY <1>9 DEF IdInv
  <2>3. \A d \in Chunks : d # c /\ ref_id[d] > 0 => ref_id[d] # k
    <3> SUFFICES ASSUME NEW d \in Chunks, d # c, ref_id[d] > 0, ref_id[d] = k PROVE FALSE
      OBVIOUS
    <3>1. PICK e \in Range(queue) : e.id = k /\ e.name.chunk = c
      BY <2>2
    <3> HIDE DEF k
    <3>2. \E x \in Range(queue) : x.id = ref_id[d] /\ x.name.chunk = d
      BY DEF IdInv
    <3>3. PICK x \in Range(queue) : x.id = k /\ x.name.chunk = d
      BY <3>2
    <3> QED BY <1>9, <3>1, <3>3, OneEntry DEF TypeInv, k
  <2>4. qch' = Append(qch, q0)
    BY <1>9
  <2>5. \A d \in Chunks : q0 = <<"POP", ref_id[d]>> => ref_id[d] = k
    BY <2>1
  <2> HIDE DEF q0
  <2>7. Range(qch') = Range(qch) \union {q0} /\ PopOnce(qch')
    BY <1>2, <2>1, <2>2, <2>4, AppendRange, PopAppend DEF IdInv
  <2>8. InUse(k)
    BY <2>2, InUseRange DEF TypeInv
  <2>9. IdInv'
    <3>1. /\ IsInjective(ch_manager)
          /\ \A id \in Range(ch_manager) : id > 0 /\ InUse(id)'
      BY <1>2, <2>2 DEF IdInv, InUse
    <3>2. \A q \in Range(qch') : q[1] = "POP" =>
            /\ q[2] > 0 /\ InUse(q[2])' /\ q[2] \notin Range(ch_manager)
      <4> TAKE q \in Range(qch')
      <4>1. CASE q \in Range(qch)
        BY <1>2, <2>2, <4>1 DEF IdInv, InUse
      <4>2. CASE q = q0
        BY <1>2, <1>9, <2>1, <2>2, <2>8, <4>2 DEF InUse
      <4> QED BY <2>7, <4>1, <4>2
    <3>3. \A d \in Chunks : ref_id'[d] > 0 =>
            /\ d # c /\ ref_id'[d] = ref_id[d] /\ task'[d] = task[d]
            /\ <<"POP", ref_id[d]>> # q0
      BY <1>1, <1>9, <2>3, <2>5
    <3>4. \A d \in Chunks : ref_id'[d] > 0 =>
            /\ life = "up" /\ task'[d] = "live"
            /\ \E e \in Range(queue) : e.id = ref_id'[d] /\ e.name.chunk = d
            /\ ref_id'[d] \notin Range(ch_manager)
            /\ <<"POP", ref_id'[d]>> \notin Range(qch')
      BY <2>7, <3>3 DEF IdInv
    <3> QED BY <1>2, <2>7, <3>1, <3>2, <3>4 DEF IdInv
  <2> QED BY <1>6, <1>7, <2>9
<1>10. ref_id[c] > 0 \/ ref_id[c] = 0
  BY DEF TypeInv, TypeOK
<1>11. \A d \in Chunks : ref_id[d] > 0 => task[d] = "live"
  BY DEF IdInv
<1>12. CASE task' = task /\ ref_id' = ref_id /\ qch' = qch
  BY <1>8, <1>11, <1>12
<1>13. CASE task'[c] = "gone" /\ ref_id'[c] = 0 /\ ref_id[c] = 0 /\ qch' = qch
  BY <1>1, <1>8, <1>11, <1>13
<1> QED BY <1>1, <1>9, <1>10, <1>12, <1>13

LEMMA FlushMem == ASSUME BufInv, Flush PROVE MemInv'
<1> USE DEF BufInv, MemInv
<1> DEFINE q0 == <<"PUSH", 0>>
<1>1. /\ UNCHANGED <<incoming, outgoing, tasks, life, task, ref_id, ch_manager, walk, queue,
                     ch_add, ch_mov, ch_del, ch_del_ref, moving, refused>>
      /\ life = "up" /\ qch' = Append(qch, q0)
  BY DEF Flush, files, process, engine, taskVars, workers, channels, history
<1>2. qch \in Seq(Requests) /\ q0 \in Requests /\ q0[1] # "POP"
  BY DEF TypeInv, TypeOK, Requests
<1>3. \A id : <<"POP", id>> # q0
  OBVIOUS
<1> HIDE DEF q0
<1>4. Range(qch') = Range(qch) \union {q0} /\ PopOnce(qch')
  BY <1>1, <1>2, AppendRange, PopAppend DEF IdInv
<1>5. FreshInv'
  BY <1>1, QuietSame DEF FreshInv
<1>6. EntryInv'
  BY <1>1, QuietSame DEF EntryInv, Waiting
<1>7. IdInv'
  <2>1. \A q \in Range(qch') : q[1] = "POP" => q \in Range(qch)
    BY <1>2, <1>4
  <2>2. \A id : <<"POP", id>> \in Range(qch') => <<"POP", id>> \in Range(qch)
    BY <1>3, <1>4
  <2>3. \A id : InUse(id)' <=> InUse(id)
    BY <1>1 DEF InUse
  <2>4. /\ IsInjective(ch_manager)
        /\ \A id \in Range(ch_manager) : id > 0 /\ InUse(id)'
        /\ \A q \in Range(qch') : q[1] = "POP" =>
             /\ q[2] > 0 /\ InUse(q[2])' /\ q[2] \notin Range(ch_manager)
             /\ walk.at # {} => walk.key # q[2]
    BY <1>1, <2>1, <2>3 DEF IdInv
  <2>5. walk.at = {}
    BY DEF Flush
  <2>6. \A c \in Chunks : ref_id[c] > 0 =>
          /\ life = "up" /\ task[c] = "live"
          /\ \E e \in Range(queue) : e.id = ref_id[c] /\ e.name.chunk = c
          /\ ref_id[c] \notin Range(ch_manager)
          /\ <<"POP", ref_id[c]>> \notin Range(qch')
    BY <2>2 DEF IdInv
  <2> QED BY <1>1, <1>4, <2>4, <2>5, <2>6 DEF IdInv
<1> QED BY <1>5, <1>6, <1>7

\* The engine takes up an id and begins its walk; the id is nobody else's.
LEMMA EventMem == ASSUME BufInv, IdsFit, flb_buffer_engine_event PROVE MemInv'
<1> USE DEF BufInv, MemInv
<1> DEFINE h == Head(ch_manager)
<1>1. /\ UNCHANGED <<incoming, outgoing, tasks, life, task, ref_id, queue, qch, ch_add,
                     ch_mov, ch_del, ch_del_ref, moving, refused>>
      /\ life = "up" /\ ch_manager' = Tail(ch_manager) /\ ch_manager # <<>>
      /\ walk.at = {}
      /\ walk' = IF queue = <<>> THEN NoWalk
                 ELSE [key |-> FLB_BUFFER_EV_KEY(h), at |-> {queue[1].name}]
  BY DEF flb_buffer_engine_event, files, process, taskVars, workers, channels, qworker,
         history, EngineIdle
<1>2. /\ h \in Nat /\ h \in Range(ch_manager)
      /\ Range(ch_manager) = Range(ch_manager') \union {h}
      /\ IsInjective(ch_manager') /\ h \notin Range(ch_manager')
  BY <1>1, TailRange DEF TypeInv, TypeOK, IdInv
<1> HIDE DEF h
<1>3. PICK e0 \in Range(queue) : e0.id = h
  BY <1>1, <1>2, InUseRange DEF IdInv, TypeInv
<1>4. h > 0 /\ h < 4
  BY <1>1, <1>2, <1>3 DEF IdInv, IdsFit
<1>5. walk'.key = h /\ walk'.at # {}
  <2>1. queue # <<>>
    BY <1>3, EmptyRange
  <2> QED BY <1>1, <1>2, <1>4, <2>1, KeyOfId
<1>8. \A e : Waiting(e)' => Waiting(e)
  BY <1>2, <1>5 DEF Waiting
<1>9. FreshInv'
  BY <1>1, QuietSame DEF FreshInv
<1>10. EntryInv'
  BY <1>1, <1>8, QuietSame DEF EntryInv
<1>11. IdInv'
  <2>1. \A id \in Range(ch_manager') : id > 0 /\ InUse(id)'
    BY <1>1, <1>2 DEF IdInv, InUse
  <2>2. PopOnce(qch')
    BY <1>1 DEF IdInv
  <2>3. \A q \in Range(qch') : q[1] = "POP" =>
          /\ q[2] > 0 /\ InUse(q[2])' /\ q[2] \notin Range(ch_manager')
          /\ walk'.key # q[2]
    BY <1>1, <1>2, <1>5 DEF IdInv, InUse
  <2>4. InUse(walk.key)'
    BY <1>1, <1>3, <1>5, InUseRange DEF InUse, TypeInv
  <2>5. \A c \in Chunks : ref_id'[c] > 0 =>
          /\ life' = "up" /\ task'[c] = "live"
          /\ \E e \in Range(queue') : e.id = ref_id'[c] /\ e.name.chunk = c
          /\ ref_id'[c] \notin Range(ch_manager')
          /\ <<"POP", ref_id'[c]>> \notin Range(qch')
          /\ walk'.key # ref_id'[c]
    BY <1>1, <1>2, <1>5 DEF IdInv
  <2>6. life' = "up" /\ walk'.key > 0 /\ walk'.key \notin Range(ch_manager')
    BY <1>1, <1>2, <1>4, <1>5
  <2> QED BY <1>2, <2>1, <2>2, <2>3, <2>4, <2>5, <2>6 DEF IdInv
<1> QED BY <1>9, <1>10, <1>11

\* The walk reaches the entry it is for: it is made a task, or refused.
LEMMA PushMem == ASSUME BufInv, flb_buffer_qchunk_push PROVE MemInv'
<1> USE DEF BufInv, MemInv
<1>1. /\ UNCHANGED <<incoming, outgoing, tasks, life, queue, ch_manager, qch, ch_add,
                     ch_mov, ch_del, ch_del_ref, moving>>
      /\ life = "up" /\ walk.at # {}
  BY PushStep DEF flb_buffer_qchunk_push, files, process, workers, channels, qworker
<1>2. /\ walk.key > 0 /\ walk.key \notin Range(ch_manager) /\ walk.key \in Nat
  BY <1>1 DEF IdInv, TypeInv, TypeOK
<1>3. CASE /\ UNCHANGED <<taskVars, refused>>
           /\ \/ walk' = NoWalk
              \/ \E j \in 1..Len(queue) : walk' = [walk EXCEPT !.at = {queue[j].name}]
  <2>1. walk'.at = {} \/ (walk'.at # {} /\ walk'.key = walk.key)
    BY <1>3 DEF NoWalk, TypeInv, TypeOK
  <2>2. UNCHANGED <<task, ref_id>>
    BY <1>3 DEF taskVars
  <2>3. FreshInv'
    BY <1>1, <2>2, QuietSame DEF FreshInv
  <2>4. EntryInv'
    BY <1>1, <2>1, <2>2, QuietSame DEF EntryInv, Waiting
  <2>5. IdInv'
    BY <1>1, <2>1, <2>2 DEF IdInv, InUse
  <2> QED BY <2>3, <2>4, <2>5
<1>4. CASE /\ walk' = NoWalk
           /\ \E i \in 1..Len(queue) :
                /\ queue[i].id = walk.key
                /\ \/ flb_task_create_direct(queue[i]) /\ UNCHANGED refused
                   \/ /\ refused' = refused \union {queue[i].name.chunk}
                      /\ UNCHANGED taskVars
  <2>1. PICK e \in Range(queue) :
          /\ e.id = walk.key
          /\ \/ flb_task_create_direct(e) /\ UNCHANGED refused
             \/ /\ refused' = refused \union {e.name.chunk}
                /\ UNCHANGED taskVars
    BY <1>4, EntryType DEF TypeInv
  <2> DEFINE c == e.name.chunk
  <2>2. c \in Chunks
    BY EntryType DEF TypeInv
  <2>3. task[c] = "gone"
    BY <1>1, <2>1 DEF EntryInv, Waiting
  <2>4. walk'.at = {} /\ walk'.key = 0
    BY <1>4 DEF NoWalk
  <2>5. \A x \in Range(queue) : /\ x.id = walk.key => x = e
                                /\ x.name.chunk = c => x = e
                                /\ x.name.chunk \in Chunks
    BY <1>2, <2>1, OneEntry, EntryType DEF TypeInv
  <2>6. \A x \in Range(queue) : Waiting(x)' => Waiting(x) /\ x.id # walk.key
    BY <1>1, <1>2, <2>4 DEF Waiting
  <2>7. CASE flb_task_create_direct(e) /\ UNCHANGED refused
    <3>1. \A d \in Chunks : /\ task'[d] = IF d = c THEN "live" ELSE task[d]
                            /\ ref_id'[d] = IF d = c THEN walk.key ELSE ref_id[d]
      BY <2>1, <2>2, <2>7 DEF flb_task_create_direct, TypeInv, TypeOK
    <3>2. <<"POP", walk.key>> \notin Range(qch)
      <4> DEFINE q0 == <<"POP", walk.key>>
      <4>1. q0[1] = "POP" /\ q0[2] = walk.key
        OBVIOUS
      <4> HIDE DEF q0
      <4>2. q0 \notin Range(qch)
        BY <1>1, <4>1 DEF IdInv
      <4> QED BY <4>2 DEF q0
    <3>3. FreshInv'
      BY <1>1, <3>1, QuietSame DEF FreshInv
    <3>4. EntryInv'
      <4>1. ASSUME NEW x \in Range(queue), Waiting(x)'
            PROVE  /\ task'[x.name.chunk] = "gone" /\ Quiet(x.name.chunk)'
                   /\ x.name \in outgoing' /\ \A o \in x.routes : x.name \in tasks'[o]
        <5>1. Waiting(x) /\ x.name.chunk # c /\ x.name.chunk \in Chunks
          BY <2>1, <2>5, <2>6, <4>1
        <5> QED BY <1>1, <3>1, <5>1, QuietSame DEF EntryInv
      <4> QED BY <1>1, <4>1 DEF EntryInv
    <3>5. IdInv'
      BY <1>1, <1>2, <2>1, <2>4, <3>1, <3>2 DEF IdInv, InUse
    <3> QED BY <3>3, <3>4, <3>5
  <2>8. CASE refused' = refused \union {c} /\ UNCHANGED taskVars
    <3>1. UNCHANGED <<task, ref_id>>
      BY <2>8 DEF taskVars
    <3>2. FreshInv'
      BY <1>1, <2>4, <3>1, QuietSame DEF FreshInv
    <3>3. EntryInv'
      BY <1>1, <2>6, <3>1, QuietSame DEF EntryInv
    <3>4. IdInv'
      BY <1>1, <2>4, <3>1 DEF IdInv, InUse
        <3> QED BY <3>2, <3>3, <3>4
  <2> QED BY <2>1, <2>7, <2>8
<1> QED BY <1>3, <1>4, PushStep

\* The ids of the mapped tasks are given back before the request to end.
LEMMA StopMem == ASSUME BufInv, flb_buffer_stop PROVE MemInv'
<1> USE DEF BufInv, MemInv
<1>1. /\ UNCHANGED <<incoming, outgoing, tasks, ch_manager, walk, queue, ch_add, ch_mov,
                     ch_del, ch_del_ref, moving, refused>>
      /\ life = "up" /\ life' = "stopping" /\ walk.at = {}
      /\ \A c \in Chunks : /\ ref_id'[c] = 0
                           /\ task[c] # "live" => task'[c] = task[c]
                           /\ task'[c] = "none" => task[c] = "none"
  BY DEF flb_buffer_stop, files, history, EngineIdle
<1>2. PICK s \in Seq(Mapped) :
           /\ IsInjective(s)
           /\ qch' \in Seq(Requests) /\ DOMAIN qch' = 1..(Len(qch) + Len(s) + 1)
           /\ \A i \in 1..(Len(qch) + Len(s) + 1) :
                qch'[i] = IF i <= Len(qch) THEN qch[i]
                          ELSE IF i <= Len(qch) + Len(s)
                          THEN <<"POP", ref_id[s[i - Len(qch)]]>>
                          ELSE <<"STOP", 0>>
  BY StopSeq
<1>3. /\ Len(qch) \in Nat /\ Len(s) \in Nat /\ DOMAIN qch = 1..Len(qch)
      /\ DOMAIN s = 1..Len(s)
      /\ \A i \in 1..Len(qch) : qch[i] \in Range(qch)
      /\ \A i \in 1..Len(s) : s[i] \in Chunks /\ ref_id[s[i]] > 0
  <2>1. qch \in Seq(Requests)
    BY DEF TypeInv, TypeOK, Requests
  <2>2. /\ Len(qch) \in Nat /\ DOMAIN qch = 1..Len(qch)
        /\ \A i \in 1..Len(qch) : qch[i] \in Range(qch)
    BY <2>1, SeqElem
  <2>3. Len(s) \in Nat /\ DOMAIN s = 1..Len(s) /\ \A i \in 1..Len(s) : s[i] \in Mapped
    BY SeqElem
  <2> QED BY <2>2, <2>3 DEF Mapped
<1>4. \A i \in 1..(Len(qch) + Len(s) + 1) :
        \/ i \in 1..Len(qch) /\ qch'[i] = qch[i]
        \/ \E j \in 1..Len(s) : j = i - Len(qch) /\ qch'[i] = <<"POP", ref_id[s[j]]>>
        \/ qch'[i][1] = "STOP"
  <2> TAKE i \in 1..(Len(qch) + Len(s) + 1)
  <2>1. CASE i <= Len(qch)
    BY <1>2, <1>3, <2>1
  <2>2. CASE i > Len(qch) /\ i <= Len(qch) + Len(s)
    <3>1. i - Len(qch) \in 1..Len(s) /\ ~(i <= Len(qch))
      BY <1>3, <2>2
    <3> QED BY <1>2, <2>2, <3>1
  <2>3. CASE i > Len(qch) + Len(s)
    <3>1. ~(i <= Len(qch)) /\ ~(i <= Len(qch) + Len(s))
      BY <1>3, <2>3
    <3> QED BY <1>2, <3>1
  <2> QED BY <1>3, <2>1, <2>2, <2>3
<1>5. \A j \in 1..Len(s) :
        /\ <<"POP", ref_id[s[j]]>> \notin Range(qch)
        /\ ref_id[s[j]] > 0 /\ InUse(ref_id[s[j]]) /\ ref_id[s[j]] \notin Range(ch_manager)
        /\ \A i \in 1..Len(s) : ref_id[s[i]] = ref_id[s[j]] => i = j
  <2> TAKE j \in 1..Len(s)
  <2>1. s[j] \in Chunks /\ ref_id[s[j]] > 0
    BY <1>3
  <2>2. /\ <<"POP", ref_id[s[j]]>> \notin Range(qch) /\ ref_id[s[j]] \notin Range(ch_manager)
        /\ \E e \in Range(queue) : e.id = ref_id[s[j]] /\ e.name.chunk = s[j]
    BY <2>1 DEF IdInv
  <2>3. InUse(ref_id[s[j]])
    BY <2>2, InUseRange DEF TypeInv
  <2>4. ASSUME NEW i \in 1..Len(s), ref_id[s[i]] = ref_id[s[j]] PROVE i = j
    <3>1. s[i] \in Chunks /\ ref_id[s[i]] > 0
      BY <1>3
    <3>2. \E x \in Range(queue) : x.id = ref_id[s[i]] /\ x.name.chunk = s[i]
      BY <3>1 DEF IdInv
    <3>3. PICK e \in Range(queue), x \in Range(queue) :
            /\ e.id = ref_id[s[j]] /\ e.name.chunk = s[j]
            /\ x.id = ref_id[s[i]] /\ x.name.chunk = s[i]
      BY <2>2, <3>2
    <3>4. e.id = x.id /\ e.id > 0
      BY <2>1, <2>4, <3>3
    <3>5. e = x
      BY <3>4, OneEntry DEF TypeInv
    <3>6. s[i] = s[j]
      BY <3>3, <3>5
    <3> QED BY <1>2, <1>3, <3>6 DEF IsInjective
  <2> QED BY <2>1, <2>2, <2>3, <2>4
<1>6. PopOnce(qch')
  <2> SUFFICES ASSUME NEW i \in 1..(Len(qch) + Len(s) + 1), NEW j \in 1..(Len(qch) + Len(s) + 1),
                      qch'[i] = qch'[j], qch'[i][1] = "POP"
               PROVE  i = j
    BY <1>2 DEF PopOnce
  <2>1. \/ i \in 1..Len(qch) /\ qch'[i] = qch[i]
        \/ \E k \in 1..Len(s) : k = i - Len(qch) /\ qch'[i] = <<"POP", ref_id[s[k]]>>
    BY <1>4
  <2>2. \/ j \in 1..Len(qch) /\ qch'[j] = qch[j]
        \/ \E k \in 1..Len(s) : k = j - Len(qch) /\ qch'[j] = <<"POP", ref_id[s[k]]>>
    BY <1>4
  <2>3. CASE i \in 1..Len(qch) /\ qch'[i] = qch[i] /\ j \in 1..Len(qch) /\ qch'[j] = qch[j]
    <3>1. PopOnce(qch)
      BY <1>1 DEF IdInv
    <3>2. qch[i] = qch[j] /\ qch[i][1] = "POP"
      BY <2>3
    <3> QED BY <1>3, <2>3, <3>1, <3>2 DEF PopOnce
  <2>4. CASE /\ i \in 1..Len(qch) /\ qch'[i] = qch[i]
             /\ \E k \in 1..Len(s) : k = j - Len(qch) /\ qch'[j] = <<"POP", ref_id[s[k]]>>
    BY <1>3, <1>5, <2>4, ZenonT(30)
  <2>5. CASE /\ j \in 1..Len(qch) /\ qch'[j] = qch[j]
             /\ \E k \in 1..Len(s) : k = i - Len(qch) /\ qch'[i] = <<"POP", ref_id[s[k]]>>
    BY <1>3, <1>5, <2>5, ZenonT(30)
  <2>6. CASE /\ \E k \in 1..Len(s) : k = i - Len(qch) /\ qch'[i] = <<"POP", ref_id[s[k]]>>
             /\ \E k \in 1..Len(s) : k = j - Len(qch) /\ qch'[j] = <<"POP", ref_id[s[k]]>>
    <3>1. PICK k \in 1..Len(s) : k = i - Len(qch) /\ qch'[i] = <<"POP", ref_id[s[k]]>>
      BY <2>6
    <3>2. PICK l \in 1..Len(s) : l = j - Len(qch) /\ qch'[j] = <<"POP", ref_id[s[l]]>>
      BY <2>6
    <3> DEFINE a == ref_id[s[k]]
               b == ref_id[s[l]]
    <3>a. <<"POP", a>> = <<"POP", b>>
      BY <3>1, <3>2
    <3> HIDE DEF a, b
    <3>b. a = b
      BY <3>a
    <3>3. ref_id[s[k]] = ref_id[s[l]]
      BY <3>b DEF a, b
    <3>4. k = l
      BY <1>5, <3>3
    <3> QED BY <1>3, <3>1, <3>2, <3>4
  <2> QED BY <2>1, <2>2, <2>3, <2>4, <2>5, <2>6
<1>7. \A q \in Range(qch') : q[1] = "POP" =>
        q[2] > 0 /\ InUse(q[2]) /\ q[2] \notin Range(ch_manager)
  <2> SUFFICES ASSUME NEW q \in Range(qch'), q[1] = "POP"
               PROVE  q[2] > 0 /\ InUse(q[2]) /\ q[2] \notin Range(ch_manager)
    OBVIOUS
  <2>1. PICK i \in 1..(Len(qch) + Len(s) + 1) : qch'[i] = q
    BY <1>2 DEF Range
  <2>2. CASE i \in 1..Len(qch) /\ qch'[i] = qch[i]
    BY <1>1, <1>3, <2>1, <2>2 DEF IdInv
  <2>3. CASE \E j \in 1..Len(s) : qch'[i] = <<"POP", ref_id[s[j]]>>
    BY <1>5, <2>1, <2>3
  <2> QED BY <1>4, <2>1, <2>2, <2>3
<1>8. FreshInv'
  BY <1>1, QuietSame DEF FreshInv
<1>9. EntryInv'
  <2>1. \A e \in Range(queue) : e.name.chunk \in Chunks
    BY EntryType DEF TypeInv
  <2> QED BY <1>1, <2>1, QuietSame DEF EntryInv, Waiting
<1>10. IdInv'
  <2>1. \A id : InUse(id) => InUse(id)'
    BY <1>1 DEF InUse
  <2>2. /\ IsInjective(ch_manager)
        /\ \A id \in Range(ch_manager) : id > 0 /\ InUse(id)
    BY <1>1 DEF IdInv
  <2> QED BY <1>1, <1>6, <1>7, <2>1, <2>2 DEF IdInv
<1> QED BY <1>8, <1>9, <1>10

\* A request that is not about an entry is taken.
LEMMA TailMem ==
  ASSUME BufInv, qch # <<>>, Head(qch)[1] # "POP", qch' = Tail(qch),
         UNCHANGED <<incoming, outgoing, tasks, life, task, ref_id, ch_manager, walk, queue,
                     ch_add, ch_mov, ch_del, ch_del_ref, moving, refused>>
  PROVE  MemInv'
<1> USE DEF BufInv, MemInv
<1>1. qch \in Seq(Requests) /\ Range(qch) = Range(qch') \union {Head(qch)}
  BY RequestType, TailRange
<1>3. life # "down"
  BY DEF FreshInv
<1>4. FreshInv'
  BY <1>3, QuietSame DEF FreshInv
<1>5. EntryInv'
  BY QuietSame DEF EntryInv, Waiting
<1>6. life \in {"up", "stopping"} => PopOnce(qch')
  BY <1>1, PopTail DEF IdInv
<1>7. IdInv'
  BY <1>1, <1>6 DEF IdInv, InUse
<1> QED BY <1>4, <1>5, <1>7

LEMMA QStopMem == ASSUME BufInv, QStop PROVE MemInv'
<1>1. /\ qch # <<>> /\ Head(qch)[1] # "POP" /\ qch' = Tail(qch)
      /\ UNCHANGED <<incoming, outgoing, tasks, life, task, ref_id, ch_manager, walk, queue,
                     ch_add, ch_mov, ch_del, ch_del_ref, moving, refused>>
  BY DEF QStop, files, process, engine, taskVars, workers, channels, history
<1> QED BY <1>1, TailMem

\* The first entry without an id is loaded under an id nobody has.
LEMMA PushRequestMem == ASSUME BufInv, PushRequest PROVE MemInv'
<1> USE DEF BufInv, MemInv
<1>1. /\ qch # <<>> /\ Head(qch)[1] # "POP" /\ qch' = Tail(qch)
      /\ UNCHANGED <<incoming, outgoing, tasks, life, task, ref_id, walk, ch_add, ch_mov,
                     ch_del, ch_del_ref, moving, refused>>
  BY DEF PushRequest, files, process, taskVars, workers, channels, history
<1>2. CASE Loadable = {}
  <2>1. UNCHANGED <<queue, ch_manager>>
    BY <1>2 DEF PushRequest
  <2> QED BY <1>1, <2>1, TailMem
<1>3. CASE Loadable # {}
  <2>1. PICK i \in Loadable, id \in 1..Len(queue), data \in {"mapped", "NULL"} :
          /\ qchunk_get_id(id)
          /\ queue' = [queue EXCEPT ![i].id = id, ![i].data = data]
          /\ ch_manager' = Append(ch_manager, id)
    BY <1>3 DEF PushRequest
  <2>2. i \in 1..Len(queue) /\ queue[i] \in Entries /\ queue[i].id = 0 /\ id \in Nat /\ id > 0
    BY EntryType DEF Loadable, FirstWith, TypeInv
  <2>3. ~InUse(id)
    BY <2>1 DEF qchunk_get_id
  <2>4. queue[i] \in Range(queue) /\ DOMAIN queue = 1..Len(queue)
    BY <2>2, EntryType DEF TypeInv
  <2>5. Waiting(queue[i]) /\ queue[i].name \in outgoing
    BY <2>2, <2>4 DEF EntryInv, Waiting
  <2> DEFINE e1 == [queue[i] EXCEPT !.id = id, !.data = data]
  <2>6. e1.name = queue[i].name /\ e1.routes = queue[i].routes /\ e1.id = id /\ e1.data # "none"
    BY <2>1, <2>2 DEF Entries
  <2>7. queue' = [queue EXCEPT ![i] = e1]
    BY <2>1, <2>2, <2>4, <2>5
  <2> HIDE DEF e1
  <2>8. /\ DOMAIN queue' = 1..Len(queue)
        /\ \A j \in 1..Len(queue) : queue'[j] = IF j = i THEN e1 ELSE queue[j]
    BY <2>2, <2>4, <2>7
  <2>9. \A x \in Range(queue') : x = e1 \/ (x \in Range(queue) /\ x.id # id)
    <3>1. \A j \in 1..Len(queue) : queue[j].id # id /\ queue[j] \in Range(queue)
      BY <2>3, <2>4, EntryType DEF InUse, TypeInv
    <3> QED BY <2>8, <3>1 DEF Range
  <2>10. /\ e1 \in Range(queue')
         /\ \A x \in Range(queue) : x.id > 0 => x \in Range(queue')
    <3>1. \A x \in Range(queue) : \E j \in 1..Len(queue) : queue[j] = x
      BY EntryType DEF TypeInv
    <3>2. \A j \in 1..Len(queue) : queue'[j] \in Range(queue')
      BY <2>8 DEF Range
    <3> QED BY <2>2, <2>8, <3>1, <3>2
  <2>11. \A k : (k # 0 /\ InUse(k)) \/ k = id => InUse(k)'
    <3>1. ASSUME NEW k, k # 0, InUse(k) PROVE InUse(k)'
      <4>1. PICK j \in 1..Len(queue) : queue[j].id = k
        BY <2>4, <3>1 DEF InUse
      <4>2. j # i
        BY <2>2, <3>1, <4>1
      <4> QED BY <2>8, <4>1, <4>2 DEF InUse
    <3>2. InUse(id)'
      BY <2>2, <2>6, <2>8 DEF InUse
    <3> QED BY <3>1, <3>2
  <2>12. /\ Range(ch_manager') = Range(ch_manager) \union {id}
         /\ IsInjective(ch_manager) /\ id \notin Range(ch_manager) => IsInjective(ch_manager')
    <3>1. ch_manager \in Seq(Nat)
      BY DEF TypeInv, TypeOK
    <3> QED BY <2>1, <2>2, <3>1, AppendRange
  <2>13. /\ qch \in Seq(Requests) /\ Range(qch) = Range(qch') \union {Head(qch)}
         /\ \A k : Head(qch) # <<"POP", k>>
    <3>1. qch \in Seq(Requests) /\ Range(qch) = Range(qch') \union {Head(qch)}
      BY <1>1, RequestType, TailRange
    <3> QED BY <1>1, <3>1
  <2>14. life # "down"
    BY <1>1 DEF FreshInv
  <2>15. FreshInv'
    <3>1. \A c \in Chunks : task[c] = "none" => \A x \in Range(queue') : x.name.chunk # c
      BY <2>4, <2>6, <2>9 DEF FreshInv
    <3> QED BY <1>1, <2>14, <3>1, QuietSame DEF FreshInv
  <2>16. EntryInv'
    <3>1. \A j, k \in 1..Len(queue) :
            /\ queue'[j].name.chunk = queue'[k].name.chunk => j = k
            /\ queue'[j].id = queue'[k].id /\ queue'[j].id > 0 => j = k
      <4> TAKE j, k \in 1..Len(queue)
      <4>1. queue'[j].name = queue[j].name /\ queue'[k].name = queue[k].name
        BY <2>6, <2>8
      <4>2. queue[j].id # id /\ queue[k].id # id
        BY <2>3, <2>4 DEF InUse
      <4>3. /\ queue'[j].id = IF j = i THEN id ELSE queue[j].id
            /\ queue'[k].id = IF k = i THEN id ELSE queue[k].id
        BY <2>6, <2>8
      <4>4. /\ queue[j].name.chunk = queue[k].name.chunk => j = k
            /\ queue[j].id = queue[k].id /\ queue[j].id > 0 => j = k
        BY <2>4 DEF EntryInv
      <4> QED BY <4>1, <4>2, <4>3, <4>4
    <3>2. ASSUME NEW x \in Range(queue')
          PROVE  /\ x.id > 0 => x.data # "none"
                 /\ Waiting(x)' => /\ task[x.name.chunk] = "gone" /\ Quiet(x.name.chunk)
                                   /\ x.name \in outgoing
                                   /\ \A o \in x.routes : x.name \in tasks[o]
      <4>1. CASE x = e1
        BY <2>4, <2>5, <2>6, <4>1 DEF EntryInv
      <4>2. CASE x \in Range(queue) /\ x.id # id
        <5>1. Waiting(x)' => Waiting(x)
          BY <1>1, <2>12, <4>2 DEF Waiting
        <5> QED BY <4>2, <5>1 DEF EntryInv
      <4> QED BY <2>9, <4>1, <4>2
    <3> QED BY <1>1, <2>8, <3>1, <3>2, QuietSame DEF EntryInv
  <2>17. IdInv'
    <3>1. ASSUME life \in {"up", "stopping"}
          PROVE  /\ IsInjective(ch_manager')
                 /\ \A k \in Range(ch_manager') : k > 0 /\ InUse(k)'
                 /\ \A q \in Range(qch') : q[1] = "POP" =>
                      /\ q[2] > 0 /\ InUse(q[2])' /\ q[2] \notin Range(ch_manager')
                      /\ walk.at # {} => walk.key # q[2]
                 /\ PopOnce(qch')
      <4>1. id \notin Range(ch_manager) /\ IsInjective(ch_manager)
        BY <2>3, <3>1 DEF IdInv
      <4>2. \A k \in Range(ch_manager') : k > 0 /\ InUse(k)'
        BY <2>2, <2>11, <2>12, <3>1 DEF IdInv
      <4>3. PopOnce(qch')
        BY <1>1, <2>13, <3>1, PopTail DEF IdInv
      <4>4. \A q \in Range(qch') : q[1] = "POP" =>
              /\ q[2] > 0 /\ InUse(q[2]) /\ q[2] \notin Range(ch_manager)
              /\ walk.at # {} => walk.key # q[2]
        BY <2>13, <3>1 DEF IdInv
      <4> QED BY <2>3, <2>11, <2>12, <4>1, <4>2, <4>3, <4>4
    <3>2. ASSUME walk.at # {}
          PROVE  /\ life = "up" /\ walk.key > 0 /\ walk.key \notin Range(ch_manager')
                 /\ InUse(walk.key)'
      <4>0. \A k : k # 0 /\ InUse(k) => \E j \in DOMAIN queue' : queue'[j].id = k
        BY <2>11 DEF InUse
      <4>1. life = "up" /\ walk.key > 0 /\ walk.key \notin Range(ch_manager) /\ InUse(walk.key)
        BY <3>2 DEF IdInv
      <4>2. walk.key \notin Range(ch_manager')
        BY <2>3, <2>12, <4>1
      <4>3. \E j \in DOMAIN queue' : queue'[j].id = walk.key
        <5>1. walk.key # 0
          BY <4>1
        <5> QED BY <4>0, <4>1, <5>1
      <4>4. InUse(walk.key)'
        BY <1>1, <4>3 DEF InUse
      <4> QED BY <4>1, <4>2, <4>4
    <3>3. ASSUME NEW c \in Chunks, ref_id[c] > 0
          PROVE  /\ \E x \in Range(queue') : x.id = ref_id[c] /\ x.name.chunk = c
                 /\ ref_id[c] \notin Range(ch_manager')
      <4>1. /\ \E x \in Range(queue) : x.id = ref_id[c] /\ x.name.chunk = c
            /\ ref_id[c] \notin Range(ch_manager)
        BY <3>3 DEF IdInv
      <4>2. InUse(ref_id[c])
        BY <4>1, InUseRange DEF TypeInv
      <4> QED BY <2>3, <2>10, <2>12, <3>3, <4>1, <4>2
    <3>4. \A c \in Chunks : ref_id[c] > 0 =>
            /\ life = "up" /\ task[c] = "live"
            /\ <<"POP", ref_id[c]>> \notin Range(qch')
            /\ walk.at # {} => walk.key # ref_id[c]
      BY <2>13 DEF IdInv
    <3> QED BY <1>1, <3>1, <3>2, <3>3, <3>4 DEF IdInv
  <2> QED BY <2>15, <2>16, <2>17
<1> QED BY <1>2, <1>3

\* The entry a request names goes; every other id stays with whom it was.
LEMMA PopRequestMem == ASSUME BufInv, PopRequest PROVE MemInv'
<1> USE DEF BufInv, MemInv
<1> DEFINE k == Head(qch)[2]
<1>1. /\ qch # <<>> /\ Head(qch)[1] = "POP" /\ qch' = Tail(qch)
      /\ UNCHANGED <<incoming, outgoing, tasks, life, task, ref_id, ch_manager, walk, ch_add,
                     ch_mov, ch_del, ch_del_ref, moving, refused>>
  BY DEF PopRequest, files, process, taskVars, workers, channels, history
<1>2. /\ qch \in Seq(Requests) /\ Range(qch) = Range(qch') \union {Head(qch)}
      /\ Head(qch) = <<"POP", k>> /\ k \in Nat /\ Head(qch) \in Range(qch)
  BY <1>1, RequestType, TailRange
<1>3. life # "down"
  BY <1>1 DEF FreshInv
<1>4. \/ FirstWith(k) = {} /\ queue' = queue
      \/ \E i \in FirstWith(k) : queue' = RemoveAt(queue, i)
  BY DEF PopRequest
<1>5. life \in {"up", "stopping"} =>
        /\ k > 0 /\ InUse(k) /\ k \notin Range(ch_manager)
        /\ walk.at # {} => walk.key # k
        /\ PopOnce(qch') /\ Head(qch) \notin Range(qch')
  <2> SUFFICES ASSUME life \in {"up", "stopping"}
               PROVE  /\ k > 0 /\ InUse(k) /\ k \notin Range(ch_manager)
                      /\ walk.at # {} => walk.key # k
                      /\ PopOnce(qch') /\ Head(qch) \notin Range(qch')
    OBVIOUS
  <2>1. /\ k > 0 /\ InUse(k) /\ k \notin Range(ch_manager)
        /\ walk.at # {} => walk.key # k
    BY <1>1, <1>2 DEF IdInv
  <2>2. PopOnce(qch') /\ Head(qch) \notin Range(qch')
    BY <1>1, <1>2, PopTail DEF IdInv
  <2> QED BY <2>1, <2>2
<1> HIDE DEF k
<1>6. \A q \in Range(qch') : life \in {"up", "stopping"} /\ q[1] = "POP" =>
        /\ q[2] # k /\ q[2] > 0 /\ InUse(q[2]) /\ q[2] \notin Range(ch_manager)
        /\ walk.at # {} => walk.key # q[2]
  <2> SUFFICES ASSUME NEW q \in Range(qch'), life \in {"up", "stopping"}, q[1] = "POP"
               PROVE  /\ q[2] # k /\ q[2] > 0 /\ InUse(q[2]) /\ q[2] \notin Range(ch_manager)
                      /\ walk.at # {} => walk.key # q[2]
    OBVIOUS
  <2>1. q \in Range(qch) /\ q \in Requests
    BY <1>2, SeqElem
  <2>2. q = <<"POP", q[2]>>
    BY <2>1 DEF Requests
  <2>3. q[2] # k
    BY <1>2, <1>5, <2>2
  <2>4. /\ q[2] > 0 /\ InUse(q[2]) /\ q[2] \notin Range(ch_manager)
        /\ walk.at # {} => walk.key # q[2]
    BY <2>1 DEF IdInv
  <2> QED BY <2>3, <2>4
<1>7. \A c \in Chunks : ref_id[c] > 0 =>
        /\ ref_id[c] # k /\ <<"POP", ref_id[c]>> \notin Range(qch')
        /\ life = "up" /\ task[c] = "live" /\ ref_id[c] \notin Range(ch_manager)
        /\ \E e \in Range(queue) : e.id = ref_id[c] /\ e.name.chunk = c
        /\ walk.at # {} => walk.key # ref_id[c]
  <2> SUFFICES ASSUME NEW c \in Chunks, ref_id[c] > 0
               PROVE  /\ ref_id[c] # k /\ <<"POP", ref_id[c]>> \notin Range(qch')
                      /\ life = "up" /\ task[c] = "live" /\ ref_id[c] \notin Range(ch_manager)
                      /\ \E e \in Range(queue) : e.id = ref_id[c] /\ e.name.chunk = c
                      /\ walk.at # {} => walk.key # ref_id[c]
    OBVIOUS
  <2>1. <<"POP", ref_id[c]>> \notin Range(qch)
    BY DEF IdInv
  <2>2. ref_id[c] # k
    BY <1>2, <2>1
  <2> QED BY <1>2, <2>1, <2>2 DEF IdInv
\* What is left of the list.
<1>8. /\ Range(queue') \subseteq Range(queue)
      /\ \A e \in Range(queue) : e.id # k => e \in Range(queue')
      /\ life \in {"up", "stopping"} => \A e \in Range(queue') : e.id # k
      /\ \A i, j \in DOMAIN queue' :
           /\ queue'[i].name.chunk = queue'[j].name.chunk => i = j
           /\ queue'[i].id = queue'[j].id /\ queue'[i].id > 0 => i = j
  <2>0. DOMAIN queue = 1..Len(queue) /\ Len(queue) \in Nat /\ queue \in Seq(Entries)
    BY EntryType DEF TypeInv, TypeOK
  <2>1. CASE FirstWith(k) = {} /\ queue' = queue
    <3>1. ASSUME life \in {"up", "stopping"} PROVE FALSE
      <4>1. PICK i \in 1..Len(queue) : queue[i].id = k
        BY <1>5, <2>0, <3>1 DEF InUse
      <4>2. \A j \in 1..(i - 1) : queue[j].id # k
        BY <1>5, <2>0, <3>1, <4>1 DEF EntryInv
      <4> QED BY <2>0, <2>1, <4>1, <4>2 DEF FirstWith
    <3> QED BY <2>1, <3>1 DEF EntryInv
  <2>2. CASE \E i \in FirstWith(k) : queue' = RemoveAt(queue, i)
    <3>1. PICK i \in 1..Len(queue) : queue[i].id = k /\ queue' = RemoveAt(queue, i)
      BY <2>0, <2>2 DEF FirstWith
    <3> DEFINE at(j) == IF j < i THEN j ELSE j + 1
    <3>2. /\ DOMAIN queue' = 1..(Len(queue) - 1)
          /\ \A j \in 1..(Len(queue) - 1) :
               queue'[j] = IF j < i THEN queue[j] ELSE queue[j + 1]
      BY <2>0, <3>1, RemoveAtSeq
    <3>3. \A j \in 1..(Len(queue) - 1) :
            queue'[j] = queue[at(j)] /\ at(j) \in 1..Len(queue) /\ at(j) # i
      BY <2>0, <3>2
    <3>4. \A j, l \in 1..(Len(queue) - 1) : at(j) = at(l) => j = l
      BY <2>0
    <3>5. \A m \in 1..Len(queue) : m # i => \E j \in 1..(Len(queue) - 1) : at(j) = m
      <4> TAKE m \in 1..Len(queue)
      <4>1. CASE m < i
        BY <2>0, <4>1
      <4>2. CASE m > i
        <5>1. m - 1 \in 1..(Len(queue) - 1) /\ at(m - 1) = m
          BY <2>0, <4>2
        <5> QED BY <5>1
      <4> QED BY <2>0, <4>1, <4>2
    <3> HIDE DEF at
    <3>6. Range(queue') \subseteq Range(queue)
      BY <2>0, <3>2, <3>3 DEF Range
    <3>7. \A e \in Range(queue) : e.id # k => e \in Range(queue')
      <4> SUFFICES ASSUME NEW e \in Range(queue), e.id # k PROVE e \in Range(queue')
        OBVIOUS
      <4>1. PICK m \in 1..Len(queue) : queue[m] = e
        BY <2>0 DEF Range
      <4>2. m # i
        BY <3>1, <4>1
      <4>3. PICK j \in 1..(Len(queue) - 1) : at(j) = m
        BY <3>5, <4>2
      <4>4. queue'[j] = e
        BY <3>3, <4>1, <4>3
      <4> QED BY <3>2, <4>4 DEF Range
    <3>8. ASSUME life \in {"up", "stopping"}, NEW e \in Range(queue') PROVE e.id # k
      <4>1. PICK j \in 1..(Len(queue) - 1) : queue'[j] = e
        BY <3>2 DEF Range
      <4>2. e = queue[at(j)] /\ at(j) # i /\ at(j) \in 1..Len(queue)
        BY <3>3, <4>1
      <4> QED BY <1>5, <2>0, <3>1, <3>8, <4>2 DEF EntryInv
    <3>9. \A j, l \in 1..(Len(queue) - 1) :
           /\ queue'[j].name.chunk = queue'[l].name.chunk => j = l
           /\ queue'[j].id = queue'[l].id /\ queue'[j].id > 0 => j = l
      <4> TAKE j, l \in 1..(Len(queue) - 1)
      <4>1. /\ queue'[j] = queue[at(j)] /\ at(j) \in 1..Len(queue)
            /\ queue'[l] = queue[at(l)] /\ at(l) \in 1..Len(queue)
        BY <3>3
      <4>2. /\ queue[at(j)].name.chunk = queue[at(l)].name.chunk => at(j) = at(l)
            /\ queue[at(j)].id = queue[at(l)].id /\ queue[at(j)].id > 0 => at(j) = at(l)
        BY <2>0, <4>1 DEF EntryInv
      <4> QED BY <3>4, <4>1, <4>2
    <3> QED BY <3>2, <3>6, <3>7, <3>8, <3>9
  <2> QED BY <1>4, <2>1, <2>2
<1>9. FreshInv'
  BY <1>1, <1>3, <1>8, QuietSame DEF FreshInv
<1>10. EntryInv'
  <2>1. \A e : Waiting(e)' <=> Waiting(e)
    BY <1>1 DEF Waiting
  <2>2. \A e \in Range(queue') : /\ e.id > 0 => e.data # "none"
                                 /\ Waiting(e) => /\ task[e.name.chunk] = "gone"
                                                  /\ Quiet(e.name.chunk)
                                                  /\ e.name \in outgoing
                                                  /\ \A o \in e.routes : e.name \in tasks[o]
    BY <1>8 DEF EntryInv
  <2> QED BY <1>1, <1>8, <2>1, <2>2, QuietSame DEF EntryInv
<1>11. IdInv'
  <2>2. \A id : InUse(id) /\ id # k => InUse(id)'
    <3>1. \A e \in Range(queue') : InUse(e.id)'
      BY DEF Range, InUse
    <3> QED BY <1>8, <3>1, InUseRange DEF TypeInv
  <2>3. life \in {"up", "stopping"} =>
          /\ IsInjective(ch_manager)
          /\ \A id \in Range(ch_manager) : id > 0 /\ InUse(id)'
    <3>1. life \in {"up", "stopping"} =>
            /\ IsInjective(ch_manager)
            /\ \A id \in Range(ch_manager) : id > 0 /\ InUse(id)
      BY DEF IdInv
    <3> QED BY <1>5, <2>2, <3>1
  <2>4. life \in {"up", "stopping"} =>
          \A q \in Range(qch') : q[1] = "POP" =>
            /\ q[2] > 0 /\ InUse(q[2])' /\ q[2] \notin Range(ch_manager)
            /\ walk.at # {} => walk.key # q[2]
    BY <1>6, <2>2
  <2>5. walk.at # {} =>
          /\ life = "up" /\ walk.key > 0 /\ walk.key \notin Range(ch_manager)
          /\ InUse(walk.key)'
    <3>1. \A id : InUse(id) /\ id # k => \E j \in DOMAIN queue' : queue'[j].id = id
      BY <2>2 DEF InUse
    <3>2. walk.at # {} =>
            /\ life = "up" /\ walk.key > 0 /\ walk.key \notin Range(ch_manager)
            /\ InUse(walk.key) /\ walk.key # k
      BY <1>5 DEF IdInv
    <3> QED BY <1>1, <3>1, <3>2 DEF InUse
  <2>6. \A c \in Chunks : ref_id[c] > 0 =>
          \E e \in Range(queue') : e.id = ref_id[c] /\ e.name.chunk = c
    BY <1>7, <1>8
  <2> QED BY <1>1, <1>5, <1>7, <2>3, <2>4, <2>5, <2>6 DEF IdInv
<1> QED BY <1>9, <1>10, <1>11

-----------------------------------------------------------------------------
(* What a mapped task has still to do.                                     *)

\* Routes that get no longer leave nothing out.
LEMMA RemainingSame ==
  ASSUME RemainingOnly,
         \A c \in Chunks : ref_id'[c] > 0 => ref_id'[c] = ref_id[c] /\ pend'[c] \subseteq pend[c],
         \A c \in Chunks : ref_id'[c] > 0 => task[c] = "live",
         \A c \in Chunks, o \in OutputSet : o \in pend'[c] =>
           \A n \in tasks[o] : n.chunk = c => n \in tasks'[o],
         \A c \in Chunks : pend'[c] \subseteq OutputSet
  PROVE  RemainingOnly'
BY DEF RemainingOnly

\* Only the engine's walk makes mapped tasks, of entries that still have their
\* references; a reference is removed when its route is no longer pending.
LEMMA RemainingStep ==
  ASSUME BufInv, RemainingOnly, [Next]_vars PROVE RemainingOnly'
<1> USE DEF BufInv
<1>0. /\ pend' \in [Chunks -> SUBSET OutputSet] /\ TypeOK
      /\ \A c \in Chunks : ref_id[c] > 0 => task[c] = "live"
  <2>1. TypeInv'
    BY NextType
  <2> QED BY <2>1 DEF TypeInv, TypeOK, MemInv, IdInv
<1>1. CASE Vanish
  BY <1>1 DEF Vanish, RemainingOnly
<1>2. CASE flb_buffer_stop
  BY <1>2 DEF flb_buffer_stop, RemainingOnly
<1>3. CASE UNCHANGED <<task, ref_id, pend, tasks>>
  BY <1>3 DEF RemainingOnly
<1>4. ASSUME NEW c \in Chunks, Create(c) PROVE RemainingOnly'
  <2>1. ref_id' = ref_id /\ tasks' = tasks /\ task[c] = "none"
    BY <1>4 DEF Create, files
  <2>2. ~(ref_id[c] > 0)
    BY <1>0, <2>1
  <2>3. \A d \in Chunks : d # c => pend'[d] = pend[d] /\ task'[d] = task[d]
    BY <1>4 DEF Create, TypeOK
  <2> QED BY <2>1, <2>2, <2>3 DEF RemainingOnly
<1>5. ASSUME NEW c \in Chunks, NEW o \in OutputSet, NEW ret, Result(c, o, ret)
      PROVE  RemainingOnly'
  <2>1. \A d \in Chunks : /\ pend'[d] \subseteq pend[d]
                          /\ ref_id'[d] > 0 => ref_id'[d] = ref_id[d]
    BY <1>5, ResultStep
  <2>2. tasks' = tasks
    BY <1>5 DEF Result, files
  <2>3. \A d \in Chunks : ref_id'[d] > 0 => task[d] = "live"
    BY <1>0, <2>1
  <2> QED BY <1>0, <2>1, <2>2, <2>3, RemainingSame
<1>6. CASE flb_buffer_qchunk_push
  <2>1. tasks' = tasks /\ walk.at # {}
    BY <1>6, PushStep DEF flb_buffer_qchunk_push, files
  <2>2. CASE UNCHANGED taskVars
    BY <1>3, <2>1, <2>2 DEF taskVars
  <2>3. CASE \E i \in 1..Len(queue) :
               queue[i].id = walk.key /\ flb_task_create_direct(queue[i])
    <3>1. PICK e \in Range(queue) : e.id = walk.key /\ flb_task_create_direct(e)
      BY <2>3, EntryType DEF TypeInv
    <3>2. \A o \in e.routes : e.name \in tasks[o]
      BY <2>1, <3>1 DEF MemInv, EntryInv, Waiting
    <3>3. e.name.chunk \in Chunks
      BY EntryType DEF TypeInv
    <3>4. \A d \in Chunks : /\ pend'[d] = IF d = e.name.chunk THEN e.routes ELSE pend[d]
                            /\ d # e.name.chunk => ref_id'[d] = ref_id[d] /\ task'[d] = task[d]
      BY <1>0, <3>1, <3>3 DEF flb_task_create_direct, TypeOK
    <3> QED BY <2>1, <3>2, <3>4 DEF RemainingOnly
  <2> QED BY <1>6, <2>2, <2>3, PushStep
<1>7. ASSUME NEW w \in Workers, Reference(w) PROVE RemainingOnly'
  <2>1. UNCHANGED <<ref_id, pend>>
    BY <1>7 DEF Reference, engine, taskVars
  <2>2. \A o \in OutputSet : tasks[o] \subseteq tasks'[o]
    <3>1. PICK n \in Names, o \in OutputSet :
            \/ tasks' = [tasks EXCEPT ![o] = @ \union {n}]
            \/ tasks' = tasks
      BY <1>7, ReferenceStep
    <3>2. \/ tasks' = tasks
          \/ \A p \in OutputSet : tasks'[p] = IF p = o THEN tasks[p] \union {n} ELSE tasks[p]
      BY <1>0, <3>1 DEF TypeOK
    <3> QED BY <3>2
  <2> QED BY <1>0, <2>1, <2>2, RemainingSame
<1>8. ASSUME NEW w \in Workers, flb_buffer_chunk_delete_ref(w) PROVE RemainingOnly'
  <2>1. UNCHANGED <<ref_id, pend, task>>
    BY <1>8 DEF flb_buffer_chunk_delete_ref, engine, taskVars
  <2>2. PICK c \in Chunks, o \in OutputSet :
          /\ Head(ch_del_ref[w]) = <<c, o>> /\ <<c, o>> \in Range(ch_del_ref[w])
          /\ ch_del_ref' = [ch_del_ref EXCEPT ![w] = Tail(@)]
          /\ \/ /\ \A n \in tasks[o] : n.chunk # c
                /\ chunk_miss(c, o) /\ UNCHANGED <<tasks, ch_del>>
             \/ /\ \E n \in tasks[o] :
                     n.chunk = c /\ tasks' = [tasks EXCEPT ![o] = @ \ {n}]
                /\ ch_del' = [ch_del EXCEPT ![w] = Append(@, c)]
                /\ UNCHANGED <<incoming, outgoing>>
    BY <1>8, DeleteRefStep
  <2>3. o \notin pend[c]
    <3> DEFINE r == <<c, o>>
    <3>1. r[1] = c /\ r[2] = o
      OBVIOUS
    <3>2. r \in Range(ch_del_ref[w])
      BY <2>2
    <3> HIDE DEF r
    <3> QED BY <3>1, <3>2 DEF DiskInv, RequestInv, DelInv
  <2>4. \A p \in OutputSet : \A n \in tasks[p] : n \in tasks'[p] \/ (p = o /\ n.chunk = c)
    <3>1. CASE tasks' = tasks
      BY <3>1
    <3>2. CASE \E n \in tasks[o] : n.chunk = c /\ tasks' = [tasks EXCEPT ![o] = @ \ {n}]
      <4>1. PICK m \in tasks[o] : m.chunk = c /\ tasks' = [tasks EXCEPT ![o] = @ \ {m}]
        BY <3>2
      <4>2. \A p \in OutputSet : tasks'[p] = IF p = o THEN tasks[p] \ {m} ELSE tasks[p]
        BY <1>0, <4>1 DEF TypeOK
      <4> QED BY <4>1, <4>2
    <3> QED BY <2>2, <3>1, <3>2
  <2> QED BY <1>0, <2>1, <2>3, <2>4, RemainingSame
<1>9. CASE Start \/ Crash \/ Exit \/ FreedUnderWalk
  BY <1>1, <1>3, <1>9 DEF Start, Crash, Exit, FreedUnderWalk, files, taskVars
<1>10. CASE Flush \/ flb_buffer_engine_event \/ flb_buffer_destroy \/ Qworker
  BY <1>3, <1>10 DEF Flush, flb_buffer_engine_event, flb_buffer_destroy, Qworker,
     PushRequest, PopRequest, QStop, files, engine, taskVars
<1>11. CASE \E w \in Workers : \/ Wait(w) \/ Manage(w) \/ flb_buffer_chunk_add(w)
                               \/ flb_buffer_chunk_real_move(w) \/ flb_buffer_chunk_delete(w)
  BY <1>3, <1>11 DEF Wait, Manage, flb_buffer_chunk_add, flb_buffer_chunk_real_move,
     flb_buffer_chunk_delete, files, engine, taskVars
<1>12. CASE UNCHANGED vars
  BY <1>3, <1>12 DEF vars, files, engine, taskVars
<1> QED
  BY <1>2, <1>4, <1>5, <1>6, <1>7, <1>8, <1>9, <1>10, <1>11, <1>12 DEF Next, Engine, Worker

-----------------------------------------------------------------------------
(* The invariant.                                                          *)

LEMMA BufInit == Init => BufInv
<1> SUFFICES ASSUME Init PROVE BufInv
  OBVIOUS
<1>1. TypeInv
  BY InitType
<1>2. Range(queue) = {} /\ DOMAIN queue = {}
  BY EmptyRange DEF Init
<1>3. \A w \in Workers : /\ ch_add[w] = <<>> /\ ch_mov[w] = <<>> /\ ch_del[w] = <<>>
                         /\ ch_del_ref[w] = <<>> /\ moving[w] = {}
  BY DEF Init
<1>4. \A c : Quiet(c)
  BY <1>3, EmptyRange DEF Quiet
<1>5. FileInv
  BY DEF Init, FileInv
<1>6. RequestInv
  BY <1>3, EmptyRange DEF RequestInv, AddInv, MovInv, DelInv
<1>7. MoveInv /\ RouteInv /\ BackedUp
  BY <1>3 DEF Init, MoveInv, RouteInv, BackedUp
<1>8. FreshInv
  BY <1>2, <1>4 DEF Init, FreshInv, NoWalk
<1>9. EntryInv
  BY <1>2 DEF EntryInv
<1>10. IdInv
  BY DEF Init, IdInv, NoWalk
<1> QED BY <1>1, <1>5, <1>6, <1>7, <1>8, <1>9, <1>10 DEF BufInv, DiskInv, MemInv

LEMMA DiskStep ==
  ASSUME ~RefMayFail, BufInv, [Next]_vars PROVE DiskInv'
<1>0. DiskInv
  BY DEF BufInv
<1>1. CASE UNCHANGED diskVars
  BY <1>0, <1>1, DiskSame
<1>2. CASE Start \/ Flush \/ flb_buffer_engine_event \/ Qworker \/ UNCHANGED vars
  BY <1>1, <1>2 DEF Start, Flush, flb_buffer_engine_event, Qworker, PushRequest, PopRequest,
     QStop, vars, diskVars, files, engine, taskVars, workers, channels, history
<1>3. CASE \E w \in Workers : Wait(w) \/ Manage(w)
  BY <1>1, <1>3 DEF Wait, Manage, diskVars, files, engine, taskVars, channels, history
<1>4. CASE Crash \/ Exit \/ FreedUnderWalk
  BY <1>4, VanishDisk DEF Crash, Exit, FreedUnderWalk
<1>5. CASE \E c \in Chunks : Create(c)
  BY <1>5, CreateDisk
<1>6. CASE \E c \in Chunks, o \in OutputSet, ret \in {"POP", "ERROR"} : Result(c, o, ret)
  BY <1>6, ResultDisk
<1>7. CASE flb_buffer_qchunk_push \/ flb_buffer_stop \/ flb_buffer_destroy
  BY <1>7, PushDisk, StopDisk, DestroyDisk
<1>8. CASE \E w \in Workers : flb_buffer_chunk_add(w) \/ flb_buffer_chunk_real_move(w)
  BY <1>8, AddDisk, MoveDisk
<1>9. CASE \E w \in Workers : \/ Reference(w) \/ flb_buffer_chunk_delete_ref(w)
                              \/ flb_buffer_chunk_delete(w)
  BY <1>9, ReferenceDisk, DeleteRefDisk, DeleteDisk
<1> QED
  BY <1>2, <1>3, <1>4, <1>5, <1>6, <1>7, <1>8, <1>9 DEF Next, Engine, Worker

LEMMA MemStep == ASSUME BufInv, IdsFit, [Next]_vars PROVE MemInv'
<1>0. MemInv
  BY DEF BufInv
<1>1. CASE \E w \in Workers : Wait(w) \/ Manage(w)
  <2>1. UNCHANGED memVars
    BY <1>1 DEF Wait, Manage, memVars, files, process, engine, taskVars, channels, qworker,
       history
  <2> QED BY <1>0, <2>1, MemSame
<1>2. CASE UNCHANGED vars
  <2>1. UNCHANGED memVars
    BY <1>2 DEF vars, memVars, files, process, engine, taskVars, workers, channels, qworker,
       history
  <2> QED BY <1>0, <2>1, MemSame
<1>3. CASE Start \/ Crash \/ Exit \/ FreedUnderWalk
  BY <1>3, StartMem, VanishMem DEF Crash, Exit, FreedUnderWalk
<1>4. CASE \E c \in Chunks : Create(c)
  BY <1>4, CreateMem
<1>5. CASE \E c \in Chunks, o \in OutputSet, ret \in {"POP", "ERROR"} : Result(c, o, ret)
  BY <1>5, ResultMem
<1>6. CASE Flush \/ flb_buffer_engine_event \/ flb_buffer_qchunk_push
  BY <1>6, FlushMem, EventMem, PushMem
<1>7. CASE flb_buffer_stop \/ flb_buffer_destroy
  BY <1>7, StopMem, DestroyMem
<1>8. CASE Qworker
  BY <1>8, PushRequestMem, PopRequestMem, QStopMem DEF Qworker
<1>9. CASE \E w \in Workers : flb_buffer_chunk_add(w) \/ flb_buffer_chunk_real_move(w)
  BY <1>9, AddMem, MoveMem
<1>10. CASE \E w \in Workers : \/ Reference(w) \/ flb_buffer_chunk_delete_ref(w)
                               \/ flb_buffer_chunk_delete(w)
  BY <1>10, ReferenceMem, DeleteRefMem, DeleteMem
<1> QED
  BY <1>1, <1>2, <1>3, <1>4, <1>5, <1>6, <1>7, <1>8, <1>9, <1>10 DEF Next, Engine, Worker

LEMMA BufStep ==
  ASSUME ~RefMayFail
  PROVE  BufInv /\ RemainingOnly /\ IdsFit /\ [Next]_vars => (BufInv /\ RemainingOnly)'
BY NextType, DiskStep, MemStep, RemainingStep DEF BufInv

\* Why []IdsFit below: the engine is told an id by FLB_BUFFER_EV_KEY(), which
\* keeps two bits of it.  With four chunks loaded at once the fourth is taken
\* for one without an id, as the run of MCFlbBufferKey.cfg shows.
BufInvariant == BufInv /\ RemainingOnly

LEMMA BufCorrect == ~RefMayFail => (Spec /\ []IdsFit => []BufInvariant)
<1> SUFFICES ASSUME ~RefMayFail PROVE Spec /\ []IdsFit => []BufInvariant
  OBVIOUS
<1>1. Init => BufInvariant
  BY BufInit DEF BufInvariant, RemainingOnly, Init
<1>2. BufInvariant /\ IdsFit /\ [Next]_vars => BufInvariant'
  BY BufStep DEF BufInvariant
<1> QED BY <1>1, <1>2, PTL DEF Spec

\* Three chunks never need an id that does not fit: ids are the lowest free
\* ones, and the queue has at most one entry for a chunk.
LEMMA QueueLength ==
  ASSUME TypeInv, EntryInv, IsFiniteSet(Chunks)
  PROVE  Len(queue) <= Cardinality(Chunks)
<1> DEFINE f == [i \in 1..Len(queue) |-> queue[i].name.chunk]
<1>1. /\ DOMAIN queue = 1..Len(queue) /\ Len(queue) \in Nat
      /\ \A i \in 1..Len(queue) : queue[i].name.chunk \in Chunks
  BY EntryType DEF TypeInv
<1>2. f \in [1..Len(queue) -> Chunks]
  BY <1>1
<1>3. \A i, j \in 1..Len(queue) : f[i] = f[j] => i = j
  BY <1>1 DEF EntryInv
<1> HIDE DEF f
<1>4. f \in Injection(1..Len(queue), Chunks)
  BY <1>2, <1>3 DEF Injection, IsInjective
<1>5. Cardinality(1..Len(queue)) <= Cardinality(Chunks)
  BY <1>4, FS_Injection
<1>6. Cardinality(1..Len(queue)) = Len(queue)
  BY <1>1, FS_Interval
<1> QED BY <1>5, <1>6

LEMMA FitStep ==
  ASSUME IsFiniteSet(Chunks), Cardinality(Chunks) <= 3, BufInv, IdsFit, [Next]_vars
  PROVE  IdsFit'
<1> USE DEF BufInv, MemInv
<1>1. CASE queue' = queue
  BY <1>1 DEF IdsFit
<1>2. CASE queue' = <<>>
  BY <1>2, EmptyRange DEF IdsFit
<1>3. CASE Start
  <2>1. PICK s : queue' = [i \in 1..Len(s) |-> flb_buffer_qchunk_add(s[i])]
    BY <1>3 DEF Start
  <2>2. \A e \in Range(queue') : e.id = 0
    BY <2>1 DEF Range, flb_buffer_qchunk_add
  <2> QED BY <2>2 DEF IdsFit
<1>4. CASE PushRequest
  <2>1. CASE Loadable # {}
    <3>1. PICK i \in Loadable, id \in 1..Len(queue), data \in {"mapped", "NULL"} :
            queue' = [queue EXCEPT ![i].id = id, ![i].data = data]
      BY <1>4, <2>1 DEF PushRequest
    <3>2. id < 4
      <4>1. Len(queue) <= Cardinality(Chunks) /\ Len(queue) \in Nat
        BY QueueLength, EntryType DEF TypeInv
      <4>2. Cardinality(Chunks) \in Nat
        BY FS_CardinalityType
      <4> QED BY <4>1, <4>2
    <3> DEFINE e1 == [queue[i] EXCEPT !.id = id, !.data = data]
    <3>3. i \in 1..Len(queue) /\ queue[i] \in Entries /\ DOMAIN queue = 1..Len(queue)
      BY EntryType DEF Loadable, FirstWith, TypeInv
    <3>4. e1.id = id
      BY <3>3 DEF Entries
    <3>5. queue' = [queue EXCEPT ![i] = e1]
      BY <3>1, <3>3
    <3> HIDE DEF e1
    <3>6. DOMAIN queue' = 1..Len(queue)
          /\ \A j \in 1..Len(queue) : queue'[j] = IF j = i THEN e1 ELSE queue[j]
      BY <3>3, <3>5
    <3>7. \A j \in 1..Len(queue) : queue[j].id < 4
      BY EntryType DEF IdsFit, TypeInv
    <3>8. \A j \in 1..Len(queue) : queue'[j].id < 4
      BY <3>2, <3>4, <3>6, <3>7
    <3> QED BY <3>6, <3>8 DEF IdsFit, Range
  <2>2. CASE Loadable = {}
    BY <1>1, <1>4, <2>2 DEF PushRequest
  <2> QED BY <2>1, <2>2
<1>5. CASE PopRequest
  <2>1. CASE \E i \in FirstWith(Head(qch)[2]) : queue' = RemoveAt(queue, i)
    <3>1. DOMAIN queue = 1..Len(queue) /\ queue \in Seq(Entries) /\ Len(queue) \in Nat
      BY EntryType DEF TypeInv, TypeOK
    <3>2. PICK i \in 1..Len(queue) : queue' = RemoveAt(queue, i)
      BY <2>1, <3>1 DEF FirstWith
    <3>3. /\ DOMAIN queue' = 1..(Len(queue) - 1)
          /\ \A j \in 1..(Len(queue) - 1) :
               queue'[j] = IF j < i THEN queue[j] ELSE queue[j + 1]
      BY <3>1, <3>2, RemoveAtSeq
    <3>4. \A j \in 1..Len(queue) : queue[j].id < 4
      BY EntryType DEF IdsFit, TypeInv
    <3>5. \A j \in 1..(Len(queue) - 1) : j \in 1..Len(queue) /\ j + 1 \in 1..Len(queue)
      BY <3>1
    <3>6. \A j \in 1..(Len(queue) - 1) : queue'[j].id < 4
      BY <3>3, <3>4, <3>5
    <3> QED BY <3>3, <3>6 DEF IdsFit, Range
  <2> QED BY <1>1, <1>5, <2>1 DEF PopRequest
<1>6. CASE Crash \/ Exit \/ FreedUnderWalk \/ flb_buffer_destroy
  BY <1>2, <1>6 DEF Crash, Exit, FreedUnderWalk, Vanish, flb_buffer_destroy
<1>7. CASE \/ \E c \in Chunks : Create(c)
           \/ \E c \in Chunks, o \in OutputSet, ret \in {"POP", "ERROR"} : Result(c, o, ret)
           \/ Flush \/ flb_buffer_engine_event \/ flb_buffer_qchunk_push \/ flb_buffer_stop
           \/ QStop \/ UNCHANGED vars
  BY <1>1, <1>7 DEF Create, Result, Flush, flb_buffer_engine_event, flb_buffer_qchunk_push,
     flb_buffer_stop, QStop, vars, qworker
<1>8. CASE \E w \in Workers : Worker(w)
  BY <1>1, <1>8 DEF Worker, Wait, Manage, flb_buffer_chunk_add, flb_buffer_chunk_real_move,
     Reference, flb_buffer_chunk_delete_ref, flb_buffer_chunk_delete, qworker
<1> QED BY <1>3, <1>4, <1>5, <1>6, <1>7, <1>8 DEF Next, Engine, Qworker

\* With at most three chunks the ids of qchunk_get_id() always fit into the
\* event: what the theorems below ask for then holds by itself.
THEOREM FitCorrect ==
  ~RefMayFail /\ IsFiniteSet(Chunks) /\ Cardinality(Chunks) <= 3 => (Spec => []IdsFit)
<1> SUFFICES ASSUME ~RefMayFail, IsFiniteSet(Chunks), Cardinality(Chunks) <= 3
             PROVE  Spec => []IdsFit
  OBVIOUS
<1> DEFINE I == BufInvariant /\ IdsFit
<1>1. Init => I
  <2>1. Init => IdsFit
    BY EmptyRange DEF Init, IdsFit
  <2>2. Init => BufInvariant
    BY BufInit DEF BufInvariant, RemainingOnly, Init
  <2> QED BY <2>1, <2>2
<1>2. I /\ [Next]_vars => I'
  BY BufStep, FitStep DEF BufInvariant
<1> QED BY <1>1, <1>2, PTL DEF Spec

\* As long as references can be created (open() does not fail) and ids fit:
\* once a chunk is in outgoing/ with its references, each route that was not
\* popped keeps its file and its reference, whatever the workers, the other
\* routes, a stop or a crash do, over any number of starts.
THEOREM BackupCorrect == ~RefMayFail => (Spec /\ []IdsFit => []BackedUp)
<1>1. BufInvariant => BackedUp
  BY DEF BufInvariant, BufInv, DiskInv
<1> QED BY <1>1, BufCorrect, PTL

\* Under the same conditions a reference never outlives the chunk file it
\* names: flb_buffer_chunk_delete() unlinks a file only when no output has one.
THEOREM ReferenceCorrect == ~RefMayFail => (Spec /\ []IdsFit => []ReferenceHasChunk)
<1>1. BufInvariant => ReferenceHasChunk
  BY DEF BufInvariant, BufInv, DiskInv, FileInv, ReferenceHasChunk
<1> QED BY <1>1, BufCorrect, PTL

\* Under the same conditions the entry of a task made of a stored chunk stays on
\* the queue, under the one id the task gives back, until the task is destroyed:
\* a request to give an id back never unmaps or frees what another task reads.
\* (Its data is the mapped file, or NULL from the start if it cannot be mapped.)
THEOREM HeldCorrect == ~RefMayFail => (Spec /\ []IdsFit => []HeldWhileInUse)
<1>1. BufInvariant => HeldWhileInUse
  <2> SUFFICES ASSUME BufInvariant, NEW c \in Chunks, ref_id[c] > 0
               PROVE  \E i \in DOMAIN queue :
                        /\ queue[i].name.chunk = c /\ queue[i].data # "none"
                        /\ \A j \in DOMAIN queue : queue[j].id = ref_id[c] <=> j = i
    BY DEF HeldWhileInUse
  <2>1. TypeOK /\ EntryInv /\ IdInv
    BY DEF BufInvariant, BufInv, TypeInv, MemInv
  <2>2. PICK e \in Range(queue) : e.id = ref_id[c] /\ e.name.chunk = c
    BY <2>1 DEF IdInv
  <2>3. PICK i \in DOMAIN queue : queue[i] = e
    BY <2>1, EntryType
  <2>4. e.data # "none"
    BY <2>1, <2>2 DEF EntryInv
  <2>5. \A j \in DOMAIN queue : queue[j].id = ref_id[c] => j = i
    BY <2>1, <2>2, <2>3 DEF EntryInv
  <2> QED BY <2>2, <2>3, <2>4, <2>5
<1> QED BY <1>1, BufCorrect, PTL

\* Under the same conditions an output is given a chunk again after a restart
\* only if it still has its reference.
THEOREM RemainingCorrect == ~RefMayFail => (Spec /\ []IdsFit => []RemainingOnly)
<1>1. BufInvariant => RemainingOnly
  BY DEF BufInvariant
<1> QED BY <1>1, BufCorrect, PTL
=============================================================================
