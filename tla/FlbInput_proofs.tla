---------------------------- MODULE FlbInput_proofs ----------------------------
(***************************************************************************)
(* Proofs about FlbInput, for any set of tags and any finite set of nodes, *)
(* any limits and any sizes of writes.                                     *)
(***************************************************************************)
EXTENDS FlbInput, FiniteSetTheorems, TLAPS

-------------------------------------------------------------------------------
(* Counting the bytes of the buffers.                                      *)

\* The bytes of finitely many nodes are finitely many.
LEMMA BytesFinite ==
  ASSUME NEW nodes \in SUBSET Nodes, NEW sizes \in [Nodes -> Nat]
  PROVE  /\ IsFiniteSet(Bytes(nodes, sizes))
         /\ Cardinality(Bytes(nodes, sizes)) \in Nat
<1> DEFINE Of(d) == {d} \X (1..sizes[d])
           parts == {Of(d) : d \in nodes}
           f == [d \in nodes |-> Of(d)]
<1>1. IsFiniteSet(nodes)
  BY InputAssumption, FS_Subset DEF InputAssumption
<1>2. IsFiniteSet(parts)
  <2>1. f \in Surjection(nodes, parts)
    BY DEF Surjection
  <2> QED
    BY <1>1, <2>1, FS_Surjection
<1>3. \A T \in parts : IsFiniteSet(T)
  <2> SUFFICES ASSUME NEW d \in nodes PROVE IsFiniteSet(Of(d))
    OBVIOUS
  <2>1. IsFiniteSet({d})
    BY FS_Singleton
  <2>2. IsFiniteSet(1..sizes[d])
    BY FS_Interval
  <2> QED
    BY <2>1, <2>2, FS_Product
<1>4. IsFiniteSet(Bytes(nodes, sizes))
  BY <1>2, <1>3, FS_UNION DEF Bytes
<1> QED
  BY <1>4, FS_CardinalityType

LEMMA BufSizeType ==
  ASSUME NEW fixed \in Nat, NEW nodes \in SUBSET Nodes,
         NEW sizes \in [Nodes -> Nat]
  PROVE  BufSize(fixed, nodes, sizes) \in Nat
BY BytesFinite DEF BufSize

\* Fewer nodes or smaller buffers hold no more bytes.
LEMMA BufSizeShrinks ==
  ASSUME NEW fixed \in Nat, NEW fixed2 \in Nat, fixed2 <= fixed,
         NEW nodes \in SUBSET Nodes, NEW nodes2 \in SUBSET Nodes,
         NEW sizes \in [Nodes -> Nat], NEW sizes2 \in [Nodes -> Nat],
         \A d \in nodes2 : \/ d \in nodes /\ sizes2[d] <= sizes[d]
                           \/ sizes2[d] = 0
  PROVE  BufSize(fixed2, nodes2, sizes2) <= BufSize(fixed, nodes, sizes)
<1> DEFINE B == Bytes(nodes, sizes)
           C == Bytes(nodes2, sizes2)
<1>1. C \subseteq B
  <2> SUFFICES ASSUME NEW d \in nodes2, NEW x \in {d} \X (1..sizes2[d])
               PROVE  x \in B
    BY DEF Bytes
  <2>1. sizes2[d] \in Nat /\ sizes[d] \in Nat
    OBVIOUS
  <2>2. d \in nodes /\ sizes2[d] <= sizes[d]
    BY <2>1
  <2>3. x \in {d} \X (1..sizes[d])
    BY <2>1, <2>2
  <2> QED
    BY <2>2, <2>3 DEF Bytes
<1>2. IsFiniteSet(B) /\ Cardinality(B) \in Nat /\ Cardinality(C) \in Nat
  BY BytesFinite
<1>3. Cardinality(C) <= Cardinality(B)
  BY <1>1, <1>2, FS_Subset
<1> QED
  BY <1>2, <1>3 DEF BufSize

\* Appending n bytes to a node adds n bytes.
LEMMA BufSizeAppend ==
  ASSUME NEW fixed \in Nat, NEW nodes \in SUBSET Nodes, NEW d \in Nodes,
         NEW sizes \in [Nodes -> Nat], NEW n \in Nat, NEW old \in Nat,
         old = IF d \in nodes THEN sizes[d] ELSE 0
  PROVE  BufSize(fixed, nodes \union {d}, [sizes EXCEPT ![d] = old + n])
           <= BufSize(fixed, nodes, sizes) + n
<1> DEFINE sizes2 == [sizes EXCEPT ![d] = old + n]
           B == Bytes(nodes, sizes)
           C == Bytes(nodes \union {d}, sizes2)
           N == {d} \X ((old + 1)..(old + n))
<1>1. sizes2 \in [Nodes -> Nat] /\ sizes2[d] = old + n
      /\ \A e \in Nodes \ {d} : sizes2[e] = sizes[e]
  OBVIOUS
<1>2. C \subseteq B \union N
  <2> SUFFICES ASSUME NEW e \in nodes \union {d}, NEW x \in {e} \X (1..sizes2[e])
               PROVE  x \in B \union N
    BY DEF Bytes
  <2>1. CASE e # d
    <3>1. e \in nodes /\ x \in {e} \X (1..sizes[e])
      BY <1>1, <2>1
    <3> QED
      BY <3>1 DEF Bytes
  <2>2. CASE e = d
    <3>1. x[1] = d /\ x[2] \in 1..(old + n) /\ x = <<x[1], x[2]>>
      BY <1>1, <2>2
    <3>2. CASE x[2] > old
      BY <3>1, <3>2
    <3>3. CASE ~(x[2] > old)
      <4>1. x[2] \in 1..old
        BY <3>1, <3>3
      <4>2. d \in nodes /\ old = sizes[d]
        BY <4>1
      <4>3. x \in {d} \X (1..sizes[d])
        BY <3>1, <4>1, <4>2
      <4> QED
        BY <4>2, <4>3 DEF Bytes
    <3> QED
      BY <3>2, <3>3
  <2> QED
    BY <2>1, <2>2
<1>3. IsFiniteSet(N) /\ Cardinality(N) = n
  <2> DEFINE a == old + 1
             b == old + n
             I == a..b
  <2>1. IsFiniteSet(I) /\ Cardinality(I) = n
    <3>1. a \in Int /\ b \in Int
      OBVIOUS
    <3>2. (IF a > b THEN 0 ELSE b - a + 1) = n
      OBVIOUS
    <3> HIDE DEF a, b
    <3>3. IsFiniteSet(I) /\ Cardinality(I) = IF a > b THEN 0 ELSE b - a + 1
      BY <3>1, FS_Interval
    <3> QED
      BY <3>2, <3>3
  <2>2. IsFiniteSet({d}) /\ Cardinality({d}) = 1
    BY FS_Singleton
  <2> HIDE DEF I
  <2>3. IsFiniteSet({d} \X I) /\ Cardinality({d} \X I) = Cardinality({d}) * Cardinality(I)
    BY <2>1, <2>2, FS_Product
  <2>4. 1 * n = n
    OBVIOUS
  <2> QED
    BY <2>1, <2>2, <2>3, <2>4 DEF I
<1>4. /\ IsFiniteSet(B) /\ Cardinality(B) \in Nat
      /\ IsFiniteSet(C) /\ Cardinality(C) \in Nat
  BY <1>1, BytesFinite
<1>5. /\ IsFiniteSet(B \union N)
      /\ Cardinality(B \union N) = Cardinality(B) + Cardinality(N) - Cardinality(B \intersect N)
  BY <1>3, <1>4, FS_Union
<1>6. Cardinality(B \intersect N) \in Nat
  BY <1>4, FS_Intersection, FS_CardinalityType
<1>7. Cardinality(C) <= Cardinality(B \union N)
  BY <1>2, <1>5, FS_Subset
<1> HIDE DEF B, C, N, sizes2
<1>8. Cardinality(C) <= Cardinality(B) + n
  BY <1>3, <1>4, <1>5, <1>6, <1>7
<1> QED
  BY <1>4, <1>8 DEF BufSize, B, C, sizes2
-------------------------------------------------------------------------------
(* What the parts of the actions do.                                       *)

LEMMA PauseStep ==
  ASSUME Pause, armed \in BOOLEAN, running \in BOOLEAN
  PROVE  /\ mp_buf_status' = "PAUSED"
         /\ armed' \in BOOLEAN /\ running' \in BOOLEAN
         /\ \/ armed' = armed /\ running' = running
            \/ armed' = FALSE /\ running' = FALSE
BY DEF Pause, cb_pause, flb_input_collector_pause, collVars

LEMMA WriteEndStep ==
  ASSUME TypeOK, write_end, mp_sbuf' \in Nat, dyntags' \subseteq Nodes,
         size' \in [Nodes -> Nat]
  PROVE  /\ mp_total_buf_size' \in Nat
         /\ mp_buf_status' \in {"RUNNING", "PAUSED"}
         /\ armed' \in BOOLEAN /\ running' \in BOOLEAN
<1>1. mp_total_buf_size' = BufSize(mp_sbuf', dyntags', size')
  BY DEF write_end
<1>2. Pause \/ UNCHANGED <<mp_buf_status, collVars>>
  BY DEF write_end
<1>3. mp_total_buf_size' \in Nat
  BY <1>1, BufSizeType
<1>4. /\ mp_buf_status' \in {"RUNNING", "PAUSED"}
      /\ armed' \in BOOLEAN /\ running' \in BOOLEAN
  BY <1>2, PauseStep DEF TypeOK, collVars
<1> QED
  BY <1>3, <1>4

LEMMA SizeSetStep ==
  ASSUME NEW nodes \in SUBSET Nodes, flb_input_buf_size_set(nodes),
         mp_sbuf' \in Nat, size' \in [Nodes -> Nat]
  PROVE  /\ mp_total_buf_size' \in Nat
         /\ resuming' \in {"no", "status"}
         /\ resuming' = "status" =>
              /\ mp_buf_status = "PAUSED" /\ is_running
              /\ ~Overlimit(BufSize(mp_sbuf', nodes, size'))
<1>1. /\ mp_total_buf_size' = BufSize(mp_sbuf', nodes, size')
      /\ resuming' = IF /\ ~Overlimit(BufSize(mp_sbuf', nodes, size'))
                        /\ mp_buf_status = "PAUSED" /\ is_running
                     THEN "status" ELSE "no"
  BY DEF flb_input_buf_size_set
<1> QED
  BY <1>1, BufSizeType

\* The node flb_input_dyntag_get() returns, and the open nodes after it.
LEMMA GetStep ==
  ASSUME TypeOK, NodeInv, NEW g \in Tags, NEW d \in Nodes,
         flb_input_dyntag_get(g, d)
  PROVE  /\ dyntags' = dyntags \union {d}
         /\ tag' \in [Nodes -> Tags] /\ busy' \in [Nodes -> BOOLEAN]
         /\ tag'[d] = g /\ ~busy'[d] /\ d \notin tasks
         /\ \A e \in Nodes \ {d} : tag'[e] = tag[e] /\ busy'[e] = busy[e]
         /\ \A e \in dyntags \ {d} : Open(e) => tag[e] # g
<1>1. CASE Open(d) /\ tag[d] = g /\ UNCHANGED <<dyntags, tag, busy>>
  <2>1. d \in dyntags /\ ~busy[d]
    BY <1>1 DEF Open
  <2>2. d \notin tasks
    BY <2>1 DEF NodeInv, NoAppendInFlight
  <2>3. \A e \in dyntags \ {d} : Open(e) => tag[e] # g
    BY <1>1, <2>1 DEF NodeInv, NoAppendInFlight
  <2> QED
    BY <1>1, <2>1, <2>2, <2>3 DEF TypeOK
<1>2. CASE /\ \A e \in Nodes : Open(e) => tag[e] # g
           /\ d \in Nodes \ dyntags
           /\ dyntags' = dyntags \union {d}
           /\ tag' = [tag EXCEPT ![d] = g]
           /\ busy' = [busy EXCEPT ![d] = FALSE]
  <2>1. d \notin tasks
    BY <1>2 DEF TypeOK
  <2>2. /\ tag' \in [Nodes -> Tags] /\ tag'[d] = g
        /\ \A e \in Nodes \ {d} : tag'[e] = tag[e]
    BY <1>2 DEF TypeOK
  <2>3. /\ busy' \in [Nodes -> BOOLEAN] /\ ~busy'[d]
        /\ \A e \in Nodes \ {d} : busy'[e] = busy[e]
    BY <1>2 DEF TypeOK
  <2> QED
    BY <1>2, <2>1, <2>2, <2>3 DEF TypeOK
<1> QED
  BY <1>1, <1>2 DEF flb_input_dyntag_get

\* A visit of a node takes its buffer out; the node becomes busy.
LEMMA VisitStep ==
  ASSUME TypeOK, NodeInv, NEW d \in Nodes, d # "fixed", Visiting(d),
         flb_input_dyntag_flush(d)
  PROVE  /\ d \in dyntags /\ ~busy[d] /\ d \notin tasks
         /\ busy' \in [Nodes -> BOOLEAN] /\ lock' \in [Nodes -> BOOLEAN]
         /\ size' \in [Nodes -> Nat]
         /\ busy'[d] = TRUE /\ size'[d] = 0
         /\ \A e \in Nodes \ {d} : /\ busy'[e] = busy[e] /\ size'[e] = size[e]
                                   /\ lock'[e] = lock[e]
         /\ UNCHANGED <<mp_sbuf, tag, dyn, routed, plugin, mp_buf_status, armed,
                        running, is_running, exited>>
         /\ flushing' = flushing \ {d} /\ resuming = "no"
<1>1. d \in dyntags /\ ~busy[d]
  BY DEF NodeInv, FlushInv, Visiting
<1>2. d \notin tasks
  BY <1>1 DEF NodeInv, NoAppendInFlight
<1>3. /\ busy' = [busy EXCEPT ![d] = TRUE]
      /\ lock' = [lock EXCEPT ![d] = FALSE]
      /\ size' = [size EXCEPT ![d] = 0]
      /\ UNCHANGED <<mp_sbuf, tag>>
  BY DEF flb_input_dyntag_flush
<1>4. /\ busy' \in [Nodes -> BOOLEAN] /\ busy'[d] = TRUE
      /\ \A e \in Nodes \ {d} : busy'[e] = busy[e]
  BY <1>3 DEF TypeOK
<1>5. /\ size' \in [Nodes -> Nat] /\ size'[d] = 0
      /\ \A e \in Nodes \ {d} : size'[e] = size[e]
  BY <1>3 DEF TypeOK
<1>6. /\ lock' \in [Nodes -> BOOLEAN]
      /\ \A e \in Nodes \ {d} : lock'[e] = lock[e]
  BY <1>3 DEF TypeOK
<1>7. /\ UNCHANGED <<dyn, routed, plugin, mp_buf_status, armed,
                     running, is_running, exited>>
      /\ flushing' = flushing \ {d} /\ resuming = "no"
  BY DEF Visiting, kind, collVars, exitVars
<1> QED
  BY <1>1, <1>2, <1>3, <1>4, <1>5, <1>6, <1>7
-------------------------------------------------------------------------------
(* Types, and the nodes.  That tasks own nodes of the list is part of the  *)
(* type invariant and needs FlushInv, so the two are proved together.      *)

\* The invariants hold when the plugin has been started.
LEMMA InputInit ==
  ASSUME Init
  PROVE  TypeOK /\ NodeInv /\ LimitInv /\ LimitHolds /\ CollInv /\ ExitInv
<1>1. (CHOOSE g \in Tags : TRUE) \in Tags
  BY InputAssumption DEF InputAssumption
<1>2. TypeOK
  <2>1. tag \in [Nodes -> Tags] /\ size \in [Nodes -> Nat]
    BY <1>1 DEF Init
  <2>2. busy \in [Nodes -> BOOLEAN] /\ lock \in [Nodes -> BOOLEAN]
    BY DEF Init
  <2>3. n_tasks \in 0..MaxTasks
    BY InputAssumption DEF Init, InputAssumption
  <2> QED
    BY <2>1, <2>2, <2>3 DEF Init, TypeOK
<1>3. NodeInv
  BY DEF Init, NodeInv, FlushInv, NoAppendInFlight
<1>4. BufSize(mp_sbuf, dyntags, size) = 0
  <2>1. Bytes({}, size) = {}
    BY DEF Bytes
  <2>2. Cardinality({}) = 0
    BY FS_EmptySet
  <2> QED
    BY <2>1, <2>2 DEF Init, BufSize
<1>5. LimitInv
  BY <1>4, InputAssumption DEF LimitInv, InputAssumption
<1>6. LimitHolds
  <2>1. PICK n \in Sizes : n \in Nat /\ n > 0
    <3>1. Sizes # {} /\ \A n \in Sizes : n \in Nat /\ n > 0
      BY InputAssumption DEF InputAssumption
    <3> QED
      BY <3>1
  <2> QED
    BY <1>4, <2>1, InputAssumption DEF LimitHolds, InputAssumption
<1>7. CollInv /\ ExitInv
  BY DEF Init, CollInv, ExitInv
<1> QED
  BY <1>2, <1>3, <1>5, <1>6, <1>7

\* A visited node ends up in a task, off the list, or busy on it: in any case
\* the others are as they were.
LEMMA VisitNodes ==
  ASSUME TypeOK, NodeInv, NEW d \in Nodes, d # "fixed", Visiting(d),
         flb_input_dyntag_flush(d),
         \/ dyntags' = dyntags /\ tasks' \in {tasks, tasks \union {d}}
         \/ dyntags' = dyntags \ {d} /\ tasks' = tasks,
         resuming' \in {"no", "status"}, mp_total_buf_size' \in Nat,
         n_tasks' = n_tasks, dropped' \in BOOLEAN
  PROVE  TypeOK' /\ NodeInv'
<1>1. /\ d \in dyntags /\ ~busy[d] /\ d \notin tasks
      /\ busy' \in [Nodes -> BOOLEAN] /\ lock' \in [Nodes -> BOOLEAN]
      /\ size' \in [Nodes -> Nat]
      /\ busy'[d] = TRUE /\ size'[d] = 0
      /\ \A e \in Nodes \ {d} : /\ busy'[e] = busy[e] /\ size'[e] = size[e]
                                /\ lock'[e] = lock[e]
      /\ UNCHANGED <<mp_sbuf, tag, dyn, routed, plugin, mp_buf_status, armed,
                     running, is_running, exited>>
      /\ flushing' = flushing \ {d} /\ resuming = "no"
  BY VisitStep
<1>2. TypeOK'
  <2>1. dyntags' \subseteq Nodes /\ tasks' \subseteq dyntags'
    BY <1>1 DEF TypeOK
  <2>2. flushing' \subseteq Nodes \union {"fixed"}
    BY <1>1 DEF TypeOK
  <2> QED
    BY <1>1, <2>1, <2>2 DEF TypeOK
<1>3. FlushInv'
  <2> SUFFICES ASSUME NEW e \in flushing', e # "fixed"
               PROVE  e \in dyntags' /\ ~busy'[e]
    BY DEF FlushInv
  <2>1. e \in flushing /\ e # d
    BY <1>1
  <2>2. e \in dyntags /\ ~busy[e] /\ e \in Nodes
    BY <2>1 DEF NodeInv, FlushInv, TypeOK
  <2> QED
    BY <1>1, <2>1, <2>2
<1>4. \A e \in tasks' : busy'[e] /\ size'[e] = 0
  <2> SUFFICES ASSUME NEW e \in tasks', e # d
               PROVE  busy'[e] /\ size'[e] = 0
    BY <1>1
  <2>1. e \in tasks /\ e \in Nodes
    BY DEF TypeOK
  <2>2. busy[e] /\ size[e] = 0
    BY <2>1 DEF NodeInv, NoAppendInFlight
  <2> QED
    BY <1>1, <2>1, <2>2
<1>5. \A e \in dyntags' : Open(e)' => e # d /\ e \in dyntags /\ Open(e) /\ tag'[e] = tag[e]
  BY <1>1 DEF Open, TypeOK
<1>6. \A e, f \in dyntags' : Open(e)' /\ Open(f)' /\ tag'[e] = tag'[f] => e = f
  BY <1>5 DEF NodeInv, NoAppendInFlight
<1> QED
  BY <1>2, <1>3, <1>4, <1>6 DEF NodeInv, NoAppendInFlight

\* Appending to a node keeps what NodeInv says: the task's nodes are busy, and
\* flb_input_dyntag_get() makes no second open node of a tag.
LEMMA AppendNodes ==
  ASSUME TypeOK, NodeInv, NEW g \in Tags, NEW d \in Nodes,
         flb_input_dyntag_get(g, d), flushing' = {}, tasks' = tasks,
         size' \in [Nodes -> Nat], lock' \in [Nodes -> BOOLEAN],
         \A e \in Nodes \ {d} : size'[e] = size[e] /\ lock'[e] = lock[e]
  PROVE  /\ NodeInv'
         /\ dyntags' = dyntags \union {d} /\ dyntags' \subseteq Nodes
         /\ tasks' \subseteq dyntags'
         /\ tag' \in [Nodes -> Tags] /\ busy' \in [Nodes -> BOOLEAN]
<1>1. /\ dyntags' = dyntags \union {d}
      /\ tag' \in [Nodes -> Tags] /\ busy' \in [Nodes -> BOOLEAN]
      /\ tag'[d] = g /\ ~busy'[d] /\ d \notin tasks
      /\ \A e \in Nodes \ {d} : tag'[e] = tag[e] /\ busy'[e] = busy[e]
      /\ \A e \in dyntags \ {d} : Open(e) => tag[e] # g
  BY GetStep
<1>2. FlushInv'
  BY DEF FlushInv
<1>3. \A e \in tasks' : busy'[e] /\ size'[e] = 0
  <2> SUFFICES ASSUME NEW e \in tasks PROVE busy'[e] /\ size'[e] = 0
    OBVIOUS
  <2>1. busy[e] /\ size[e] = 0 /\ e \in Nodes /\ e # d
    BY <1>1 DEF NodeInv, NoAppendInFlight, TypeOK
  <2> QED
    BY <1>1, <2>1
<1>4. \A e \in dyntags' \ {d} :
        e \in dyntags /\ tag'[e] = tag[e] /\ (Open(e)' => Open(e))
  BY <1>1 DEF Open, TypeOK
<1>5. \A e, f \in dyntags' : Open(e)' /\ Open(f)' /\ tag'[e] = tag'[f] => e = f
  <2> SUFFICES ASSUME NEW e \in dyntags', NEW f \in dyntags', e # f,
                      Open(e)', Open(f)', tag'[e] = tag'[f]
               PROVE  FALSE
    OBVIOUS
  <2>1. CASE e # d /\ f # d
    BY <1>4, <2>1 DEF NodeInv, NoAppendInFlight
  <2>2. CASE e = d
    BY <1>1, <1>4, <2>2
  <2>3. CASE f = d
    BY <1>1, <1>4, <2>3
  <2> QED
    BY <2>1, <2>2, <2>3
<1> QED
  BY <1>1, <1>2, <1>3, <1>5 DEF NodeInv, NoAppendInFlight, TypeOK

\* Every step keeps the types and what NodeInv says of the nodes.
LEMMA NodeNext ==
  ASSUME TypeOK, NodeInv, [Next]_vars
  PROVE  TypeOK' /\ NodeInv'
<1> USE DEF kind, bufVars, collVars, taskVars, exitVars
<1>1. ASSUME NEW n \in Sizes \union {0}, Write(n)
      PROVE  TypeOK' /\ NodeInv'
  <2>1. /\ UNCHANGED <<dyn, routed, plugin, dyntags, tag, size, busy, lock, tasks,
                       n_tasks, flushing, resuming, is_running, exited, dropped>>
        /\ mp_sbuf' = mp_sbuf + n /\ write_end
    BY <1>1 DEF Write
  <2>2. mp_sbuf' \in Nat
    BY <2>1, InputAssumption DEF TypeOK, InputAssumption
  <2>3. /\ mp_total_buf_size' \in Nat
        /\ mp_buf_status' \in {"RUNNING", "PAUSED"}
        /\ armed' \in BOOLEAN /\ running' \in BOOLEAN
    BY <2>1, <2>2, WriteEndStep DEF TypeOK
  <2>4. TypeOK'
    BY <2>1, <2>2, <2>3 DEF TypeOK
  <2> QED
    BY <2>1, <2>4 DEF NodeInv, FlushInv, NoAppendInFlight, Open
<1>2. ASSUME NEW g \in Tags, NEW d \in Nodes, NEW n \in Sizes \union {0},
             Append(g, d, n)
      PROVE  TypeOK' /\ NodeInv'
  <2> DEFINE old == IF d \in dyntags THEN size[d] ELSE 0
  <2>1. /\ flb_input_dyntag_get(g, d) /\ flushing = {}
        /\ size' = [size EXCEPT ![d] = old + n]
        /\ lock' = [lock EXCEPT ![d] = old + n > LockSize]
        /\ UNCHANGED <<dyn, routed, plugin, mp_sbuf, tasks, n_tasks, flushing,
                       resuming, is_running, exited, dropped>>
        /\ write_end
    BY <1>2 DEF Append, Collecting, Idle
  <2>2. old + n \in Nat
    BY InputAssumption DEF TypeOK, InputAssumption
  <2>3. /\ size' \in [Nodes -> Nat]
        /\ \A e \in Nodes \ {d} : size'[e] = size[e]
    BY <2>1, <2>2 DEF TypeOK
  <2>4. /\ lock' \in [Nodes -> BOOLEAN]
        /\ \A e \in Nodes \ {d} : lock'[e] = lock[e]
    BY <2>1 DEF TypeOK
  <2>5. /\ NodeInv'
        /\ dyntags' \subseteq Nodes /\ tasks' \subseteq dyntags'
        /\ tag' \in [Nodes -> Tags] /\ busy' \in [Nodes -> BOOLEAN]
    BY <2>1, <2>3, <2>4, AppendNodes
  <2>6. /\ mp_total_buf_size' \in Nat
        /\ mp_buf_status' \in {"RUNNING", "PAUSED"}
        /\ armed' \in BOOLEAN /\ running' \in BOOLEAN
    BY <2>1, <2>3, <2>5, WriteEndStep DEF TypeOK
  <2> QED
    BY <2>1, <2>3, <2>4, <2>5, <2>6 DEF TypeOK
<1>3. ASSUME NEW g \in Tags, NEW d \in Nodes, AppendPaused(g, d)
      PROVE  TypeOK' /\ NodeInv'
  <2>1. /\ flb_input_dyntag_get(g, d) /\ flushing = {}
        /\ size' = IF d \in dyntags THEN size ELSE [size EXCEPT ![d] = 0]
        /\ lock' = IF d \in dyntags THEN lock ELSE [lock EXCEPT ![d] = FALSE]
        /\ UNCHANGED <<dyn, routed, plugin, mp_sbuf, mp_total_buf_size,
                       mp_buf_status, armed, running, tasks, n_tasks, flushing,
                       resuming, is_running, exited, dropped>>
    BY <1>3 DEF AppendPaused, Collecting, Idle
  <2>2. /\ size' \in [Nodes -> Nat]
        /\ \A e \in Nodes \ {d} : size'[e] = size[e]
    BY <2>1 DEF TypeOK
  <2>3. /\ lock' \in [Nodes -> BOOLEAN]
        /\ \A e \in Nodes \ {d} : lock'[e] = lock[e]
    BY <2>1 DEF TypeOK
  <2>4. /\ NodeInv'
        /\ dyntags' \subseteq Nodes /\ tasks' \subseteq dyntags'
        /\ tag' \in [Nodes -> Tags] /\ busy' \in [Nodes -> BOOLEAN]
    BY <2>1, <2>2, <2>3, AppendNodes
  <2> QED
    BY <2>1, <2>2, <2>3, <2>4 DEF TypeOK
<1>4. CASE ResumeStatus
  BY <1>4 DEF ResumeStatus, TypeOK, NodeInv, FlushInv, NoAppendInFlight, Open
<1>5. CASE ResumeCallback
  BY <1>5 DEF ResumeCallback, cb_resume, flb_input_collector_resume, TypeOK,
              NodeInv, FlushInv, NoAppendInFlight, Open
<1>6. CASE FlushBegin
  BY <1>6 DEF FlushBegin, TypeOK, NodeInv, FlushInv, NoAppendInFlight, Open
<1>7. ASSUME NEW d \in Nodes, FlushNoTask(d)
      PROVE  TypeOK' /\ NodeInv'
  <2>1. /\ d # "fixed" /\ Visiting(d) /\ flb_input_dyntag_flush(d)
        /\ UNCHANGED <<dyntags, mp_total_buf_size, tasks, n_tasks, resuming>>
        /\ dropped' \in BOOLEAN /\ resuming' = "no"
    BY <1>7 DEF FlushNoTask, TypeOK, Visiting
  <2> QED
    BY <2>1, VisitNodes DEF TypeOK
<1>8. ASSUME NEW d \in Nodes, FlushTask(d)
      PROVE  TypeOK' /\ NodeInv'
  <2>1. /\ d # "fixed" /\ Visiting(d) /\ flb_input_dyntag_flush(d)
        /\ tasks' = tasks \union {d}
        /\ UNCHANGED <<dyntags, mp_total_buf_size, n_tasks, resuming, dropped>>
        /\ resuming' = "no"
    BY <1>8 DEF FlushTask, Visiting
  <2> QED
    BY <2>1, VisitNodes DEF TypeOK
<1>9. ASSUME NEW d \in Nodes, FlushUnmatched(d)
      PROVE  TypeOK' /\ NodeInv'
  <2>1. /\ d # "fixed" /\ Visiting(d) /\ flb_input_dyntag_flush(d)
        /\ dyntags' = dyntags \ {d}
        /\ flb_input_buf_size_set(dyntags')
        /\ UNCHANGED <<tasks, n_tasks, dropped>>
    BY <1>9 DEF FlushUnmatched
  <2>2. mp_sbuf' \in Nat /\ size' \in [Nodes -> Nat]
    BY <2>1, VisitStep DEF TypeOK
  <2>3. dyntags' \in SUBSET Nodes
    BY <2>1 DEF TypeOK
  <2>4. mp_total_buf_size' \in Nat /\ resuming' \in {"no", "status"}
    BY <2>1, <2>2, <2>3, SizeSetStep
  <2> QED
    BY <2>1, <2>4, VisitNodes DEF TypeOK
<1>10. CASE FlushFixedNoTask
  BY <1>10 DEF FlushFixedNoTask, Visiting, TypeOK, NodeInv, FlushInv,
               NoAppendInFlight, Open
<1>11. CASE FlushFixedTask
  BY <1>11, InputAssumption
     DEF FlushFixedTask, Visiting, TypeOK, NodeInv, FlushInv,
         NoAppendInFlight, Open, InputAssumption
<1>12. CASE FlushFixedUnmatched
  <2>1. /\ UNCHANGED <<dyn, routed, plugin, dyntags, tag, size, busy, lock,
                       mp_buf_status, armed, running, tasks, n_tasks,
                       is_running, exited, dropped>>
        /\ mp_sbuf' = 0 /\ flushing' = flushing \ {"fixed"}
        /\ flb_input_buf_size_set(dyntags)
    BY <1>12 DEF FlushFixedUnmatched, Visiting
  <2>2. mp_total_buf_size' \in Nat /\ resuming' \in {"no", "status"}
    BY <2>1, SizeSetStep DEF TypeOK
  <2> QED
    BY <2>1, <2>2 DEF TypeOK, NodeInv, FlushInv, NoAppendInFlight, Open
<1>13. ASSUME NEW d \in Nodes, TaskEnd(d)
       PROVE  TypeOK' /\ NodeInv'
  <2>1. /\ UNCHANGED <<dyn, routed, plugin, mp_sbuf, tag, size, busy, lock,
                       mp_buf_status, armed, running, n_tasks, flushing,
                       is_running, exited, dropped>>
        /\ tasks' = tasks \ {d} /\ dyntags' = dyntags \ {d} /\ flushing = {}
        /\ flb_input_buf_size_set(dyntags')
    BY <1>13 DEF TaskEnd, Idle
  <2>2. dyntags' \in SUBSET Nodes /\ tasks' \subseteq dyntags'
    BY <2>1 DEF TypeOK
  <2>3. mp_total_buf_size' \in Nat /\ resuming' \in {"no", "status"}
    BY <2>1, <2>2, SizeSetStep DEF TypeOK
  <2>4. TypeOK'
    BY <2>1, <2>2, <2>3 DEF TypeOK
  <2> QED
    BY <2>1, <2>4 DEF NodeInv, FlushInv, NoAppendInFlight, Open
<1>14. CASE TaskEndFixed
  <2>1. /\ UNCHANGED <<dyn, routed, plugin, mp_sbuf, dyntags, tag, size, busy,
                       lock, mp_buf_status, armed, running, tasks, flushing,
                       is_running, exited, dropped>>
        /\ n_tasks > 0 /\ n_tasks' = n_tasks - 1
        /\ flb_input_buf_size_set(dyntags)
    BY <1>14 DEF TaskEndFixed
  <2>2. mp_total_buf_size' \in Nat /\ resuming' \in {"no", "status"}
    BY <2>1, SizeSetStep DEF TypeOK
  <2>3. n_tasks' \in 0..MaxTasks
    BY <2>1, InputAssumption DEF TypeOK, InputAssumption
  <2>4. TypeOK'
    BY <2>1, <2>2, <2>3 DEF TypeOK
  <2> QED
    BY <2>1, <2>4 DEF NodeInv, FlushInv, NoAppendInFlight, Open
<1>15. CASE ExitBegin
  BY <1>15 DEF ExitBegin, TypeOK, NodeInv, FlushInv, NoAppendInFlight, Open
<1>16. CASE flb_input_pause_all
  <2>1. Pause
    BY <1>16 DEF flb_input_pause_all
  <2>2. /\ mp_buf_status' = "PAUSED"
        /\ armed' \in BOOLEAN /\ running' \in BOOLEAN
    BY <2>1, PauseStep DEF TypeOK
  <2> QED
    BY <1>16, <2>2 DEF flb_input_pause_all, TypeOK, NodeInv, FlushInv,
                       NoAppendInFlight, Open
<1>17. CASE UNCHANGED vars
  BY <1>17 DEF vars, TypeOK, NodeInv, FlushInv, NoAppendInFlight, Open
<1> QED
  BY <1>1, <1>2, <1>3, <1>4, <1>5, <1>6, <1>7, <1>8, <1>9, <1>10, <1>11, <1>12,
     <1>13, <1>14, <1>15, <1>16, <1>17 DEF Next

(***************************************************************************)
(* Type correctness of the input instance.                                 *)
(***************************************************************************)
THEOREM TypeCorrect == Spec => []TypeOK
<1>1. Init => TypeOK /\ NodeInv
  BY InputInit
<1>2. TypeOK /\ NodeInv /\ [Next]_vars => (TypeOK /\ NodeInv)'
  BY NodeNext
<1> QED
  BY <1>1, <1>2, PTL DEF Spec

(***************************************************************************)
(* A node whose records belong to a task takes no more of them, and no tag *)
(* has two open nodes, whatever the interleaving of writes, flushes, ends  *)
(* of tasks, resumes and flb_engine_exit().                                *)
(***************************************************************************)
THEOREM NodesCorrect == Spec => []NoAppendInFlight
<1>1. Init => TypeOK /\ NodeInv
  BY InputInit
<1>2. TypeOK /\ NodeInv /\ [Next]_vars => (TypeOK /\ NodeInv)'
  BY NodeNext
<1>3. NodeInv => NoAppendInFlight
  BY DEF NodeInv
<1> QED
  BY <1>1, <1>2, <1>3, PTL DEF Spec
-------------------------------------------------------------------------------
(* The memory limit.                                                       *)

Total == BufSize(mp_sbuf, dyntags, size)

\* What a write does to the total: n bytes are added and over the limit the
\* instance is paused, ...
Writes(n) ==
  /\ mp_buf_status = "RUNNING" /\ resuming = "no" /\ resuming' = "no"
  /\ Total' <= Total + n
  /\ Overlimit(Total') => mp_buf_status' = "PAUSED"

\* ... and what any other step does: nothing is added, and an instance is only
\* about to run again below the limit.
Drains ==
  /\ Total' <= Total
  /\ mp_buf_status' = "RUNNING" => mp_buf_status = "RUNNING" \/ resuming = "status"
  /\ resuming' = "status" => resuming = "status" \/ ~Overlimit(Total')

\* Removing nodes and emptying buffers, with flb_input_buf_size_set().
LEMMA SizeSetDrains ==
  ASSUME TypeOK, flb_input_buf_size_set(dyntags'), mp_sbuf' \in Nat,
         mp_sbuf' <= mp_sbuf, dyntags' \subseteq dyntags,
         size' \in [Nodes -> Nat], \A d \in Nodes : size'[d] <= size[d],
         mp_buf_status' = mp_buf_status
  PROVE  Drains
<1>1. Total' <= Total
  BY BufSizeShrinks DEF TypeOK, Total
<1>2. resuming' = "status" => ~Overlimit(Total')
  BY SizeSetStep DEF TypeOK, Total
<1> QED
  BY <1>1, <1>2 DEF Drains

\* The same for a step that leaves flb_input_buf_size_set() alone.
LEMMA QuietDrains ==
  ASSUME TypeOK, mp_sbuf' \in Nat, mp_sbuf' <= mp_sbuf,
         dyntags' \subseteq Nodes, size' \in [Nodes -> Nat],
         \A d \in dyntags' : \/ d \in dyntags /\ size'[d] <= size[d]
                            \/ size'[d] = 0,
         mp_buf_status' = "RUNNING" =>
           mp_buf_status = "RUNNING" \/ resuming = "status",
         resuming' = resuming \/ resuming' # "status"
  PROVE  Drains
<1>1. Total' <= Total
  BY BufSizeShrinks DEF TypeOK, Total
<1> QED
  BY <1>1 DEF Drains

\* Nothing else happens to the total.
LEMMA TotalStep ==
  ASSUME TypeOK, NodeInv, [Next]_vars
  PROVE  Drains \/ \E n \in Sizes \union {0} : Writes(n)
<1> USE DEF kind, bufVars, collVars, taskVars, exitVars
<1>t. TypeOK'
  BY NodeNext
<1>p. \A n \in Sizes \union {0} : n \in Nat
  BY InputAssumption DEF InputAssumption
<1>1. ASSUME NEW n \in Sizes \union {0}, Write(n)
      PROVE  Writes(n)
  <2>1. /\ mp_sbuf' = mp_sbuf + n /\ UNCHANGED <<dyntags, size>>
        /\ mp_buf_status = "RUNNING" /\ resuming = "no" /\ resuming' = "no"
        /\ write_end
    BY <1>1 DEF Write, Collecting, Idle
  <2>2. Total' = Total + n
    <3> DEFINE c == Cardinality(Bytes(dyntags, size))
    <3>1. c \in Nat /\ mp_sbuf \in Nat
      BY BytesFinite DEF TypeOK
    <3>2. Total = mp_sbuf + c /\ Total' = (mp_sbuf + n) + c
      BY <2>1 DEF Total, BufSize
    <3> HIDE DEF c
    <3> QED
      BY <1>p, <3>1, <3>2
  <2>3. Overlimit(Total') => mp_buf_status' = "PAUSED"
    BY <2>1 DEF write_end, Pause, Total
  <2>4. Total' <= Total + n
    <3>1. Total' \in Nat
      BY <1>t, BufSizeType DEF TypeOK, Total
    <3> QED
      BY <2>2, <3>1
  <2> QED
    BY <2>1, <2>3, <2>4 DEF Writes
<1>2. ASSUME NEW g \in Tags, NEW d \in Nodes, NEW n \in Sizes \union {0},
             Append(g, d, n)
      PROVE  Writes(n)
  <2> DEFINE old == IF d \in dyntags THEN size[d] ELSE 0
  <2>1. /\ flb_input_dyntag_get(g, d) /\ mp_sbuf' = mp_sbuf
        /\ size' = [size EXCEPT ![d] = old + n]
        /\ mp_buf_status = "RUNNING" /\ resuming = "no" /\ resuming' = "no"
        /\ write_end
    BY <1>2 DEF Append, Collecting, Idle
  <2>2. dyntags' = dyntags \union {d}
    BY <2>1, GetStep
  <2>3. Total' = BufSize(mp_sbuf, dyntags \union {d}, [size EXCEPT ![d] = old + n])
    BY <2>1, <2>2 DEF Total
  <2>4. old \in Nat /\ n \in Nat
    BY <1>p DEF TypeOK
  <2>5. Total' <= Total + n
    BY <2>3, <2>4, BufSizeAppend DEF TypeOK, Total
  <2>6. Overlimit(Total') => mp_buf_status' = "PAUSED"
    BY <2>1 DEF write_end, Pause, Total
  <2> QED
    BY <2>1, <2>5, <2>6 DEF Writes
<1>3. ASSUME NEW g \in Tags, NEW d \in Nodes, AppendPaused(g, d)
      PROVE  Drains
  <2>1. /\ flb_input_dyntag_get(g, d)
        /\ size' = IF d \in dyntags THEN size ELSE [size EXCEPT ![d] = 0]
        /\ UNCHANGED <<mp_sbuf, mp_buf_status, resuming>>
    BY <1>3 DEF AppendPaused
  <2>2. dyntags' = dyntags \union {d}
    BY <2>1, GetStep
  <2>3. \A e \in dyntags' : \/ e \in dyntags /\ size'[e] <= size[e]
                            \/ size'[e] = 0
    BY <2>1, <2>2 DEF TypeOK
  <2> QED
    BY <1>t, <2>1, <2>3, QuietDrains DEF TypeOK
<1>4. CASE ResumeStatus \/ ResumeCallback \/ FlushBegin \/ ExitBegin
           \/ flb_input_pause_all \/ UNCHANGED vars
  <2>1. UNCHANGED <<mp_sbuf, dyntags, size>>
    BY <1>4 DEF ResumeStatus, ResumeCallback, FlushBegin, ExitBegin,
                flb_input_pause_all, vars
  <2>2. /\ mp_buf_status' = "RUNNING" =>
             mp_buf_status = "RUNNING" \/ resuming = "status"
        /\ resuming' = resuming \/ resuming' # "status"
    BY <1>4 DEF ResumeStatus, ResumeCallback, FlushBegin, ExitBegin,
                flb_input_pause_all, Pause, vars
  <2>3. /\ \A d \in dyntags' : d \in dyntags /\ size'[d] <= size[d]
        /\ mp_sbuf' <= mp_sbuf
    BY <2>1 DEF TypeOK
  <2> QED
    BY <1>t, <2>2, <2>3, QuietDrains DEF TypeOK
<1>5. ASSUME NEW d \in Nodes,
             FlushNoTask(d) \/ FlushTask(d) \/ FlushUnmatched(d)
      PROVE  Drains
  <2>1. d # "fixed" /\ Visiting(d) /\ flb_input_dyntag_flush(d)
    BY <1>5 DEF FlushNoTask, FlushTask, FlushUnmatched
  <2>2. /\ size'[d] = 0 /\ \A e \in Nodes \ {d} : size'[e] = size[e]
        /\ UNCHANGED <<mp_sbuf, mp_buf_status>> /\ resuming = "no"
    BY <2>1, VisitStep
  <2>3. /\ \A e \in Nodes : size'[e] <= size[e]
        /\ mp_sbuf' <= mp_sbuf
    BY <2>2 DEF TypeOK
  <2>4. CASE FlushUnmatched(d)
    <3>1. flb_input_buf_size_set(dyntags') /\ dyntags' \subseteq dyntags
      BY <2>4 DEF FlushUnmatched
    <3> QED
      BY <1>t, <2>2, <2>3, <3>1, SizeSetDrains DEF TypeOK
  <2>5. CASE FlushNoTask(d) \/ FlushTask(d)
    <3>1. dyntags' = dyntags /\ resuming' = resuming
      BY <2>5 DEF FlushNoTask, FlushTask
    <3>2. \A e \in dyntags' : e \in dyntags /\ size'[e] <= size[e]
      BY <2>3, <3>1 DEF TypeOK
    <3> QED
      BY <1>t, <2>2, <2>3, <3>1, <3>2, QuietDrains DEF TypeOK
  <2> QED
    BY <1>5, <2>4, <2>5
<1>6. CASE FlushFixedNoTask \/ FlushFixedTask
  <2>1. /\ UNCHANGED <<dyntags, size, mp_buf_status, resuming>> /\ mp_sbuf' = 0
    BY <1>6 DEF FlushFixedNoTask, FlushFixedTask, Visiting
  <2>2. /\ \A d \in dyntags' : d \in dyntags /\ size'[d] <= size[d]
        /\ mp_sbuf' <= mp_sbuf
    BY <2>1 DEF TypeOK
  <2> QED
    BY <1>t, <2>1, <2>2, QuietDrains DEF TypeOK
<1>7. CASE FlushFixedUnmatched \/ TaskEndFixed \/ \E d \in Nodes : TaskEnd(d)
  <2>1. /\ flb_input_buf_size_set(dyntags') /\ dyntags' \subseteq dyntags
        /\ mp_sbuf' \in {0, mp_sbuf} /\ UNCHANGED <<size, mp_buf_status>>
    BY <1>7 DEF FlushFixedUnmatched, TaskEndFixed, TaskEnd, Visiting
  <2>2. /\ \A d \in Nodes : size'[d] <= size[d]
        /\ mp_sbuf' <= mp_sbuf
    BY <2>1 DEF TypeOK
  <2> QED
    BY <1>t, <2>1, <2>2, SizeSetDrains DEF TypeOK
<1> QED
  BY <1>1, <1>2, <1>3, <1>4, <1>5, <1>6, <1>7 DEF Next

\* Both parts of what is known about the total are kept.
LEMMA LimitNext ==
  ASSUME TypeOK, NodeInv, LimitInv, LimitHolds, [Next]_vars
  PROVE  LimitInv' /\ LimitHolds'
<1> SUFFICES ASSUME Limit > 0 PROVE LimitInv' /\ LimitHolds'
  BY DEF LimitInv, LimitHolds
<1>1. Total \in Nat /\ Total' \in Nat
  BY NodeNext, BufSizeType DEF TypeOK, Total
<1>2. Limit \in Nat /\ Sizes # {} /\ \A n \in Sizes : n \in Nat /\ n > 0
  BY InputAssumption DEF InputAssumption
<1>3. /\ mp_buf_status = "RUNNING" \/ resuming = "status" => Total < Limit
      /\ \E n \in Sizes : Total < Limit + n
  BY DEF LimitInv, LimitHolds, Total
<1>4. CASE Drains
  <2>1. \E n \in Sizes : Total' < Limit + n
    BY <1>1, <1>2, <1>3, <1>4 DEF Drains
  <2>2. mp_buf_status' = "RUNNING" \/ resuming' = "status" => Total' < Limit
    BY <1>1, <1>2, <1>3, <1>4 DEF Drains, Overlimit
  <2> QED
    BY <2>1, <2>2 DEF LimitInv, LimitHolds, Total
<1>5. ASSUME NEW n \in Sizes \union {0}, Writes(n)
      PROVE  LimitInv' /\ LimitHolds'
  <2>1. \E m \in Sizes : n <= m
    BY <1>2
  <2>2. Total < Limit /\ Total' <= Total + n
    BY <1>3, <1>5 DEF Writes
  <2>3. \E m \in Sizes : Total' < Limit + m
    BY <1>1, <1>2, <2>1, <2>2
  <2>4. mp_buf_status' = "RUNNING" \/ resuming' = "status" => Total' < Limit
    BY <1>1, <1>2, <1>5 DEF Writes, Overlimit
  <2> QED
    BY <2>3, <2>4 DEF LimitInv, LimitHolds, Total
<1> QED
  BY <1>4, <1>5, TotalStep

(***************************************************************************)
(* The memory limit works for any limit, any sizes of writes and any       *)
(* number of buffers: they never hold more than the limit and one write.   *)
(***************************************************************************)
THEOREM LimitCorrect == Spec => []LimitHolds
<1> DEFINE Inv == TypeOK /\ NodeInv /\ LimitInv /\ LimitHolds
<1>1. Init => Inv
  BY InputInit
<1>2. Inv /\ [Next]_vars => Inv'
  BY NodeNext, LimitNext
<1>3. Inv => LimitHolds
  OBVIOUS
<1> QED
  BY <1>1, <1>2, <1>3, PTL DEF Spec
-------------------------------------------------------------------------------
(* Status and collector.                                                   *)

\* A running instance is paused together with its collector.
LEMMA PauseStops ==
  ASSUME TypeOK, CollInv, mp_buf_status = "RUNNING", resuming = "no", Pause,
         UNCHANGED <<plugin, resuming, is_running>>
  PROVE  CollInv'
BY InputAssumption DEF CollInv, Pause, cb_pause, flb_input_collector_pause,
                       collVars, TypeOK, InputAssumption

\* The end of a write either leaves status and collector alone or pauses.
LEMMA WriteEndColl ==
  ASSUME TypeOK, CollInv, write_end, mp_buf_status = "RUNNING", resuming = "no",
         UNCHANGED <<plugin, resuming, is_running>>
  PROVE  CollInv'
<1>1. Pause \/ UNCHANGED <<mp_buf_status, armed, running>>
  BY DEF write_end, collVars
<1> QED
  BY <1>1, PauseStops DEF CollInv

\* A step that at most begins a resume keeps CollInv.
LEMMA SizeSetColl ==
  ASSUME TypeOK, CollInv, resuming = "no",
         \/ resuming' = "no"
         \/ resuming' = "status" /\ mp_buf_status = "PAUSED",
         UNCHANGED <<plugin, mp_buf_status, armed, running, is_running>>
  PROVE  CollInv'
BY DEF CollInv, TypeOK

\* Every step keeps CollInv: this is where the order in which
\* flb_input_buf_size_set() changes the status and calls the plugin matters.
LEMMA CollNext ==
  ASSUME TypeOK, NodeInv, CollInv, [Next]_vars
  PROVE  CollInv'
<1> USE DEF kind, bufVars, collVars, taskVars, exitVars
<1>1. ASSUME NEW n \in Sizes \union {0}, Write(n)
      PROVE  CollInv'
  <2>1. /\ write_end /\ mp_buf_status = "RUNNING" /\ resuming = "no"
        /\ UNCHANGED <<plugin, resuming, is_running>>
    BY <1>1 DEF Write, Collecting, Idle
  <2> QED
    BY <2>1, WriteEndColl
<1>2. ASSUME NEW g \in Tags, NEW d \in Nodes, NEW n \in Sizes \union {0},
             Append(g, d, n)
      PROVE  CollInv'
  <2>1. /\ write_end /\ mp_buf_status = "RUNNING" /\ resuming = "no"
        /\ UNCHANGED <<plugin, resuming, is_running>>
    BY <1>2 DEF Append, Collecting, Idle
  <2> QED
    BY <2>1, WriteEndColl
<1>3. CASE ResumeStatus
  BY <1>3 DEF ResumeStatus, CollInv, TypeOK
<1>4. CASE ResumeCallback
  <2>1. /\ resuming = "callback" /\ resuming' = "no" /\ cb_resume
        /\ UNCHANGED <<plugin, mp_buf_status, is_running>>
    BY <1>4 DEF ResumeCallback
  <2> QED
    BY <2>1, InputAssumption
       DEF CollInv, cb_resume, flb_input_collector_resume, TypeOK, InputAssumption
<1>5. CASE \/ \E g \in Tags, d \in Nodes : AppendPaused(g, d)
           \/ FlushBegin \/ UNCHANGED vars
  <2>1. UNCHANGED <<plugin, mp_buf_status, armed, running, resuming, is_running>>
    BY <1>5 DEF AppendPaused, FlushBegin, vars
  <2> QED
    BY <2>1 DEF CollInv
<1>6. CASE \/ \E d \in Nodes : FlushNoTask(d) \/ FlushTask(d)
           \/ FlushFixedNoTask \/ FlushFixedTask
  <2>1. UNCHANGED <<plugin, mp_buf_status, armed, running, resuming, is_running>>
    BY <1>6 DEF FlushNoTask, FlushTask, FlushFixedNoTask, FlushFixedTask, Visiting
  <2> QED
    BY <2>1 DEF CollInv
<1>7. CASE \/ \E d \in Nodes : FlushUnmatched(d) \/ TaskEnd(d)
           \/ FlushFixedUnmatched \/ TaskEndFixed
  <2>1. /\ resuming = "no" /\ flb_input_buf_size_set(dyntags')
        /\ UNCHANGED <<plugin, mp_buf_status, armed, running, is_running>>
    BY <1>7 DEF FlushUnmatched, TaskEnd, FlushFixedUnmatched, TaskEndFixed,
                Visiting, Idle
  <2>2. \/ resuming' = "no"
        \/ resuming' = "status" /\ mp_buf_status = "PAUSED"
    BY <2>1 DEF flb_input_buf_size_set
  <2> QED
    BY <2>1, <2>2, SizeSetColl
<1>8. CASE ExitBegin \/ flb_input_pause_all
  <2>1. ~is_running'
    BY <1>8 DEF ExitBegin, flb_input_pause_all
  <2> QED
    BY <2>1 DEF CollInv
<1> QED
  BY <1>1, <1>2, <1>3, <1>4, <1>5, <1>6, <1>7, <1>8 DEF Next

(***************************************************************************)
(* While the service runs, a paused instance collects nothing and a        *)
(* running one collects, except for an in_systemd instance that was        *)
(* resumed once.                                                           *)
(***************************************************************************)
THEOREM CollectorCorrect == Spec => []StatusMatchesCollector
<1> DEFINE Inv == TypeOK /\ NodeInv /\ CollInv
<1>1. Init => Inv
  BY InputInit
<1>2. Inv /\ [Next]_vars => Inv'
  BY NodeNext, CollNext
<1>3. Inv => StatusMatchesCollector
  BY DEF CollInv, StatusMatchesCollector
<1> QED
  BY <1>1, <1>2, <1>3, PTL DEF Spec

\* A step of an instance that flb_engine_exit() has paused.
LEMMA PausedStep ==
  ASSUME TypeOK, ExitInv, [Next]_vars, exited, mp_buf_status = "PAUSED",
         resuming = "no"
  PROVE  mp_buf_status' = "PAUSED" /\ resuming' = "no"
<1> USE DEF kind, bufVars, collVars, taskVars, exitVars
<1>1. ~is_running
  BY DEF ExitInv
<1>2. CASE \/ \E d \in Nodes : FlushUnmatched(d) \/ TaskEnd(d)
           \/ FlushFixedUnmatched \/ TaskEndFixed
  <2>1. mp_buf_status' = mp_buf_status /\ flb_input_buf_size_set(dyntags')
    BY <1>2 DEF FlushUnmatched, TaskEnd, FlushFixedUnmatched, TaskEndFixed, Visiting
  <2> QED
    BY <1>1, <2>1 DEF flb_input_buf_size_set
<1>3. CASE \/ \E d \in Nodes : FlushNoTask(d) \/ FlushTask(d)
           \/ FlushFixedNoTask \/ FlushFixedTask
  BY <1>3 DEF FlushNoTask, FlushTask, FlushFixedNoTask, FlushFixedTask, Visiting
<1>4. CASE \/ \E g \in Tags, d \in Nodes : AppendPaused(g, d)
           \/ FlushBegin \/ UNCHANGED vars
  BY <1>4 DEF AppendPaused, FlushBegin, vars
<1>5. ASSUME \/ \E n \in Sizes \union {0} : Write(n)
             \/ \E g \in Tags, d \in Nodes, n \in Sizes \union {0} : Append(g, d, n)
             \/ ResumeStatus \/ ResumeCallback
             \/ ExitBegin \/ flb_input_pause_all
      PROVE  FALSE
  BY <1>1, <1>5 DEF Write, Append, ResumeStatus, ResumeCallback, ExitBegin,
                    flb_input_pause_all
<1> QED
  BY <1>2, <1>3, <1>4, <1>5 DEF Next

\* flb_input_pause_all() comes after is_running was cleared, for good.
LEMMA ExitNext ==
  ASSUME ExitInv, [Next]_vars
  PROVE  ExitInv'
<1>1. CASE flb_input_pause_all \/ ExitBegin
  BY <1>1 DEF flb_input_pause_all, ExitBegin, ExitInv
<1>2. CASE ~(flb_input_pause_all \/ ExitBegin)
  <2>1. UNCHANGED <<is_running, exited>>
    BY <1>2 DEF Next, vars, exitVars, Write, Append, AppendPaused, ResumeStatus,
                ResumeCallback, FlushBegin, FlushNoTask, FlushTask,
                FlushUnmatched, FlushFixedNoTask, FlushFixedTask,
                FlushFixedUnmatched, TaskEnd, TaskEndFixed, Visiting
  <2> QED
    BY <2>1 DEF ExitInv
<1> QED
  BY <1>1, <1>2

(***************************************************************************)
(* Once flb_engine_exit() has paused the instance, nothing but a resume    *)
(* already under way starts it again, for every schedule of the thread or  *)
(* signal handler that runs it.                                            *)
(***************************************************************************)
THEOREM PausedCorrect == Spec => StaysPaused
<1> DEFINE Inv == TypeOK /\ NodeInv /\ ExitInv
<1>1. Init => Inv
  BY InputInit
<1>2. Inv /\ [Next]_vars => Inv'
  BY NodeNext, ExitNext
<1>3. Inv /\ [Next]_vars =>
        [exited /\ mp_buf_status = "PAUSED" /\ resuming = "no" =>
           mp_buf_status' = "PAUSED" /\ resuming' = "no"]_vars
  BY PausedStep
<1> QED
  BY <1>1, <1>2, <1>3, PTL DEF Spec, StaysPaused
===============================================================================
