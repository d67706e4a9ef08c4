------------------------ MODULE SqlConnPool_proofs ------------------------
(* Proofs about SqlConnPool, for any finite set of threads and connections: *)
(* the semaphore and the queue agree, so that pop() never meets an empty    *)
(* queue, although every successful UserVerify frees its connection twice;  *)
(* a name is registered once unless two workers raced for it or one went by *)
(* another's result; and no connection is lost, so that who waits for one   *)
(* waits for somebody.                                                      *)
EXTENDS SqlConnPool, FiniteSetTheorems, TLAPS

AtPop == {w \in Workers : pc[w] = "pop"}

\* The initial state is well typed.
LEMMA InitType == Init => TypeOK
  <1> SUFFICES ASSUME Init PROVE TypeOK
    OBVIOUS
  <1>1. Cardinality(Conns) \in Nat
    BY SqlAssumption, FS_CardinalityType
  <1>2. connQue \in Seq(Handle)
    BY <1>1 DEF Init, Opened
  <1>3. << >> \in Seq(User)
    OBVIOUS
  <1>4. req \in [Workers -> Request] /\ sql \in [Workers -> Handle]
    BY DEF Init, Handle
  <1>5. reply \in [Workers -> 0..Len(rows)] /\ mixed \subseteq Conns
    BY DEF Init
  <1> QED BY <1>1, <1>2, <1>3, <1>4, <1>5 DEF Init, TypeOK, InUse

\* The set of workers that may pop has a cardinality.
LEMMA AtPopFinite ==
  ASSUME TypeOK
  PROVE  IsFiniteSet(AtPop) /\ Cardinality(AtPop) \in Nat
  <1>1. AtPop \subseteq Workers
    BY DEF AtPop
  <1>2. IsFiniteSet(AtPop)
    BY <1>1, SqlAssumption, FS_Subset
  <1> QED BY <1>2, FS_CardinalityType

\* A worker that is about to pop finds something to pop.
LEMMA PopFinds ==
  ASSUME TypeOK, SemCountsQueue, NEW w \in Workers, pc[w] = "pop"
  PROVE  connQue # << >> /\ Len(connQue) > 0
  <1>1. AtPop # {}
    BY DEF AtPop
  <1>2. Cardinality(AtPop) # 0
    BY <1>1, AtPopFinite, FS_EmptySet
  <1>3. Len(connQue) = sem + Cardinality(AtPop)
    BY DEF SemCountsQueue, AtPop
  <1> QED BY <1>2, <1>3, AtPopFinite DEF TypeOK

\* The SELECT answers with a row of the table, or with none when there is none.
LEMMA RowsForType ==
  ASSUME TypeOK, NEW u \in User, NEW k \in RowsFor(u)
  PROVE  k \in 0..Len(rows) /\ (k = 0 => \A l \in 1..Len(rows) : rows[l].name # u.name)
  <1>1. Len(rows) \in Nat
    BY DEF TypeOK
  <1>2. CASE {l \in 1..Len(rows) : rows[l].name = u.name} = {}
    BY <1>1, <1>2 DEF RowsFor
  <1>3. CASE {l \in 1..Len(rows) : rows[l].name = u.name} # {}
    BY <1>1, <1>3 DEF RowsFor
  <1> QED BY <1>2, <1>3

\* Only a connection that is in use is mixed.
LEMMA SendType ==
  ASSUME TypeOK, NEW w \in Workers, InUse(w), Send(w)
  PROVE  mixed' \subseteq Conns /\ mixed \subseteq mixed'
  <1>1. sql[w] \in Conns
    BY DEF TypeOK, Handle
  <1> QED BY <1>1 DEF Send, TypeOK

\* Every step of a worker keeps the types.
LEMMA StepType ==
  ASSUME TypeOK, SemCountsQueue, NEW w \in Workers, Call(w) \/ UserVerify(w) PROVE TypeOK'
  <1> USE DEF Goto
  <1>1. CASE Call(w)
    BY <1>1 DEF Call, TypeOK, InUse, poolVars, dbVars
  <1>2. CASE CheckEmpty(w) /\ UNCHANGED dbVars
    BY <1>2 DEF CheckEmpty, TypeOK, InUse, Handle, poolVars, dbVars
  <1>3. CASE SemWait(w) /\ UNCHANGED dbVars
    BY <1>3 DEF SemWait, TypeOK, InUse, dbVars
  <1>4. CASE Pop(w) /\ UNCHANGED dbVars /\ connQue # << >>
    <2>1. Head(connQue) \in Handle /\ Tail(connQue) \in Seq(Handle)
      BY <1>4 DEF TypeOK
    <2> QED BY <1>4, <2>1 DEF Pop, TypeOK, InUse, dbVars
  <1>5. CASE DestroyRAII(w) /\ UNCHANGED dbVars
    <2>1. sql[w] \in Handle
      BY DEF TypeOK
    <2>2. connQue' \in Seq(Handle) /\ sem' \in Nat
      <3>1. UNCHANGED poolVars \/ FreeConn(sql[w])
        BY <1>5 DEF DestroyRAII
      <3>2. CASE UNCHANGED poolVars
        BY <3>2 DEF poolVars, TypeOK
      <3>3. CASE FreeConn(sql[w])
        BY <2>1, <3>3 DEF FreeConn, TypeOK
      <3> QED BY <3>1, <3>2, <3>3
    <2> QED BY <1>5, <2>2 DEF DestroyRAII, TypeOK, InUse, dbVars
  <1>6. CASE AssertSql(w) /\ UNCHANGED dbVars
    <2>1. CASE sql[w] = NoConn
      BY <1>6, <2>1 DEF AssertSql, TypeOK, InUse, poolVars, dbVars
    <2>2. CASE sql[w] # NoConn
      <3>1. flag' \in [Workers -> BOOLEAN]
        BY <1>6, <2>2 DEF AssertSql, TypeOK
      <3> QED BY <1>6, <2>2, <3>1 DEF AssertSql, TypeOK, InUse, poolVars, dbVars
    <2> QED BY <2>1, <2>2
  <1>7. CASE Query(w)
    <2>1. InUse(w)
      BY <1>7 DEF Query, InUse
    <2>2. mixed' \subseteq Conns
      BY <1>7, <2>1, SendType DEF Query
    <2>3. req[w].user \in User
      BY DEF TypeOK, Request
    <2>4. reply' \in [Workers -> 0..Len(rows)]
      BY <1>7, <2>3, RowsForType DEF Query, TypeOK
    <2>5. raced' \in BOOLEAN
      <3>1. \/ raced' = raced
            \/ raced' = (raced \/ (/\ ~req[w].isLogin /\ reply'[w] = 0
                                   /\ \E v \in Workers \ {w} : Registers(v, req[w].user.name)))
        BY <1>7 DEF Query
      <3>2. raced \in BOOLEAN
        BY DEF TypeOK
      <3> QED BY <3>1, <3>2
    <2>6. pc' = [pc EXCEPT ![w] = "idle"] \/ pc' = [pc EXCEPT ![w] = "store"]
      BY <1>7 DEF Query
    <2>7. /\ UNCHANGED <<connQue, sem, sql, req, flag, calls, rows, abort, misread>>
      BY <1>7 DEF Query, poolVars
    <2> QED BY <2>1, <2>2, <2>4, <2>5, <2>6, <2>7 DEF TypeOK, InUse
  <1>8. CASE Store(w)
    <2>1. InUse(w) /\ UNCHANGED <<connQue, sem, sql, req, calls, rows, mixed, raced>>
      BY <1>8 DEF Store, InUse, poolVars
    <2>2. CASE StoreNull(w)
      BY <2>1, <2>2 DEF StoreNull, TypeOK, InUse
    <2>3. CASE StoreRow(w)
      <3>1. PICK k \in Result(w) :
              flag' = [flag EXCEPT ![w] =
                IF k = 0 THEN @ ELSE req[w].isLogin /\ rows[k].pwd = req[w].user.pwd]
        BY <2>3 DEF StoreRow
      <3> DEFINE b == IF k = 0 THEN flag[w] ELSE req[w].isLogin /\ rows[k].pwd = req[w].user.pwd
      <3>2. b \in BOOLEAN
        BY DEF TypeOK, Request
      <3>3. flag' = [flag EXCEPT ![w] = b]
        BY <3>1
      <3> HIDE DEF b
      <3>4. flag' \in [Workers -> BOOLEAN]
        BY <3>2, <3>3 DEF TypeOK
      <3>5. reply' \in [Workers -> 0..Len(rows)]
        BY <2>3 DEF StoreRow, TypeOK
      <3>6. misread' \in BOOLEAN
        <4>1. misread' = misread \/ misread' = (misread \/ sql[w] \in mixed)
          BY <2>3 DEF StoreRow
        <4>2. misread \in BOOLEAN
          BY DEF TypeOK
        <4> QED BY <4>1, <4>2
      <3>7. /\ pc' = [pc EXCEPT ![w] = "insert"] \/ pc' = [pc EXCEPT ![w] = "free"]
            /\ abort' = abort
        BY <2>3 DEF StoreRow
      <3> QED BY <2>1, <3>4, <3>5, <3>6, <3>7 DEF TypeOK, InUse
    <2> QED BY <1>8, <2>2, <2>3 DEF Store
  <1>9. CASE InsertQuery(w)
    <2>1. InUse(w)
      BY <1>9 DEF InsertQuery, InUse
    <2>2. mixed' \subseteq Conns
      BY <1>9, <2>1, SendType DEF InsertQuery
    <2> QED BY <1>9, <2>1, <2>2 DEF InsertQuery, TypeOK, InUse, poolVars
  <1>10. CASE InsertReturns(w)
    <2>1. req[w].user \in User
      BY DEF TypeOK, Request
    <2>2. rows' \in Seq(User) /\ Len(rows) \in Nat /\ Len(rows') \in {Len(rows), Len(rows) + 1}
      <3>1. rows \in Seq(User)
        BY DEF TypeOK
      <3>2. rows' = Append(rows, req[w].user) \/ rows' = rows
        BY <1>10 DEF InsertReturns
      <3>3. Append(rows, req[w].user) \in Seq(User) /\ Len(Append(rows, req[w].user)) = Len(rows) + 1
        BY <2>1, <3>1
      <3> QED BY <3>1, <3>2, <3>3
    <2>3. reply' \in [Workers -> 0..Len(rows')]
      <3>1. 0..Len(rows) \subseteq 0..Len(rows')
        BY <2>2
      <3> QED BY <1>10, <3>1 DEF InsertReturns, TypeOK
    <2> QED BY <1>10, <2>2, <2>3 DEF InsertReturns, TypeOK, InUse, poolVars
  <1>11. CASE FreeAndReturn(w) /\ UNCHANGED dbVars
    <2>1. req[w].user \in User /\ sql[w] \in Handle
      BY DEF TypeOK, Request
    <2>2. connQue' \in Seq(Handle) /\ sem' \in Nat
      BY <1>11, <2>1 DEF FreeAndReturn, FreeConn, TypeOK
    <2> QED BY <1>11, <2>1, <2>2 DEF FreeAndReturn, TypeOK, InUse, dbVars
  <1> QED BY <1>1, <1>2, <1>3, <1>4, <1>5, <1>6, <1>7, <1>8, <1>9, <1>10, <1>11, PopFinds
         DEF UserVerify, Pop

\* Every step of a worker keeps the semaphore and the queue in step.
LEMMA StepSem ==
  ASSUME TypeOK, SemCountsQueue, NEW w \in Workers, Call(w) \/ UserVerify(w)
  PROVE  SemCountsQueue'
  <1> USE DEF Goto
  <1>0. Len(connQue) = sem + Cardinality(AtPop) /\ Len(connQue) \in Nat /\ sem \in Nat
    BY DEF SemCountsQueue, AtPop, TypeOK
  <1>1. SUFFICES Len(connQue') = sem' + Cardinality(AtPop')
    BY DEF SemCountsQueue, AtPop
  <1>2. CASE SemWait(w)
    <2>1. AtPop' = AtPop \union {w} /\ w \notin AtPop
      BY <1>2 DEF SemWait, AtPop, TypeOK
    <2>2. Cardinality(AtPop') = Cardinality(AtPop) + 1
      BY <2>1, AtPopFinite, FS_AddElement
    <2> QED BY <1>0, <1>2, <2>2, AtPopFinite DEF SemWait
  <1>3. CASE Pop(w)
    <2>1. AtPop' = AtPop \ {w} /\ w \in AtPop
      BY <1>3 DEF Pop, AtPop, TypeOK
    <2>2. Cardinality(AtPop') = Cardinality(AtPop) - 1
      BY <2>1, AtPopFinite, FS_RemoveElement
    <2>3. Len(connQue') = Len(connQue) - 1
      BY <1>3, PopFinds DEF Pop, TypeOK
    <2> QED BY <1>0, <1>3, <2>2, <2>3, AtPopFinite DEF Pop
  <1>4. ASSUME AtPop' = AtPop, UNCHANGED poolVars
        PROVE  Len(connQue') = sem' + Cardinality(AtPop')
    BY <1>0, <1>4 DEF poolVars
  <1>5. ASSUME AtPop' = AtPop, NEW c \in Handle, FreeConn(c)
        PROVE  Len(connQue') = sem' + Cardinality(AtPop')
    <2>1. connQue \in Seq(Handle)
      BY DEF TypeOK
    <2>2. Len(Append(connQue, c)) = Len(connQue) + 1
      BY <1>5, <2>1
    <2> QED BY <1>0, <1>5, <2>2, AtPopFinite DEF FreeConn
  <1>6. CASE \/ Call(w) \/ CheckEmpty(w) \/ AssertSql(w) \/ Query(w)
             \/ Store(w) \/ InsertQuery(w) \/ InsertReturns(w)
    <2>1. UNCHANGED poolVars
      BY <1>6 DEF Call, CheckEmpty, AssertSql, Query, Store, InsertQuery, InsertReturns
    <2>2. AtPop' = AtPop
      <3>1. \/ pc' = pc
            \/ /\ pc[w] # "pop"
               /\ \E l \in {"empty", "assert", "wait", "select", "idle", "store",
                            "insert", "inserting", "free"} :
                    pc' = [pc EXCEPT ![w] = l]
        BY <1>6 DEF Call, CheckEmpty, AssertSql, Query, Store, StoreNull, StoreRow,
                    InsertQuery, InsertReturns
      <3> QED BY <3>1 DEF AtPop, TypeOK
    <2> QED BY <1>4, <2>1, <2>2
  <1>7. CASE DestroyRAII(w) \/ FreeAndReturn(w)
    <2>1. AtPop' = AtPop
      BY <1>7 DEF DestroyRAII, FreeAndReturn, AtPop, TypeOK
    <2>2. UNCHANGED poolVars \/ FreeConn(sql[w])
      BY <1>7 DEF DestroyRAII, FreeAndReturn
    <2>3. sql[w] \in Handle
      BY DEF TypeOK
    <2> QED BY <1>4, <1>5, <2>1, <2>2, <2>3
  <1> QED BY <1>2, <1>3, <1>6, <1>7 DEF UserVerify

\* Types and SemCountsQueue are inductive together.
LEMMA NextInv ==
  TypeOK /\ SemCountsQueue /\ [Next]_vars => TypeOK' /\ SemCountsQueue'
  <1> SUFFICES ASSUME TypeOK, SemCountsQueue, [Next]_vars PROVE TypeOK' /\ SemCountsQueue'
    OBVIOUS
  <1>1. CASE UNCHANGED vars
    BY <1>1 DEF vars, poolVars, threadVars, dbVars, TypeOK, InUse, SemCountsQueue
  <1> QED BY <1>1, StepType, StepSem DEF Next

\* Init posts the semaphore once for each connection.
LEMMA InitSem == Init => SemCountsQueue
  <1> SUFFICES ASSUME Init PROVE SemCountsQueue
    OBVIOUS
  <1>1. AtPop = {}
    BY DEF Init, AtPop
  <1>2. Cardinality(AtPop) = 0
    BY <1>1, FS_EmptySet
  <1>3. Cardinality(Conns) \in Nat
    BY SqlAssumption, FS_CardinalityType
  <1>4. Len(connQue) = Cardinality(Conns)
    BY <1>3 DEF Init, Opened
  <1> QED BY <1>2, <1>3, <1>4 DEF Init, SemCountsQueue, AtPop

\* Every variable keeps its type: pop() never takes the front of an empty queue.
THEOREM TypeCorrect == Spec => []TypeOK
  <1> QED BY InitType, InitSem, NextInv, PTL DEF Spec

\* The semaphore counts the queue, for any number of threads and connections
\* (sqlconnpool.cpp:43-63): passing sem_wait entitles to one pop.
THEOREM SemCorrect == Spec => []SemCountsQueue
  <1> QED BY InitType, InitSem, NextInv, PTL DEF Spec

\* Nobody is registered under the name.
Unused(name) == \A k \in 1..Len(rows) : rows[k].name # name

\* What makes RegisteredOnce inductive: who registers a name is alone, and the
\* name is not in the table; who inserts registers.
RegInv ==
  ~raced /\ ~misread =>
    /\ \A k, l \in 1..Len(rows) : rows[k].name = rows[l].name => k = l
    /\ \A w \in Workers, n \in Names : Registers(w, n) => Unused(n)
    /\ \A v, w \in Workers, n \in Names : Registers(v, n) /\ Registers(w, n) => v = w
    /\ \A w \in Workers :
         pc[w] \in {"insert", "inserting"} => Registers(w, req[w].user.name)

\* A request's user has one of the names.
LEMMA NameType == ASSUME TypeOK, NEW w \in Workers PROVE req[w].user.name \in Names
  BY DEF TypeOK, Request, User

\* A step that adds no row, makes nobody register and forgets no exception.
LEMMA RegUnchanged ==
  ASSUME TypeOK, RegInv, rows' = rows, raced => raced', misread => misread',
         \A w \in Workers, n \in Names : Registers(w, n)' => Registers(w, n),
         \A w \in Workers : pc'[w] \in {"insert", "inserting"} =>
           Registers(w, req[w].user.name)' \/ misread'
  PROVE  RegInv'
  <1> SUFFICES ASSUME ~raced', ~misread' PROVE RegInv'
    BY DEF RegInv
  <1>1. ~raced /\ ~misread
    OBVIOUS
  <1>2. \A w \in Workers, n \in Names : Registers(w, n)' => Unused(n)'
    BY <1>1 DEF RegInv, Unused
  <1>3. \A v, w \in Workers, n \in Names : Registers(v, n)' /\ Registers(w, n)' => v = w
    BY <1>1 DEF RegInv
  <1>4. \A w \in Workers :
          pc'[w] \in {"insert", "inserting"} => Registers(w, req[w].user.name)'
    OBVIOUS
  <1>5. \A k, l \in 1..Len(rows') : rows'[k].name = rows'[l].name => k = l
    BY <1>1 DEF RegInv
  <1> QED BY <1>2, <1>3, <1>4, <1>5 DEF RegInv

\* A worker that is told of no row of its name registers it, or is a race.
LEMMA RegQuery ==
  ASSUME TypeOK, RegInv, NEW w \in Workers, Query(w)
  PROVE  RegInv'
  <1> DEFINE name == req[w].user.name
  <1>1. /\ rows' = rows /\ req' = req /\ pc[w] = "select" /\ misread' = misread
        /\ pc'[w] \in {"idle", "store"}
        /\ \A v \in Workers \ {w} : pc'[v] = pc[v] /\ reply'[v] = reply[v]
    BY DEF Query, Goto, TypeOK
  <1>2. \A v \in Workers \ {w}, n \in Names : Registers(v, n)' <=> Registers(v, n)
    BY <1>1 DEF Registers
  <1>3. \/ raced' = raced
        \/ raced' = (raced \/ (/\ ~req[w].isLogin /\ reply'[w] = 0
                               /\ \E v \in Workers \ {w} : Registers(v, req[w].user.name)))
    BY DEF Query
  <1>4. raced => raced'
    BY <1>3, Zenon
  <1> SUFFICES ASSUME ~raced', ~misread' PROVE RegInv'
    BY DEF RegInv
  <1>5. ~raced /\ ~misread
    BY <1>1, <1>4
  <1>6. ASSUME NEW v \in Workers, pc'[v] \in {"insert", "inserting"}
        PROVE  Registers(v, req[v].user.name)'
    <2>1. v # w /\ pc[v] \in {"insert", "inserting"}
      BY <1>1, <1>6
    <2>2. Registers(v, req[v].user.name) /\ req'[v] = req[v]
      BY <1>1, <1>5, <2>1 DEF RegInv
    <2>3. Registers(v, req[v].user.name)' <=> Registers(v, req[v].user.name)
      BY <1>1, <2>1 DEF Registers
    <2> QED BY <2>2, <2>3
  <1>7. CASE \A n \in Names : ~Registers(w, n)'
    <2>1. \A v \in Workers, n \in Names : Registers(v, n)' => Registers(v, n)
      BY <1>2, <1>7
    <2> QED BY <1>1, <1>4, <1>6, <2>1, RegUnchanged
  <1>8. CASE \E n \in Names : Registers(w, n)'
    <2>1. /\ pc'[w] = "store" /\ reply'[w] = 0 /\ ~req[w].isLogin
          /\ \A n \in Names : Registers(w, n)' => n = name
      BY <1>1, <1>8 DEF Registers
    <2>2. PICK k \in RowsFor(req[w].user) : reply' = [reply EXCEPT ![w] = k]
      BY <2>1 DEF Query, Goto, TypeOK
    <2>3. Unused(name)
      <3>1. k = 0
        BY <2>1, <2>2 DEF TypeOK
      <3> QED BY <2>2, <3>1, RowsForType DEF Unused, TypeOK, Request
    <2>4. \A v \in Workers \ {w} : ~Registers(v, name)
      <3>1. raced' = (raced \/ (/\ ~req[w].isLogin /\ reply'[w] = 0
                               /\ \E v \in Workers \ {w} : Registers(v, req[w].user.name)))
        BY <2>1 DEF Query, Goto, TypeOK
      <3> QED BY <2>1, <3>1
    <2>5. \A v \in Workers, n \in Names : Registers(v, n)' => Unused(n)'
      BY <1>1, <1>2, <1>5, <2>1, <2>3 DEF RegInv, Unused
    <2>6. \A u, v \in Workers, n \in Names : Registers(u, n)' /\ Registers(v, n)' => u = v
      BY <1>2, <1>5, <2>1, <2>4 DEF RegInv
    <2>7. \A i, l \in 1..Len(rows') : rows'[i].name = rows'[l].name => i = l
      BY <1>1, <1>5 DEF RegInv
    <2> QED BY <1>6, <2>5, <2>6, <2>7 DEF RegInv
  <1> QED BY <1>7, <1>8

\* Who decides to insert was told of no row, or went by a mixed result.
LEMMA RegStore ==
  ASSUME TypeOK, RegInv, NEW w \in Workers, Store(w)
  PROVE  RegInv'
  <1>1. /\ rows' = rows /\ req' = req /\ pc[w] = "store" /\ raced' = raced
    BY DEF Store
  <1>2. CASE StoreNull(w)
    <2>1. pc' = pc /\ reply' = reply /\ misread' = misread
      BY <1>2 DEF StoreNull
    <2>2. \A v \in Workers, n \in Names : Registers(v, n)' <=> Registers(v, n)
      BY <1>1, <2>1 DEF Registers
    <2>3. \A v \in Workers :
            Registers(v, req[v].user.name)' <=> Registers(v, req[v].user.name)
      BY <1>1, <2>1 DEF Registers
    <2> QED BY <1>1, <2>1, <2>2, <2>3 DEF RegInv, Unused
  <1>3. CASE StoreRow(w)
    <2>1. /\ pc'[w] \in {"insert", "free"} /\ reply'[w] = 0
          /\ \A v \in Workers \ {w} : pc'[v] = pc[v] /\ reply'[v] = reply[v]
      BY <1>3 DEF StoreRow, Goto, TypeOK
    <2>2. misread' = misread \/ misread' = (misread \/ sql[w] \in mixed)
      BY <1>3 DEF StoreRow
    <2>3. misread => misread'
      BY <2>2, Zenon
    <2> SUFFICES ASSUME ~misread', ~raced' PROVE RegInv'
      BY DEF RegInv
    <2>4. ~misread /\ ~raced
      BY <1>1, <2>3
    <2>5. pc'[w] = "insert" => reply[w] = 0 /\ ~req[w].isLogin
      <3> SUFFICES ASSUME pc'[w] = "insert" PROVE reply[w] = 0 /\ ~req[w].isLogin
        OBVIOUS
      <3>1. ~req[w].isLogin /\ flag'[w] /\ misread' = (misread \/ sql[w] \in mixed)
        BY <1>3 DEF StoreRow, Goto, TypeOK
      <3>2. sql[w] \notin mixed
        BY <3>1
      <3>3. flag' = [flag EXCEPT ![w] = IF reply[w] = 0 THEN @
                       ELSE req[w].isLogin /\ rows[reply[w]].pwd = req[w].user.pwd]
        BY <1>3, <3>2 DEF StoreRow, Result
      <3>4. flag'[w] = IF reply[w] = 0 THEN flag[w]
                       ELSE req[w].isLogin /\ rows[reply[w]].pwd = req[w].user.pwd
        BY <3>3 DEF TypeOK
      <3> QED BY <3>1, <3>4
    <2>6. \A v \in Workers, n \in Names : Registers(v, n)' => Registers(v, n)
      BY <1>1, <2>1, <2>5 DEF Registers
    <2>7. ASSUME NEW v \in Workers, pc'[v] \in {"insert", "inserting"}
          PROVE  Registers(v, req[v].user.name)'
      <3>1. CASE v = w
        BY <1>1, <2>1, <2>5, <2>7, <3>1 DEF Registers
      <3>2. CASE v # w
        BY <1>1, <2>1, <2>4, <2>7, <3>2 DEF Registers, RegInv
      <3> QED BY <3>1, <3>2
    <2> QED BY <1>1, <2>3, <2>6, <2>7, RegUnchanged
  <1> QED BY <1>2, <1>3 DEF Store

\* Sending the INSERT changes nothing of who registers.
LEMMA RegSendInsert ==
  ASSUME TypeOK, RegInv, NEW w \in Workers, InsertQuery(w)
  PROVE  RegInv'
  <1>1. /\ rows' = rows /\ req' = req /\ reply' = reply /\ raced' = raced /\ misread' = misread
        /\ pc[w] = "insert" /\ pc'[w] = "inserting"
        /\ \A v \in Workers \ {w} : pc'[v] = pc[v]
    BY DEF InsertQuery, Goto, TypeOK
  <1>2. \A v \in Workers, n \in Names : Registers(v, n)' <=> Registers(v, n)
    BY <1>1 DEF Registers
  <1>3. \A v \in Workers : Registers(v, req[v].user.name)' <=> Registers(v, req[v].user.name)
    BY <1>1 DEF Registers
  <1>4. \A v \in Workers :
          pc'[v] \in {"insert", "inserting"} => pc[v] \in {"insert", "inserting"}
    BY <1>1
  <1> QED BY <1>1, <1>2, <1>3, <1>4 DEF RegInv, Unused

\* The INSERT adds the name of the only worker that registered it.
LEMMA RegInsert ==
  ASSUME TypeOK, RegInv, NEW w \in Workers, InsertReturns(w)
  PROVE  RegInv'
  <1> DEFINE name == req[w].user.name
             n == Len(rows)
  <1>1. /\ req' = req /\ reply' = reply /\ raced' = raced /\ misread' = misread
        /\ pc[w] = "inserting" /\ pc'[w] = "free"
        /\ \A v \in Workers \ {w} : pc'[v] = pc[v]
    BY DEF InsertReturns, Goto, TypeOK
  <1>2. \A v \in Workers, m \in Names : Registers(v, m)' => v # w /\ Registers(v, m)
    BY <1>1 DEF Registers
  <1> SUFFICES ASSUME ~raced, ~misread PROVE RegInv'
    BY <1>1 DEF RegInv
  <1>3. Registers(w, name) /\ name \in Names
    BY <1>1, NameType DEF RegInv
  <1>4. ASSUME NEW v \in Workers, pc'[v] \in {"insert", "inserting"}
        PROVE  Registers(v, req[v].user.name)'
    <2>1. v # w /\ pc[v] \in {"insert", "inserting"}
      BY <1>1, <1>4
    <2> QED BY <1>1, <2>1 DEF RegInv, Registers
  <1>5. CASE rows' = rows
    BY <1>1, <1>2, <1>4, <1>5, RegUnchanged
  <1>6. CASE rows' = Append(rows, req[w].user)
    <2>1. n \in Nat /\ rows \in Seq(User)
      BY DEF TypeOK
    <2>2. /\ Len(rows') = n + 1 /\ rows'[n + 1] = req[w].user
          /\ \A k \in 1..n : rows'[k] = rows[k]
      BY <1>6, <2>1
    <2>3. \A k \in 1..n : rows[k].name # name
      BY <1>3 DEF RegInv, Unused
    <2>4. \A k, l \in 1..(n + 1) : rows'[k].name = rows'[l].name => k = l
      <3> SUFFICES ASSUME NEW k \in 1..(n + 1), NEW l \in 1..(n + 1),
                          rows'[k].name = rows'[l].name
                   PROVE  k = l
        OBVIOUS
      <3>1. CASE k \in 1..n /\ l \in 1..n
        BY <2>2, <3>1 DEF RegInv
      <3>2. CASE k = n + 1 \/ l = n + 1
        BY <2>1, <2>2, <2>3, <3>2
      <3> QED BY <2>1, <3>1, <3>2
    <2>5. ASSUME NEW v \in Workers, NEW m \in Names, Registers(v, m)'
          PROVE  \A k \in 1..(n + 1) : rows'[k].name # m
      <3>1. v # w /\ Registers(v, m)
        BY <1>2, <2>5
      <3>2. m # name
        BY <1>3, <3>1 DEF RegInv
      <3>3. \A k \in 1..n : rows[k].name # m
        BY <3>1 DEF RegInv, Unused
      <3> QED BY <2>1, <2>2, <3>2, <3>3
    <2>6. \A v \in Workers, m \in Names : Registers(v, m)' => Unused(m)'
      BY <2>2, <2>5 DEF Unused
    <2>7. \A u, v \in Workers, m \in Names : Registers(u, m)' /\ Registers(v, m)' => u = v
      BY <1>2 DEF RegInv
    <2> QED BY <1>4, <2>2, <2>4, <2>6, <2>7 DEF RegInv
  <1> QED BY <1>5, <1>6 DEF InsertReturns

\* RegInv is kept by every step.
LEMMA NextReg == TypeOK /\ RegInv /\ [Next]_vars => RegInv'
  <1> SUFFICES ASSUME TypeOK, RegInv, [Next]_vars PROVE RegInv'
    OBVIOUS
  <1>0. ASSUME NEW w \in Workers, UNCHANGED dbVars, pc[w] \notin {"store", "insert", "inserting"},
               pc'[w] \notin {"store", "insert", "inserting"},
               \A v \in Workers \ {w} : pc'[v] = pc[v] /\ req'[v] = req[v]
        PROVE  RegInv'
    <2>1. rows' = rows /\ raced' = raced /\ misread' = misread /\ reply' = reply
      BY <1>0 DEF dbVars
    <2>2. \A v \in Workers, n \in Names : Registers(v, n)' <=> Registers(v, n)
      BY <1>0, <2>1 DEF Registers
    <2>3. \A v \in Workers \ {w} :
            Registers(v, req[v].user.name)' <=> Registers(v, req[v].user.name)
      BY <1>0, <2>1 DEF Registers
    <2> QED BY <1>0, <2>1, <2>2, <2>3 DEF RegInv, Unused
  <1>1. CASE UNCHANGED vars
    <2>1. /\ rows' = rows /\ raced' = raced /\ misread' = misread /\ reply' = reply
          /\ pc' = pc /\ req' = req
      BY <1>1 DEF vars, threadVars, dbVars
    <2>2. \A v \in Workers, n \in Names : Registers(v, n)' <=> Registers(v, n)
      BY <2>1 DEF Registers
    <2>3. \A v \in Workers : Registers(v, req[v].user.name)' <=> Registers(v, req[v].user.name)
      BY <2>1 DEF Registers
    <2> QED BY <2>1, <2>2, <2>3 DEF RegInv, Unused
  <1>2. ASSUME NEW w \in Workers, Call(w) PROVE RegInv'
    <2>1. /\ UNCHANGED dbVars /\ pc[w] = "idle" /\ pc'[w] = "empty"
          /\ \A v \in Workers \ {w} : pc'[v] = pc[v] /\ req'[v] = req[v]
      BY <1>2 DEF Call, Goto, TypeOK
    <2> QED BY <1>0, <2>1
  <1>3. ASSUME NEW w \in Workers, UNCHANGED dbVars,
               \/ CheckEmpty(w) \/ SemWait(w) \/ Pop(w) \/ DestroyRAII(w)
               \/ AssertSql(w) \/ FreeAndReturn(w)
        PROVE  RegInv'
    <2>1. /\ req' = req /\ pc[w] \notin {"store", "insert", "inserting"}
          /\ pc'[w] \notin {"store", "insert", "inserting"}
          /\ \A v \in Workers \ {w} : pc'[v] = pc[v]
      BY <1>3 DEF CheckEmpty, SemWait, Pop, DestroyRAII, AssertSql, FreeAndReturn, Goto, TypeOK
    <2> QED BY <1>0, <1>3, <2>1
  <1> QED BY <1>1, <1>2, <1>3, RegQuery, RegStore, RegSendInsert, RegInsert DEF Next, UserVerify

\* A user name is registered once, for any number of workers, connections and
\* users, whatever a connection that two workers use at once brings, unless two
\* workers were between SELECT and INSERT of the name, or a registration went by
\* a result fetched from such a connection (httprequest.cpp:193-234).
THEOREM RegisteredCorrect == Spec => []RegisteredOnce
  <1>1. Init => RegInv
    <2> SUFFICES ASSUME Init PROVE RegInv
      OBVIOUS
    <2>1. rows = << >> /\ \A w \in Workers : pc[w] = "idle"
      BY DEF Init
    <2> QED BY <2>1 DEF RegInv, Registers
  <1>2. RegInv => RegisteredOnce
    BY DEF RegInv, RegisteredOnce
  <1> QED BY <1>1, <1>2, InitType, InitSem, NextInv, NextReg, PTL DEF Spec
-----------------------------------------------------------------------------
(* The pool never shrinks: what GetConnReturns rests on, whatever the        *)
(* fairness.                                                                 *)

\* Who took a connection and has not given it back, or found none.  A NULL
\* connection never comes back: who popped one comes to the assertion.
Borrowers ==
  {w \in Workers : pc[w] \in {"pop", "raii"} \/ (pc[w] = "assert" /\ sql[w] = NoConn)}

\* Every connection that Init opened can be waited for, or is in the hands of a
\* worker that is about to give it back or to abort (sqlconnpool.cpp:21-34): no
\* branch of UserVerify, the failed query included, loses a connection, because
\* the RAII object has given it back before the first query.
ConnsComeBack == ~abort => sem + Cardinality(Borrowers) >= Cardinality(Conns)

\* A worker that has to wait waits for somebody.
WaitForSomebody ==
  \A w \in Workers : pc[w] = "wait" /\ sem = 0 /\ ~abort => Conns = {} \/ Borrowers # {}

\* The workers on a connection can be counted.
LEMMA BorrowersFinite == IsFiniteSet(Borrowers) /\ Cardinality(Borrowers) \in Nat
  <1>1. Borrowers \subseteq Workers
    BY DEF Borrowers
  <1> QED BY <1>1, SqlAssumption, FS_Subset, FS_CardinalityType

\* What a step does to the workers on a connection: at most the worker of the
\* step joins or leaves them, and who leaves gives a connection back or aborts.
LEMMA BorrowersStep ==
  ASSUME TypeOK, NEW w \in Workers, Call(w) \/ UserVerify(w)
  PROVE  \/ abort'
         \/ Borrowers' = Borrowers /\ sem' \in {sem, sem + 1}
         \/ Borrowers' = Borrowers \union {w} /\ w \notin Borrowers /\ sem' \in {sem, sem - 1}
         \/ Borrowers' = Borrowers \ {w} /\ w \in Borrowers /\ sem' = sem + 1
  <1> USE DEF Goto
  <1>1. CASE CheckEmpty(w)
    BY <1>1 DEF CheckEmpty, Borrowers, TypeOK, poolVars
  <1>2. CASE SemWait(w)
    BY <1>2 DEF SemWait, Borrowers, TypeOK
  <1>3. CASE Pop(w)
    BY <1>3 DEF Pop, Borrowers, TypeOK
  <1>4. CASE DestroyRAII(w)
    BY <1>4 DEF DestroyRAII, FreeConn, Borrowers, TypeOK, poolVars
  <1>5. CASE AssertSql(w)
    BY <1>5 DEF AssertSql, Borrowers, TypeOK, poolVars
  <1>6. CASE \/ Call(w) \/ Query(w) \/ (StoreRow(w) /\ Store(w)) \/ InsertQuery(w)
             \/ InsertReturns(w) \/ FreeAndReturn(w)
    <2>1. /\ sql' = sql /\ sem' \in {sem, sem + 1}
          /\ pc[w] \in {"idle", "select", "store", "insert", "inserting", "free"}
          /\ \E l \in {"empty", "idle", "store", "insert", "inserting", "free"} :
               pc' = [pc EXCEPT ![w] = l]
      BY <1>6 DEF Call, Query, Store, StoreRow, InsertQuery, InsertReturns, FreeAndReturn,
                  FreeConn, poolVars
    <2> QED BY <2>1 DEF Borrowers, TypeOK
  <1>7. CASE StoreNull(w)
    BY <1>7 DEF StoreNull
  <1>8. CASE Store(w)
    <2>1. StoreNull(w) \/ StoreRow(w)
      BY <1>8 DEF Store
    <2> QED BY <1>6, <1>7, <1>8, <2>1
  <1> QED BY <1>1, <1>2, <1>3, <1>4, <1>5, <1>6, <1>8 DEF UserVerify

\* No step loses a connection.
LEMMA NextComeBack == TypeOK /\ ConnsComeBack /\ [Next]_vars => ConnsComeBack'
  <1> SUFFICES ASSUME TypeOK, ConnsComeBack, [Next]_vars PROVE ConnsComeBack'
    OBVIOUS
  <1> DEFINE n == Cardinality(Borrowers)
             c == Cardinality(Conns)
  <1>1. n \in Nat /\ c \in Nat /\ sem \in Nat /\ IsFiniteSet(Borrowers)
    BY BorrowersFinite, SqlAssumption, FS_CardinalityType DEF TypeOK
  <1>2. CASE UNCHANGED vars
    BY <1>2 DEF vars, poolVars, threadVars, ConnsComeBack, Borrowers
  <1>3. ASSUME NEW w \in Workers, ~abort, Call(w) \/ UserVerify(w), ~abort'
        PROVE  sem' + Cardinality(Borrowers') >= c
    <2>1. sem + n >= c
      BY <1>3 DEF ConnsComeBack
    <2>2. CASE Borrowers' = Borrowers /\ sem' \in {sem, sem + 1}
      BY <1>1, <2>1, <2>2
    <2>3. CASE Borrowers' = Borrowers \union {w} /\ w \notin Borrowers /\ sem' \in {sem, sem - 1}
      <3>1. Cardinality(Borrowers') = n + 1
        BY <1>1, <2>3, FS_AddElement
      <3> QED BY <1>1, <2>1, <2>3, <3>1
    <2>4. CASE Borrowers' = Borrowers \ {w} /\ w \in Borrowers /\ sem' = sem + 1
      <3>1. Cardinality(Borrowers') = n - 1
        BY <1>1, <2>4, FS_RemoveElement
      <3> QED BY <1>1, <2>1, <2>4, <3>1
    <2> QED BY <1>3, <2>2, <2>3, <2>4, BorrowersStep
  <1> QED BY <1>2, <1>3 DEF Next, ConnsComeBack

\* The pool never shrinks, for any number of workers and connections, whatever
\* queries fail and although GetConn's caller never frees after a failed query.
THEOREM PoolKeepsItsConns == Spec => []ConnsComeBack
  <1>1. Init => ConnsComeBack
    <2> SUFFICES ASSUME Init PROVE ConnsComeBack
      OBVIOUS
    <2>1. sem = Cardinality(Conns) /\ Cardinality(Conns) \in Nat
      BY SqlAssumption, FS_CardinalityType DEF Init
    <2> QED BY <2>1, BorrowersFinite DEF ConnsComeBack
  <1> QED BY <1>1, InitType, InitSem, NextInv, NextComeBack, PTL DEF Spec

\* A worker that waits for a connection is never left alone: somebody is about to
\* post the semaphore or to abort (sqlconnpool.cpp:48).
THEOREM NobodyWaitsForNobody == Spec => []WaitForSomebody
  <1>1. ConnsComeBack => WaitForSomebody
    <2> SUFFICES ASSUME ConnsComeBack, sem = 0, ~abort, Borrowers = {} PROVE Conns = {}
      BY DEF WaitForSomebody
    <2>1. Cardinality(Borrowers) = 0
      BY FS_EmptySet
    <2>2. Cardinality(Conns) = 0
      BY <2>1, SqlAssumption, FS_CardinalityType DEF ConnsComeBack
    <2> QED BY <2>2, SqlAssumption, FS_EmptySet
  <1> QED BY <1>1, PoolKeepsItsConns, PTL
=============================================================================
