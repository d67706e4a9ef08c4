---------------------------- MODULE SqlConnPool ----------------------------
(***************************************************************************)
(* The MySQL connection pool (pool/sqlconnpool.cpp, sqlconnRAII.h) under   *)
(* the function that uses it, HttpRequest::UserVerify, run by any number   *)
(* of worker threads.  One step is one critical section, one semaphore     *)
(* operation, a statement sent to the server or its result fetched.        *)
(***************************************************************************)
EXTENDS Integers, Sequences, FiniteSets

CONSTANTS
  Workers,       \* threads that run UserVerify
  Conns,         \* the connections Init opens
  NoConn,        \* nullptr
  Names, Pwds,
  MaxVerify,     \* bound: calls of UserVerify
  ConnectFails,  \* mysql_real_connect may fail
  QueryFails     \* mysql_query may fail

ASSUME SqlAssumption ==
  /\ IsFiniteSet(Workers) /\ IsFiniteSet(Conns) /\ NoConn \notin Conns
  /\ MaxVerify \in Nat /\ {ConnectFails, QueryFails} \subseteq BOOLEAN

VARIABLES
  connQue, sem,         \* connQue_, semId_
  pc, sql, req, flag,   \* each worker's UserVerify
  reply,                \* the row the server sent it, 0 for none
  calls,                \* calls so far
  rows,                 \* table user of the database
  mixed,                \* connections on which statements of two workers overlapped
  abort,                \* assert(sql) failed, or a NULL result was used
  raced,                \* history: two workers were between SELECT and INSERT of
                        \* one name at the same time
  misread               \* history: a registration was decided by a result fetched
                        \* from a mixed connection

poolVars == <<connQue, sem>>
threadVars == <<pc, sql, req, flag>>
dbVars == <<reply, rows, mixed, raced, misread>>
vars == <<poolVars, threadVars, dbVars, calls, abort>>

User == [name : Names, pwd : Pwds]
Request == [user : User, isLogin : BOOLEAN]
Handle == Conns \union {NoConn}
InUse(w) == pc[w] \in {"select", "store", "insert", "inserting", "free"}

\* SqlConnPool::Init pushes what mysql_real_connect returned.
Opened ==
  {q \in [1..Cardinality(Conns) -> Handle] :
     /\ ConnectFails \/ \A k \in DOMAIN q : q[k] # NoConn
     /\ \A k, l \in DOMAIN q : q[k] = q[l] => k = l \/ q[k] = NoConn}

Init ==
  /\ connQue \in Opened
  /\ sem = Cardinality(Conns)
  /\ pc = [w \in Workers |-> "idle"]
  /\ sql = [w \in Workers |-> NoConn]
  /\ Request # {} /\ req = [w \in Workers |-> CHOOSE r \in Request : TRUE] \* not yet called
  /\ flag = [w \in Workers |-> FALSE]
  /\ reply = [w \in Workers |-> 0]
  /\ calls = 0 /\ rows = << >> /\ mixed = {}
  /\ abort = FALSE /\ raced = FALSE /\ misread = FALSE

Goto(w, l) == pc' = [pc EXCEPT ![w] = l]
-----------------------------------------------------------------------------
Call(w) ==
  /\ pc[w] = "idle" /\ calls < MaxVerify
  /\ calls' = calls + 1
  /\ \E r \in Request : req' = [req EXCEPT ![w] = r]
  /\ Goto(w, "empty")
  /\ UNCHANGED <<poolVars, sql, flag, abort, dbVars>>

\* GetConn.  connQue_.empty() is read without the mutex.
CheckEmpty(w) ==
  /\ pc[w] = "empty"
  /\ IF connQue = << >>
       THEN sql' = [sql EXCEPT ![w] = NoConn] /\ Goto(w, "assert")
       ELSE Goto(w, "wait") /\ UNCHANGED sql
  /\ UNCHANGED <<poolVars, req, flag, calls, abort>>

SemWait(w) ==
  /\ pc[w] = "wait" /\ sem > 0
  /\ sem' = sem - 1
  /\ Goto(w, "pop")
  /\ UNCHANGED <<connQue, sql, req, flag, calls, abort>>

Pop(w) ==
  /\ pc[w] = "pop"
  /\ sql' = [sql EXCEPT ![w] = Head(connQue)]
  /\ connQue' = Tail(connQue)
  /\ Goto(w, "raii")
  /\ UNCHANGED <<sem, req, flag, calls, abort>>

\* Mutant: without sem_post.
FreeConnNoPost(c) == connQue' = Append(connQue, c) /\ UNCHANGED sem

FreeConn(c) == connQue' = Append(connQue, c) /\ sem' = sem + 1

\* "SqlConnRAII(&sql, ...);" is a temporary, destroyed at the end of the
\* statement: the connection is back in the pool before it is used.
DestroyRAII(w) ==
  /\ pc[w] = "raii"
  /\ IF sql[w] # NoConn THEN FreeConn(sql[w]) ELSE UNCHANGED poolVars
  /\ Goto(w, "assert")
  /\ UNCHANGED <<sql, req, flag, calls, abort>>

\* Mutant: the connection is not tested.
AssertNothing(w) ==
  /\ pc[w] = "assert"
  /\ flag' = [flag EXCEPT ![w] = ~req[w].isLogin]
  /\ Goto(w, "select")
  /\ UNCHANGED <<poolVars, sql, req, calls, abort>>

AssertSql(w) ==
  /\ pc[w] = "assert"
  /\ IF sql[w] = NoConn
       THEN abort' = TRUE /\ UNCHANGED <<flag, pc>>
       ELSE /\ flag' = [flag EXCEPT ![w] = ~req[w].isLogin]
            /\ Goto(w, "select") /\ UNCHANGED abort
  /\ UNCHANGED <<poolVars, sql, req, calls>>

\* The rows the SELECT may answer with, 0 for none: one of that name, any one
\* ("LIMIT 1" without ORDER BY).  Mutant: WHERE asks for the password too.
RowsForSamePwd(u) ==
  LET Found == {k \in 1..Len(rows) : rows[k] = u} IN IF Found = {} THEN {0} ELSE Found

RowsFor(u) ==
  LET Found == {k \in 1..Len(rows) : rows[k].name = u.name} IN
  IF Found = {} THEN {0} ELSE Found

\* w's statement is under way: sent, and its result not yet fetched.
OnWire(w) == pc[w] \in {"store", "inserting"}

\* w sends a statement.  MYSQL* is not made for two threads at once: when
\* another worker's statement is under way on the connection, what comes back
\* on it is undefined from then on.
Send(w) ==
  mixed' = IF \E v \in Workers \ {w} : OnWire(v) /\ sql[v] = sql[w]
             THEN mixed \union {sql[w]} ELSE mixed

MayFail(c) == QueryFails \/ c \in mixed'

\* w registers a name: it is between a SELECT without a row and the end of
\* the INSERT.
Registers(w, name) ==
  /\ pc[w] \in {"store", "insert", "inserting"} /\ reply[w] = 0
  /\ ~req[w].isLogin /\ req[w].user.name = name

\* mysql_query(SELECT).  A failed query returns at once, without FreeConn.
Query(w) ==
  /\ pc[w] = "select"
  /\ Send(w)
  /\ \/ /\ MayFail(sql[w])
        /\ Goto(w, "idle") /\ UNCHANGED <<reply, raced>>
     \/ /\ Goto(w, "store")
        /\ \E k \in RowsFor(req[w].user) : reply' = [reply EXCEPT ![w] = k]
        /\ raced' = (raced \/ (/\ ~req[w].isLogin /\ reply'[w] = 0
                               /\ \E v \in Workers \ {w} : Registers(v, req[w].user.name)))
  /\ UNCHANGED <<poolVars, sql, req, flag, calls, rows, abort, misread>>

\* What mysql_store_result may return: the worker's own row or, on a mixed
\* connection, anybody's or none.
Result(w) == IF sql[w] \in mixed THEN 0..Len(rows) ELSE {reply[w]}

\* NULL instead of a result goes into mysql_num_fields.
StoreNull(w) == MayFail(sql[w]) /\ abort' = TRUE /\ UNCHANGED <<pc, flag, reply, misread>>

\* mysql_store_result and the rows fetched from it.
StoreRow(w) ==
  /\ \E k \in Result(w) :
       flag' = [flag EXCEPT ![w] =
         IF k = 0 THEN @ ELSE req[w].isLogin /\ rows[k].pwd = req[w].user.pwd]
  /\ reply' = [reply EXCEPT ![w] = 0]
  /\ IF ~req[w].isLogin /\ flag'[w]
       THEN Goto(w, "insert") /\ misread' = (misread \/ sql[w] \in mixed)
       ELSE Goto(w, "free") /\ UNCHANGED misread
  /\ UNCHANGED abort

Store(w) ==
  /\ pc[w] = "store"
  /\ UNCHANGED <<poolVars, sql, req, calls, rows, mixed, raced>>
  /\ StoreNull(w) \/ StoreRow(w)

\* mysql_query(INSERT): sent, then executed and answered.
InsertQuery(w) ==
  /\ pc[w] = "insert"
  /\ Send(w)
  /\ Goto(w, "inserting")
  /\ UNCHANGED <<poolVars, sql, req, flag, calls, reply, rows, abort, raced, misread>>

\* flag is true afterwards, also when the query failed.
InsertReturns(w) ==
  /\ pc[w] = "inserting"
  /\ UNCHANGED <<poolVars, sql, req, calls, reply, mixed, abort, raced, misread>>
  /\ \/ rows' = Append(rows, req[w].user)
     \/ MayFail(sql[w]) /\ UNCHANGED rows
  /\ flag' = [flag EXCEPT ![w] = TRUE]
  /\ Goto(w, "free")

FreeAndReturn(w) ==
  /\ pc[w] = "free"
  /\ FreeConn(sql[w])
  /\ Goto(w, "idle")
  /\ UNCHANGED <<sql, req, flag, calls, abort>>

UserVerify(w) ==
  \/ Query(w) \/ Store(w) \/ InsertQuery(w) \/ InsertReturns(w)
  \/ /\ \/ CheckEmpty(w) \/ SemWait(w) \/ Pop(w) \/ DestroyRAII(w)
        \/ AssertSql(w) \/ FreeAndReturn(w)
     /\ UNCHANGED dbVars

Next == ~abort /\ \E w \in Workers : Call(w) \/ UserVerify(w)

Spec == Init /\ [][Next]_vars

\* A call that has begun goes on, unless it waits for an answer on a mixed
\* connection, which may never come; nobody has to call.
FairSpec ==
  Spec /\ \A w \in Workers :
    WF_vars(~abort /\ UserVerify(w) /\ ~(OnWire(w) /\ sql[w] \in mixed))
-----------------------------------------------------------------------------
(* Properties. *)

\* Types; a worker past the assertion has a connection.
TypeOK ==
  /\ connQue \in Seq(Handle) /\ sem \in Nat
  /\ pc \in [Workers -> {"idle", "empty", "wait", "pop", "raii", "assert",
                         "select", "store", "insert", "inserting", "free"}]
  /\ sql \in [Workers -> Handle] /\ req \in [Workers -> Request]
  /\ flag \in [Workers -> BOOLEAN] /\ reply \in [Workers -> 0..Len(rows)]
  /\ calls \in Nat /\ rows \in Seq(User) /\ mixed \subseteq Conns
  /\ {abort, raced, misread} \subseteq BOOLEAN
  /\ \A w \in Workers : InUse(w) => sql[w] # NoConn

\* The semaphore counts the queue: a worker that got past sem_wait finds a
\* connection to pop, although empty() was tested without the mutex and
\* connections are freed twice (sqlconnpool.cpp:45-54).
SemCountsQueue == Len(connQue) = sem + Cardinality({w \in Workers : pc[w] = "pop"})

\* A user name is registered once (httprequest.cpp:223: the INSERT is for a
\* registration whose user name is not used), also when queries fail.  Two
\* exceptions, both recorded: two workers were between SELECT and INSERT of that
\* name at the same time (raced); or a registration went by a result fetched
\* from a connection on which two workers' statements had overlapped, so that
\* the result may be another worker's (misread).
RegisteredOnce ==
  ~raced /\ ~misread => \A k, l \in 1..Len(rows) : rows[k].name = rows[l].name => k = l

\* A connection belongs to one thread from the construction of the RAII object
\* to its destruction (sqlconnRAII.h:11).
ConnExclusive ==
  \A w \in Workers : InUse(w) =>
    /\ \A k \in 1..Len(connQue) : connQue[k] # sql[w]
    /\ \A v \in Workers \ {w} : InUse(v) => sql[v] # sql[w]

\* A worker that found the pool not empty gets a connection.
GetConnReturns == \A w \in Workers : (pc[w] = "wait") ~> (pc[w] # "wait" \/ abort)
=============================================================================
