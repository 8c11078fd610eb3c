------------------------------ MODULE ClientProofs ------------------------------
(***************************************************************************)
(* Proofs about those who wait: a call inside the app, for any calls; calls *)
(* with progress, for any callers of different tools; the comparison of     *)
(* versions, for any that follow semver; clients of the event stream, for   *)
(* any sizes of the ring and of a page; and a connection of the control     *)
(* plane, for any caps and however its bytes are cut.                       *)
(***************************************************************************)
EXTENDS MCClients, FiniteSetTheorems, SequenceTheorems, WellFoundedInduction, TLAPS

-------------------------------------------------------------------------------
(***************************************************************************)
(* Queues.                                                                 *)
(***************************************************************************)
Has(q, x) == \E i \in DOMAIN q : q[i] = x

\* Of the elements in T there is one at most for each call.
OncePerCall(q, T) ==
    \A i, j \in DOMAIN q : q[i] \in T /\ q[j] \in T /\ q[i].call = q[j].call => i = j

\* After the one there is none of the other.
NeverAfter(q, one, other2) ==
    \A i, j \in DOMAIN q : i < j /\ q[i] = one => q[j] # other2

LEMMA QueueTaken ==
    ASSUME NEW M, NEW q \in Seq(M), q # <<>>
    PROVE  /\ Tail(q) \in Seq(M) /\ Head(q) \in M
           /\ \A x : Has(q, x) <=> Has(Tail(q), x) \/ x = Head(q)
           /\ \A T : OncePerCall(q, T) =>
                /\ OncePerCall(Tail(q), T)
                /\ \A x : Head(q) \in T /\ Has(Tail(q), x) /\ x \in T => x.call # Head(q).call
           /\ \A x, y : NeverAfter(q, x, y) =>
                /\ NeverAfter(Tail(q), x, y)
                /\ Head(q) = x => ~Has(Tail(q), y)
<1>1. PICK n \in Nat : n >= 1 /\ Len(q) = n /\ DOMAIN q = 1..n
  BY EmptySeq
<1> DEFINE t == Tail(q)
<1>2. /\ t \in Seq(M) /\ Head(q) \in M /\ Head(q) = q[1] /\ DOMAIN t = 1..(n - 1)
      /\ \A i \in 1..(n - 1) : t[i] = q[i + 1]
  <2>1. /\ Head(q) \in M /\ t \in Seq(M) /\ Len(t) = n - 1
        /\ \A i \in 1..Len(t) : t[i] = q[i + 1]
    BY <1>1, HeadTailProperties
  <2> QED  BY <1>1, <2>1
<1> HIDE DEF t
<1>3. /\ 1 \in 1..n
      /\ \A i \in 1..n : i = 1 \/ (i - 1 \in 1..(n - 1) /\ (i - 1) + 1 = i)
      /\ \A i \in 1..(n - 1) : i + 1 \in 1..n /\ i + 1 # 1 /\ 1 < i + 1
      /\ \A i, j \in 1..(n - 1) : (i + 1 = j + 1 => i = j) /\ (i < j => i + 1 < j + 1)
  BY <1>1
<1>4. ASSUME NEW x PROVE Has(q, x) <=> Has(t, x) \/ x = Head(q)
  <2>1. ASSUME NEW i \in 1..n, q[i] = x, x # Head(q) PROVE Has(t, x)
    <3>1. i - 1 \in 1..(n - 1) /\ (i - 1) + 1 = i
      BY <1>2, <1>3, <2>1
    <3>2. t[i - 1] = x
      BY <1>2, <2>1, <3>1
    <3> QED  BY <1>2, <3>1, <3>2 DEF Has
  <2>2. ASSUME NEW i \in 1..(n - 1), t[i] = x PROVE Has(q, x)
    <3>1. i + 1 \in 1..n /\ q[i + 1] = x
      BY <1>2, <1>3, <2>2
    <3> QED  BY <1>1, <3>1 DEF Has
  <2>3. 1 \in 1..n /\ q[1] = Head(q)
    BY <1>2, <1>3
  <2> QED  BY <1>1, <1>2, <2>1, <2>2, <2>3 DEF Has
<1>5. ASSUME NEW T, OncePerCall(q, T)
      PROVE  /\ OncePerCall(t, T)
             /\ \A x : Head(q) \in T /\ Has(t, x) /\ x \in T => x.call # Head(q).call
  <2>1. OncePerCall(t, T)
    <3> SUFFICES ASSUME NEW i \in 1..(n - 1), NEW j \in 1..(n - 1),
                        t[i] \in T, t[j] \in T, t[i].call = t[j].call
                 PROVE  i = j
      BY <1>2 DEF OncePerCall
    <3>1. i + 1 \in DOMAIN q /\ j + 1 \in DOMAIN q /\ q[i + 1] = t[i] /\ q[j + 1] = t[j]
      BY <1>1, <1>2, <1>3
    <3>2. i + 1 = j + 1
      BY <1>5, <3>1 DEF OncePerCall
    <3> QED  BY <3>2
  <2>2. ASSUME NEW x, Head(q) \in T, Has(t, x), x \in T PROVE x.call # Head(q).call
    <3>1. PICK i \in 1..(n - 1) : t[i] = x
      BY <1>2, <2>2 DEF Has
    <3> QED  BY <1>1, <1>2, <1>3, <1>5, <2>2, <3>1 DEF OncePerCall
  <2> QED  BY <2>1, <2>2
<1>6. ASSUME NEW x, NEW y, NeverAfter(q, x, y)
      PROVE  NeverAfter(t, x, y) /\ (Head(q) = x => ~Has(t, y))
  <2>1. NeverAfter(t, x, y)
    <3> SUFFICES ASSUME NEW i \in 1..(n - 1), NEW j \in 1..(n - 1), i < j, t[i] = x
                 PROVE  t[j] # y
      BY <1>2 DEF NeverAfter
    <3>1. /\ i + 1 \in DOMAIN q /\ j + 1 \in DOMAIN q /\ i + 1 < j + 1
          /\ q[i + 1] = t[i] /\ q[j + 1] = t[j]
      BY <1>1, <1>2, <1>3
    <3> QED  BY <1>6, <3>1 DEF NeverAfter
  <2>2. ASSUME Head(q) = x, NEW j \in 1..(n - 1), t[j] = y PROVE FALSE
    <3>1. 1 \in DOMAIN q /\ j + 1 \in DOMAIN q /\ 1 < j + 1 /\ q[1] = x /\ q[j + 1] = y
      BY <1>1, <1>2, <1>3, <2>2
    <3> QED  BY <1>6, <3>1 DEF NeverAfter
  <2> QED  BY <1>2, <2>1, <2>2 DEF Has
<1> QED  BY <1>2, <1>4, <1>5, <1>6 DEF t

LEMMA QueueJoined ==
    ASSUME NEW M, NEW q \in Seq(M), NEW r \in Seq(M)
    PROVE  /\ q \o r \in Seq(M)
           /\ \A x : Has(q \o r, x) <=> Has(q, x) \/ Has(r, x)
           /\ \A T : /\ OncePerCall(q, T) /\ OncePerCall(r, T)
                     /\ \A x, y : Has(q, x) /\ Has(r, y) /\ x \in T /\ y \in T => x.call # y.call
                     => OncePerCall(q \o r, T)
<1> DEFINE s == q \o r
<1>1. PICK m \in Nat, n \in Nat : Len(q) = m /\ DOMAIN q = 1..m /\ Len(r) = n /\ DOMAIN r = 1..n
  OBVIOUS
<1>2. /\ s \in Seq(M) /\ DOMAIN s = 1..(m + n)
      /\ \A i \in 1..(m + n) : s[i] = IF i <= m THEN q[i] ELSE r[i - m]
  <2>1. /\ s \in Seq(M) /\ Len(s) = Len(q) + Len(r)
        /\ \A i \in 1..(Len(q) + Len(r)) : s[i] = IF i <= Len(q) THEN q[i] ELSE r[i - Len(q)]
    BY ConcatProperties
  <2> QED  BY <1>1, <2>1
<1> HIDE DEF s
<1>3. /\ \A i \in 1..(m + n) : i \in 1..m \/ (~(i <= m) /\ i - m \in 1..n)
      /\ \A i \in 1..m : i \in 1..(m + n) /\ i <= m
      /\ \A i \in 1..n : i + m \in 1..(m + n) /\ ~(i + m <= m) /\ (i + m) - m = i
      /\ \A i, j \in 1..(m + n) : i - m = j - m => i = j
  BY <1>1
<1>4. ASSUME NEW x PROVE Has(s, x) <=> Has(q, x) \/ Has(r, x)
  <2>1. ASSUME NEW i \in 1..(m + n), s[i] = x PROVE Has(q, x) \/ Has(r, x)
    <3>1. CASE i \in 1..m
      BY <1>1, <1>2, <2>1, <3>1 DEF Has
    <3>2. CASE ~(i <= m) /\ i - m \in 1..n
      BY <1>1, <1>2, <2>1, <3>2 DEF Has
    <3> QED  BY <1>3, <3>1, <3>2
  <2>2. ASSUME NEW i \in 1..m, q[i] = x PROVE Has(s, x)
    BY <1>2, <1>3, <2>2 DEF Has
  <2>3. ASSUME NEW i \in 1..n, r[i] = x PROVE Has(s, x)
    <3>1. i + m \in 1..(m + n) /\ s[i + m] = x
      BY <1>2, <1>3, <2>3
    <3> QED  BY <1>2, <3>1 DEF Has
  <2> QED  BY <1>1, <1>2, <2>1, <2>2, <2>3 DEF Has
<1>5. ASSUME NEW T, OncePerCall(q, T), OncePerCall(r, T),
             \A x, y : Has(q, x) /\ Has(r, y) /\ x \in T /\ y \in T => x.call # y.call
      PROVE  OncePerCall(s, T)
  <2> SUFFICES ASSUME NEW i \in 1..(m + n), NEW j \in 1..(m + n),
                      s[i] \in T, s[j] \in T, s[i].call = s[j].call
               PROVE  i = j
    BY <1>2 DEF OncePerCall
  <2>1. CASE i <= m /\ j <= m
    <3>1. i \in DOMAIN q /\ j \in DOMAIN q /\ s[i] = q[i] /\ s[j] = q[j]
      BY <1>1, <1>2, <2>1
    <3> QED  BY <1>5, <3>1 DEF OncePerCall
  <2>2. CASE ~(i <= m) /\ ~(j <= m)
    <3>1. i - m \in DOMAIN r /\ j - m \in DOMAIN r /\ s[i] = r[i - m] /\ s[j] = r[j - m]
      BY <1>1, <1>2, <1>3, <2>2
    <3>2. i - m = j - m
      BY <1>5, <3>1 DEF OncePerCall
    <3> QED  BY <1>3, <3>2
  <2>3. ASSUME NEW a \in 1..(m + n), NEW b \in 1..(m + n), a <= m, ~(b <= m),
               s[a] \in T, s[b] \in T, s[a].call = s[b].call
        PROVE  FALSE
    <3>1. a \in DOMAIN q /\ s[a] = q[a] /\ b - m \in DOMAIN r /\ s[b] = r[b - m]
      BY <1>1, <1>2, <1>3, <2>3
    <3>2. Has(q, s[a]) /\ Has(r, s[b])
      BY <3>1 DEF Has
    <3> QED  BY <1>5, <2>3, <3>2
  <2> QED  BY <2>1, <2>2, <2>3
<1> QED  BY <1>2, <1>4, <1>5 DEF s

LEMMA QueueAppended ==
    ASSUME NEW M, NEW q \in Seq(M), NEW e \in M
    PROVE  /\ Append(q, e) \in Seq(M)
           /\ \A x : Has(Append(q, e), x) <=> Has(q, x) \/ x = e
           /\ \A T : /\ OncePerCall(q, T)
                     /\ \A x : Has(q, x) /\ x \in T /\ e \in T => x.call # e.call
                     => OncePerCall(Append(q, e), T)
           /\ \A x, y : NeverAfter(q, x, y) /\ (e = y => ~Has(q, x)) => NeverAfter(Append(q, e), x, y)
<1> DEFINE s == Append(q, e)
<1>1. PICK m \in Nat : Len(q) = m /\ DOMAIN q = 1..m
  OBVIOUS
<1>2. /\ s \in Seq(M) /\ DOMAIN s = 1..(m + 1) /\ s[m + 1] = e
      /\ \A i \in 1..m : s[i] = q[i]
  BY <1>1, AppendProperties
<1> HIDE DEF s
<1>3. /\ \A i \in 1..(m + 1) : i = m + 1 \/ i \in 1..m
      /\ \A i \in 1..m : i \in 1..(m + 1) /\ i # m + 1 /\ ~(m + 1 < i)
      /\ m + 1 \in 1..(m + 1)
  BY <1>1
<1>4. ASSUME NEW x PROVE Has(s, x) <=> Has(q, x) \/ x = e
  BY <1>1, <1>2, <1>3 DEF Has
<1>5. ASSUME NEW T, OncePerCall(q, T),
             \A x : Has(q, x) /\ x \in T /\ e \in T => x.call # e.call
      PROVE  OncePerCall(s, T)
  <2> SUFFICES ASSUME NEW i \in 1..(m + 1), NEW j \in 1..(m + 1),
                      s[i] \in T, s[j] \in T, s[i].call = s[j].call
               PROVE  i = j
    BY <1>2 DEF OncePerCall
  <2>1. CASE i \in 1..m /\ j \in 1..m
    BY <1>1, <1>2, <1>5, <2>1 DEF OncePerCall
  <2>2. ASSUME NEW a \in 1..m, s[a] \in T, e \in T, s[a].call = e.call PROVE FALSE
    <3>1. Has(q, s[a])
      BY <1>1, <1>2 DEF Has
    <3> QED  BY <1>5, <2>2, <3>1
  <2> QED  BY <1>2, <1>3, <2>1, <2>2
<1>6. ASSUME NEW x, NEW y, NeverAfter(q, x, y), e = y => ~Has(q, x)
      PROVE  NeverAfter(s, x, y)
  <2> SUFFICES ASSUME NEW i \in 1..(m + 1), NEW j \in 1..(m + 1), i < j, s[i] = x PROVE s[j] # y
    BY <1>2 DEF NeverAfter
  <2>1. i \in 1..m
    OBVIOUS
  <2>2. CASE j \in 1..m
    BY <1>1, <1>2, <1>6, <2>1, <2>2 DEF NeverAfter
  <2>3. CASE j = m + 1
    BY <1>1, <1>2, <1>6, <2>1, <2>3 DEF Has
  <2> QED  BY <1>3, <2>2, <2>3
<1> QED  BY <1>2, <1>4, <1>5, <1>6 DEF s

LEMMA QueueEmpty ==
    /\ \A x : ~Has(<<>>, x)
    /\ \A T : OncePerCall(<<>>, T)
    /\ \A x, y : NeverAfter(<<>>, x, y)
  BY DEF Has, OncePerCall, NeverAfter

-------------------------------------------------------------------------------
(***************************************************************************)
(* A tool call inside the app.                                             *)
(***************************************************************************)
Task(todo, c) == [task |-> todo, call |-> c]
Tasks == [task : {"call", "cancel", "start", "resume"}, call : Calls] \union {[task |-> "abort"]}
NativeEvents == [event : {"toolCall", "toolCancel"}, call : Calls]
Heard(kind, c) == [event |-> kind, call |-> c]
Replies == {"tool_not_found", "result", "error", "tool_cancelled", "tool_timeout"}
Active == {"validating", "handling", "checking"}

\* The tasks that are a call's own: there is one at a time.
Turns == [task : {"call", "start", "resume"}, call : Calls]

InvocationTyped ==
    /\ registered \in BOOLEAN /\ suspended \in BOOLEAN /\ alive \in BOOLEAN
    /\ told \subseteq askedOfApp /\ askedOfApp \subseteq Calls /\ IsFiniteSet(askedOfApp)
    /\ tasks \in Seq(Tasks)
    /\ job \in [Calls -> {"none", "created", "waiting", "over"}]
    /\ cause \in [Calls -> {"none", "tool_cancelled", "tool_timeout"}]
    /\ inFlight \subseteq askedOfApp
    /\ pending = {c \in Calls : job[c] = "waiting"}
    /\ reply \in [Calls -> {"none", "result", "error"}]
    /\ answers \in [Calls -> Seq(Replies)]
    /\ events \in Seq(NativeEvents)
    /\ handler \in [Calls -> {"none", "validating", "handling", "checking", "over"}]
    /\ controllers \subseteq askedOfApp
    /\ signalled \subseteq askedOfApp

\* What a call's own task in the queue says about the call: before an answer, once.
TurnOf(c) ==
    /\ Has(tasks, Task("call", c)) =>
         c \in askedOfApp /\ job[c] = "none" /\ answers[c] = <<>>
    /\ Has(tasks, Task("start", c)) => job[c] = "created"
    /\ Has(tasks, Task("resume", c)) =>
         job[c] = "waiting" /\ (cause[c] # "none" \/ reply[c] # "none")
    /\ c \notin askedOfApp => job[c] = "none" /\ answers[c] = <<>>
    /\ job[c] \in {"created", "waiting"} => answers[c] = <<>>
    /\ Len(answers[c]) <= 1
TurnsInOrder == OncePerCall(tasks, Turns) /\ \A c \in Calls : TurnOf(c)

\* An abandoned call whose handler runs is signalled, or its cancel is on the way.
GivenUp(c) == answers[c] \in {<<"tool_cancelled">>, <<"tool_timeout">>}
CancelOf(c) ==
    /\ Has(events, Heard("toolCall", c)) => job[c] \in {"waiting", "over"}
    /\ Has(events, Heard("toolCancel", c)) => job[c] = "over"
    /\ NeverAfter(events, Heard("toolCancel", c), Heard("toolCall", c))
    /\ handler[c] \in Active => c \in controllers \/ (c \in signalled /\ ~alive)
    /\ GivenUp(c) =>
         \/ Has(events, Heard("toolCancel", c))
         \/ c \in signalled
         \/ handler[c] \notin Active /\ ~Has(events, Heard("toolCall", c))
CancelOnTheWay ==
    (~alive => events = <<>> /\ controllers = {}) /\ \A c \in Calls : CancelOf(c)

InvocationIInv == InvocationTyped /\ TurnsInOrder /\ CancelOnTheWay

LEMMA TaskTypes ==
    /\ \A c \in Calls, todo \in {"call", "cancel", "start", "resume"} :
         /\ Task(todo, c) \in Tasks
         /\ Task(todo, c).task = todo /\ Task(todo, c).call = c
         /\ todo # "cancel" => Task(todo, c) \in Turns
    /\ \A x \in Turns : x.call \in Calls /\ x = Task(x.task, x.call)
                          /\ x.task \in {"call", "start", "resume"}
    /\ \A c \in Calls : Task("cancel", c) \notin Turns
    /\ [task |-> "abort"] \in Tasks /\ [task |-> "abort"] \notin Turns
    /\ \A x \in Tasks : x.task # "abort" => x.call \in Calls /\ x = Task(x.task, x.call)
    /\ \A c \in Calls, kind \in {"toolCall", "toolCancel"} : Heard(kind, c) \in NativeEvents
    /\ \A x \in NativeEvents : x.call \in Calls /\ x = Heard(x.event, x.call)
  BY DEF Task, Tasks, Turns, Heard, NativeEvents

LEMMA InvocationInitIInv == I!InvocationInit => InvocationIInv
<1> SUFFICES ASSUME I!InvocationInit PROVE InvocationIInv
  OBVIOUS
<1>1. InvocationTyped
  <2>1. <<>> \in Seq(Tasks) /\ <<>> \in Seq(Replies) /\ <<>> \in Seq(NativeEvents)
    OBVIOUS
  <2>2. [c \in Calls |-> <<>>] \in [Calls -> Seq(Replies)]
    BY <2>1
  <2> QED  BY <2>1, <2>2, FS_EmptySet DEF I!InvocationInit, InvocationTyped
<1>2. TurnsInOrder
  BY QueueEmpty DEF I!InvocationInit, TurnsInOrder, TurnOf
<1>3. CancelOnTheWay
  <2>1. <<>> # <<"tool_cancelled">> /\ <<>> # <<"tool_timeout">>
    OBVIOUS
  <2> QED  BY <2>1, QueueEmpty DEF I!InvocationInit, CancelOnTheWay, CancelOf, GivenUp, Active
<1> QED  BY <1>1, <1>2, <1>3 DEF InvocationIInv

\* Nothing about the events and handlers changes with the queue of tasks alone.
LEMMA EventsKept ==
    ASSUME CancelOnTheWay, UNCHANGED <<events, alive, handler, controllers, signalled, answers, job>>
    PROVE  CancelOnTheWay'
  BY DEF CancelOnTheWay, CancelOf, GivenUp

LEMMA DaemonIInv ==
    ASSUME InvocationIInv, NEW c \in Calls, I!DaemonCalls(c) \/ I!DaemonCancels(c)
    PROVE  InvocationIInv'
<1> USE DEF InvocationIInv
<1>1. CASE I!DaemonCalls(c)
  <2>1. /\ c \notin askedOfApp /\ askedOfApp' = askedOfApp \union {c}
        /\ tasks' = Append(tasks, Task("call", c))
        /\ UNCHANGED <<job, cause, inFlight, pending, answers, registered, told, suspended, reply,
                       events, alive, handler, controllers, signalled>>
    BY <1>1 DEF I!DaemonCalls, I!Post, I!KeepNative, I!jsVars, Task
  <2>2. IsFiniteSet(askedOfApp')
    BY <2>1, FS_AddElement DEF InvocationTyped
  <2>3. /\ tasks' \in Seq(Tasks)
        /\ \A x : Has(tasks', x) <=> Has(tasks, x) \/ x = Task("call", c)
        /\ OncePerCall(tasks, Turns) /\
             (\A x : Has(tasks, x) /\ x \in Turns /\ Task("call", c) \in Turns
                       => x.call # Task("call", c).call)
             => OncePerCall(tasks', Turns)
    BY <2>1, TaskTypes, QueueAppended DEF InvocationTyped
  <2>4. InvocationTyped'
    BY <2>1, <2>2, <2>3 DEF InvocationTyped
  <2>5. ASSUME NEW x \in Turns, Has(tasks, x) PROVE x.call # c
    <3>1. x.call \in Calls /\ x = Task(x.task, x.call) /\ x.task \in {"call", "start", "resume"}
      BY TaskTypes
    <3> QED  BY <2>1, <2>5, <3>1 DEF TurnsInOrder, TurnOf
  <2>6. OncePerCall(tasks', Turns)
    BY <2>3, <2>5, TaskTypes DEF TurnsInOrder, TurnOf
  <2>7. TurnsInOrder'
    <3>1. ASSUME NEW d \in Calls
          PROVE  /\ Has(tasks', Task("call", d)) <=> Has(tasks, Task("call", d)) \/ d = c
                 /\ Has(tasks', Task("start", d)) <=> Has(tasks, Task("start", d))
                 /\ Has(tasks', Task("resume", d)) <=> Has(tasks, Task("resume", d))
      BY <2>3, TaskTypes
    <3> QED  BY <2>1, <2>6, <3>1 DEF TurnsInOrder, TurnOf
  <2> QED  BY <2>1, <2>4, <2>7, EventsKept
<1>2. CASE I!DaemonCancels(c)
  <2>1. PICK t : t = Task("cancel", c) /\ tasks' = Append(tasks, t)
    BY <1>2 DEF I!DaemonCancels, I!Post, Task
  <2>2. /\ UNCHANGED <<job, cause, inFlight, pending, answers, registered, askedOfApp, reply,
                       events, alive, handler, controllers, signalled>>
        /\ told' \subseteq askedOfApp /\ suspended' = suspended
    BY <1>2 DEF I!DaemonCancels, I!KeepNative, I!jsVars, InvocationTyped
  <2>3. t \in Tasks /\ t \notin Turns
    BY <2>1, TaskTypes
  <2>4. /\ tasks' \in Seq(Tasks)
        /\ \A x : Has(tasks', x) <=> Has(tasks, x) \/ x = t
        /\ OncePerCall(tasks', Turns)
    BY <2>1, <2>3, QueueAppended DEF InvocationTyped, TurnsInOrder, TurnOf
  <2>5. InvocationTyped'
    BY <2>2, <2>4 DEF InvocationTyped
  <2>6. TurnsInOrder'
    <3>1. ASSUME NEW d \in Calls, NEW todo \in {"call", "start", "resume"}
          PROVE  Has(tasks', Task(todo, d)) <=> Has(tasks, Task(todo, d))
      BY <2>3, <2>4, TaskTypes
    <3> QED  BY <2>2, <2>4, <3>1 DEF TurnsInOrder, TurnOf
  <2> QED  BY <2>2, <2>5, <2>6, EventsKept
<1> QED  BY <1>1, <1>2

\* A task is taken from the queue: if it is a call's own, none of that call is left.
LEMMA TaskTaken ==
    ASSUME InvocationTyped, OncePerCall(tasks, Turns),
           NEW todo \in {"call", "cancel", "start", "resume"}, I!Take(todo)
    PROVE  /\ Head(tasks).call \in Calls /\ Head(tasks) = Task(todo, Head(tasks).call)
           /\ Tail(tasks) \in Seq(Tasks) /\ OncePerCall(Tail(tasks), Turns)
           /\ \A x : Has(Tail(tasks), x) => Has(tasks, x)
           /\ Has(tasks, Head(tasks))
           /\ todo # "cancel" =>
                \A t \in {"call", "start", "resume"} : ~Has(Tail(tasks), Task(t, Head(tasks).call))
<1>1. tasks # <<>> /\ Head(tasks).task = todo /\ tasks \in Seq(Tasks)
  BY DEF I!Take, InvocationTyped
<1>2. /\ Tail(tasks) \in Seq(Tasks) /\ Head(tasks) \in Tasks
      /\ \A x : Has(tasks, x) <=> Has(Tail(tasks), x) \/ x = Head(tasks)
      /\ OncePerCall(Tail(tasks), Turns)
      /\ \A x : Head(tasks) \in Turns /\ Has(Tail(tasks), x) /\ x \in Turns
                  => x.call # Head(tasks).call
  BY <1>1, QueueTaken
<1>3. Head(tasks).call \in Calls /\ Head(tasks) = Task(todo, Head(tasks).call)
  BY <1>1, <1>2, TaskTypes
<1>4. todo # "cancel" => Head(tasks) \in Turns
  BY <1>3, TaskTypes
<1> QED  BY <1>2, <1>3, <1>4, TaskTypes

\* A call's own task is posted when it has none.
LEMMA TurnPosted ==
    ASSUME NEW q \in Seq(Tasks), OncePerCall(q, Turns), NEW c \in Calls,
           NEW todo \in {"call", "start", "resume"},
           \A t \in {"call", "start", "resume"} : ~Has(q, Task(t, c))
    PROVE  /\ Append(q, Task(todo, c)) \in Seq(Tasks)
           /\ OncePerCall(Append(q, Task(todo, c)), Turns)
           /\ \A x : Has(Append(q, Task(todo, c)), x) <=> Has(q, x) \/ x = Task(todo, c)
           /\ q \o <<Task(todo, c)>> = Append(q, Task(todo, c))
<1>1. \A x : Has(q, x) /\ x \in Turns => x.call # Task(todo, c).call
  BY TaskTypes
<1>2. Task(todo, c) \in Tasks
  BY TaskTypes
<1>3. Append(q, Task(todo, c)) = q \o <<Task(todo, c)>>
  BY <1>2, AppendIsConcat
<1> QED  BY <1>1, <1>2, <1>3, QueueAppended

\* A coroutine that Wakes has no task in the queue.
LEMMA WakesHasNoTurn ==
    ASSUME InvocationIInv, NEW c \in Calls, I!Wakes(c)
    PROVE  \A t \in {"call", "start", "resume"} : ~Has(tasks, Task(t, c))
  BY DEF I!Wakes, InvocationIInv, TurnsInOrder, TurnOf

LEMMA RunCallIInv == InvocationIInv /\ I!RunCall => InvocationIInv'
<1> SUFFICES ASSUME InvocationIInv, I!RunCall PROVE InvocationIInv'
  OBVIOUS
<1>0. PICK c : c = Head(tasks).call
  OBVIOUS
<1>1. I!Take("call")
  BY DEF I!RunCall
<1>2. /\ c \in Calls /\ Head(tasks) = Task("call", c)
      /\ Tail(tasks) \in Seq(Tasks) /\ OncePerCall(Tail(tasks), Turns)
      /\ \A x : Has(Tail(tasks), x) => Has(tasks, x)
      /\ Has(tasks, Task("call", c))
      /\ \A t \in {"call", "start", "resume"} : ~Has(Tail(tasks), Task(t, c))
  BY <1>0, <1>1, TaskTaken DEF InvocationIInv, TurnsInOrder, TurnOf
<1>3. /\ c \in askedOfApp /\ job[c] = "none" /\ answers[c] = <<>>
  BY <1>2 DEF InvocationIInv, TurnsInOrder, TurnOf
<1>4. UNCHANGED <<registered, askedOfApp, told, suspended, cause, pending, reply, events, alive,
                  handler, controllers, signalled>>
  BY DEF I!RunCall, I!daemonVars, I!jsVars
<1>5. CASE registered
  <2>1. /\ job' = [job EXCEPT ![c] = "created"] /\ inFlight' = inFlight \union {c}
        /\ tasks' = Tail(tasks) \o <<Task("start", c)>> /\ UNCHANGED answers
    BY <1>0, <1>5 DEF I!RunCall, I!Then, Task
  <2>2. /\ tasks' \in Seq(Tasks) /\ OncePerCall(tasks', Turns)
        /\ \A x : Has(tasks', x) <=> Has(Tail(tasks), x) \/ x = Task("start", c)
    <3>1. /\ Append(Tail(tasks), Task("start", c)) \in Seq(Tasks)
          /\ OncePerCall(Append(Tail(tasks), Task("start", c)), Turns)
          /\ \A x : Has(Append(Tail(tasks), Task("start", c)), x)
                     <=> Has(Tail(tasks), x) \/ x = Task("start", c)
          /\ Tail(tasks) \o <<Task("start", c)>> = Append(Tail(tasks), Task("start", c))
      BY <1>2, TurnPosted
    <3> QED  BY <2>1, <3>1
  <2>3. job'[c] = "created" /\ \A d \in Calls \ {c} : job'[d] = job[d]
    BY <1>2, <2>1 DEF InvocationIInv, InvocationTyped
  <2>4. InvocationTyped'
    <3>1. pending' = {d \in Calls : job'[d] = "waiting"}
      BY <1>3, <1>4, <2>3 DEF InvocationIInv, InvocationTyped
    <3> QED  BY <1>2, <1>3, <1>4, <2>1, <2>2, <3>1 DEF InvocationIInv, InvocationTyped
  <2>5. TurnsInOrder'
    <3> SUFFICES ASSUME NEW d \in Calls PROVE TurnOf(d)'
      BY <2>2 DEF TurnsInOrder
    <3>1. CASE d = c
      BY <1>2, <1>3, <1>4, <2>1, <2>2, <2>3, <3>1, TaskTypes DEF TurnOf
    <3>2. CASE d # c
      <4>1. \A todo \in {"call", "start", "resume"} : Has(tasks', Task(todo, d)) => Has(tasks, Task(todo, d))
        BY <1>2, <2>2, <3>2, TaskTypes
      <4> QED  BY <1>4, <2>1, <2>3, <3>2, <4>1 DEF InvocationIInv, TurnsInOrder, TurnOf
    <3> QED  BY <3>1, <3>2
  <2>6. CancelOnTheWay'
    BY <1>3, <1>4, <2>1, <2>3 DEF InvocationIInv, CancelOnTheWay, CancelOf, GivenUp
  <2> QED  BY <2>4, <2>5, <2>6 DEF InvocationIInv
<1>6. CASE ~registered
  <2>1. /\ answers' = [answers EXCEPT ![c] = Append(@, "tool_not_found")]
        /\ tasks' = Tail(tasks) \o <<>> /\ UNCHANGED <<job, inFlight>>
    BY <1>0, <1>6 DEF I!RunCall, I!Then, I!Answer
  <2>2. tasks' = Tail(tasks)
    BY <1>2, <2>1, ConcatEmptySeq
  <2>3. /\ answers'[c] = Append(<<>>, "tool_not_found") /\ answers'[c] \in Seq(Replies)
        /\ Len(answers'[c]) = 1 /\ answers'[c][1] = "tool_not_found"
        /\ \A d \in Calls \ {c} : answers'[d] = answers[d]
    <3>1. <<>> \in Seq(Replies) /\ "tool_not_found" \in Replies
      BY DEF Replies
    <3> QED  BY <1>2, <1>3, <2>1, <3>1 DEF InvocationIInv, InvocationTyped
  <2>4. InvocationTyped'
    BY <1>2, <1>4, <2>1, <2>2, <2>3 DEF InvocationIInv, InvocationTyped
  <2>5. TurnsInOrder'
    <3> SUFFICES ASSUME NEW d \in Calls PROVE TurnOf(d)'
      BY <1>2, <2>2 DEF TurnsInOrder
    <3>1. CASE d = c
      BY <1>2, <1>3, <1>4, <2>1, <2>2, <2>3, <3>1 DEF TurnOf
    <3>2. CASE d # c
      BY <1>2, <1>4, <2>1, <2>2, <2>3, <3>2 DEF InvocationIInv, TurnsInOrder, TurnOf
    <3> QED  BY <3>1, <3>2
  <2>6. CancelOnTheWay'
    <3>1. ~GivenUp(c)'
      <4>1. <<"tool_cancelled">>[1] = "tool_cancelled" /\ <<"tool_timeout">>[1] = "tool_timeout"
        OBVIOUS
      <4> QED  BY <2>3, <4>1 DEF GivenUp
    <3> QED  BY <1>4, <2>1, <2>3, <3>1 DEF InvocationIInv, CancelOnTheWay, CancelOf, GivenUp
  <2> QED  BY <2>4, <2>5, <2>6 DEF InvocationIInv
<1> QED  BY <1>5, <1>6

LEMMA RunStartIInv == InvocationIInv /\ I!RunStart => InvocationIInv'
<1> SUFFICES ASSUME InvocationIInv, I!RunStart PROVE InvocationIInv'
  OBVIOUS
<1>0. PICK c : c = Head(tasks).call
  OBVIOUS
<1>1. I!Take("start")
  BY DEF I!RunStart
<1>2. /\ c \in Calls /\ Head(tasks) = Task("start", c)
      /\ Tail(tasks) \in Seq(Tasks) /\ OncePerCall(Tail(tasks), Turns)
      /\ \A x : Has(Tail(tasks), x) => Has(tasks, x)
      /\ Has(tasks, Task("start", c))
      /\ \A t \in {"call", "start", "resume"} : ~Has(Tail(tasks), Task(t, c))
  BY <1>0, <1>1, TaskTaken DEF InvocationIInv, TurnsInOrder, TurnOf
<1>3. c \in askedOfApp /\ job[c] = "created" /\ answers[c] = <<>>
  BY <1>2 DEF InvocationIInv, TurnsInOrder, TurnOf
<1>4. /\ tasks' = Tail(tasks)
      /\ UNCHANGED <<registered, askedOfApp, told, suspended, cause, inFlight, answers, reply,
                     alive, handler, controllers, signalled>>
  BY <1>2, ConcatEmptySeq DEF I!RunStart, I!Then, I!daemonVars, I!jsVars
<1>5. PICK to \in {"waiting", "over"} :
        /\ job' = [job EXCEPT ![c] = to]
        /\ pending' = IF to = "waiting" THEN pending \union {c} ELSE pending
        /\ events' = IF to = "waiting" /\ alive THEN Append(events, Heard("toolCall", c))
                     ELSE events
  BY <1>0 DEF I!RunStart, I!Emit, Heard
<1>6. job'[c] = to /\ \A d \in Calls \ {c} : job'[d] = job[d]
  BY <1>2, <1>5 DEF InvocationIInv, InvocationTyped
<1>7. /\ events' \in Seq(NativeEvents)
      /\ \A x : Has(events', x) => Has(events, x) \/ (alive /\ to = "waiting" /\ x = Heard("toolCall", c))
      /\ \A x : Has(events, x) => Has(events', x)
      /\ \A d \in Calls : NeverAfter(events', Heard("toolCancel", d), Heard("toolCall", d))
  <2>1. CASE to = "waiting" /\ alive
    <3>1. events \in Seq(NativeEvents) /\ Heard("toolCall", c) \in NativeEvents
      BY <1>2, TaskTypes DEF InvocationIInv, InvocationTyped
    <3>2. ~Has(events, Heard("toolCancel", c))
      BY <1>2, <1>3 DEF InvocationIInv, CancelOnTheWay, CancelOf
    <3>3. \A d \in Calls : Heard("toolCall", c) = Heard("toolCall", d) => d = c
      BY DEF Heard
    <3>4. events' = Append(events, Heard("toolCall", c))
      BY <1>5, <2>1
    <3>5. /\ events' \in Seq(NativeEvents)
          /\ \A x : Has(events', x) <=> Has(events, x) \/ x = Heard("toolCall", c)
          /\ \A x, y : NeverAfter(events, x, y) /\ (Heard("toolCall", c) = y => ~Has(events, x))
                         => NeverAfter(events', x, y)
      BY <3>1, <3>4, QueueAppended
    <3> QED  BY <2>1, <3>2, <3>3, <3>5 DEF InvocationIInv, CancelOnTheWay, CancelOf
  <2>2. CASE ~(to = "waiting" /\ alive)
    BY <1>5, <2>2 DEF InvocationIInv, InvocationTyped, CancelOnTheWay, CancelOf
  <2> QED  BY <2>1, <2>2
<1>8. InvocationTyped'
  <2>1. pending' = {d \in Calls : job'[d] = "waiting"}
    BY <1>2, <1>3, <1>5, <1>6 DEF InvocationIInv, InvocationTyped
  <2> QED  BY <1>2, <1>4, <1>5, <1>7, <2>1 DEF InvocationIInv, InvocationTyped
<1>9. TurnsInOrder'
  <2> SUFFICES ASSUME NEW d \in Calls PROVE TurnOf(d)'
    BY <1>2, <1>4 DEF TurnsInOrder
  <2>1. CASE d = c
    BY <1>2, <1>3, <1>4, <1>6, <2>1 DEF TurnOf
  <2>2. CASE d # c
    BY <1>2, <1>4, <1>6, <2>2 DEF InvocationIInv, TurnsInOrder, TurnOf
  <2> QED  BY <2>1, <2>2
<1>10. CancelOnTheWay'
  <2>1. (~alive => events = <<>> /\ controllers = {})'
    BY <1>4, <1>5 DEF InvocationIInv, CancelOnTheWay
  <2> SUFFICES ASSUME NEW d \in Calls PROVE CancelOf(d)'
    BY <2>1 DEF CancelOnTheWay
  <2>2. /\ CancelOf(d) /\ Heard("toolCancel", d) # Heard("toolCall", c)
        /\ Heard("toolCall", d) = Heard("toolCall", c) => d = c
    BY DEF InvocationIInv, CancelOnTheWay, Heard
  <2>3. CASE d = c
    <3>1. answers[c] # <<"tool_cancelled">> /\ answers[c] # <<"tool_timeout">>
      <4>1. <<>> # <<"tool_cancelled">> /\ <<>> # <<"tool_timeout">>
        OBVIOUS
      <4> QED  BY <1>3, <4>1
    <3> QED  BY <1>3, <1>4, <1>6, <1>7, <2>2, <2>3, <3>1 DEF CancelOf, GivenUp
  <2>4. CASE d # c
    BY <1>4, <1>6, <1>7, <2>2, <2>4 DEF CancelOf, GivenUp
  <2> QED  BY <2>3, <2>4
<1> QED  BY <1>8, <1>9, <1>10 DEF InvocationIInv

\* What cancelling a set of jobs does to the causes.
LEMMA CausesSet ==
    ASSUME InvocationTyped, NEW C \in SUBSET Calls, NEW why \in {"tool_cancelled", "tool_timeout"},
           I!Cancelled(C, why)
    PROVE  /\ cause' \in [Calls -> {"none", "tool_cancelled", "tool_timeout"}]
           /\ \A d \in Calls : cause[d] # "none" => cause'[d] # "none"
           /\ \A d \in C : I!Wakes(d) => cause'[d] # "none"
  BY DEF InvocationTyped, I!Cancelled, I!Cancellable, I!Wakes

\* Coroutines that were waiting undisturbed are cancelled: each is resumed, once.
LEMMA ResumptionsPosted ==
    ASSUME InvocationIInv,
           NEW q \in Seq(Tasks), OncePerCall(q, Turns), \A x : Has(q, x) => Has(tasks, x),
           NEW r \in Seq(Tasks), OncePerCall(r, Turns),
           NEW C \in SUBSET Calls, \A c \in C : I!Wakes(c) /\ cause'[c] # "none",
           \A x : Has(r, x) => \E c \in C : x = Task("resume", c),
           tasks' = q \o r,
           cause' \in [Calls -> {"none", "tool_cancelled", "tool_timeout"}],
           \A d \in Calls : cause[d] # "none" => cause'[d] # "none",
           UNCHANGED <<registered, askedOfApp, told, suspended, job, inFlight, pending, answers,
                       reply, events, alive, handler, controllers, signalled>>
    PROVE  InvocationIInv'
<1>1. \A c \in C : job[c] = "waiting" /\ \A t \in {"call", "start", "resume"} : ~Has(q, Task(t, c))
  BY WakesHasNoTurn DEF I!Wakes
<1>2. ASSUME NEW x, NEW y, Has(q, x), Has(r, y), x \in Turns, y \in Turns PROVE x.call # y.call
  <2>1. PICK c \in C : y = Task("resume", c)
    BY <1>2
  <2>2. y.call = c /\ x = Task(x.task, x.call) /\ x.task \in {"call", "start", "resume"}
    BY <1>2, <2>1, TaskTypes
  <2> QED  BY <1>1, <1>2, <2>2
<1>3. /\ tasks' \in Seq(Tasks)
      /\ \A x : Has(tasks', x) <=> Has(q, x) \/ Has(r, x)
      /\ OncePerCall(tasks', Turns)
  <2>1. /\ q \o r \in Seq(Tasks)
        /\ \A x : Has(q \o r, x) <=> Has(q, x) \/ Has(r, x)
        /\ OncePerCall(q \o r, Turns)
    BY <1>2, QueueJoined
  <2> QED  BY <2>1
<1>4. InvocationTyped'
  BY <1>3 DEF InvocationIInv, InvocationTyped
<1>5. TurnsInOrder'
  <2> SUFFICES ASSUME NEW d \in Calls PROVE TurnOf(d)'
    BY <1>3 DEF TurnsInOrder
  <2>1. /\ Has(tasks', Task("call", d)) => Has(tasks, Task("call", d))
        /\ Has(tasks', Task("start", d)) => Has(tasks, Task("start", d))
        /\ Has(tasks', Task("resume", d)) => Has(tasks, Task("resume", d)) \/ d \in C
    BY <1>3, TaskTypes
  <2> QED  BY <1>1, <2>1 DEF InvocationIInv, TurnsInOrder, TurnOf
<1>6. CancelOnTheWay'
  BY EventsKept DEF InvocationIInv
<1> QED  BY <1>4, <1>5, <1>6 DEF InvocationIInv

LEMMA OneResumption ==
    ASSUME NEW c \in Calls
    PROVE  /\ <<Task("resume", c)>> \in Seq(Tasks) /\ OncePerCall(<<Task("resume", c)>>, Turns)
           /\ \A x : Has(<<Task("resume", c)>>, x) => x = Task("resume", c)
           /\ \A q \in Seq(Tasks) : Append(q, Task("resume", c)) = q \o <<Task("resume", c)>>
<1>1. Task("resume", c) \in Tasks
  BY TaskTypes
<1>2. \A q \in Seq(Tasks) : Append(q, Task("resume", c)) = q \o <<Task("resume", c)>>
  BY <1>1, AppendIsConcat
<1> QED  BY <1>1, <1>2 DEF OncePerCall, Has

LEMMA RunCancelIInv == InvocationIInv /\ I!RunCancel => InvocationIInv'
<1> SUFFICES ASSUME InvocationIInv, I!RunCancel PROVE InvocationIInv'
  OBVIOUS
<1>0. PICK c : c = Head(tasks).call
  OBVIOUS
<1>1. I!Take("cancel")
  BY DEF I!RunCancel
<1>2. /\ c \in Calls /\ Tail(tasks) \in Seq(Tasks) /\ OncePerCall(Tail(tasks), Turns)
      /\ \A x : Has(Tail(tasks), x) => Has(tasks, x)
  BY <1>0, <1>1, TaskTaken DEF InvocationIInv, TurnsInOrder
<1> DEFINE found == inFlight \intersect {c}
<1>3. /\ I!Cancelled(found, "tool_cancelled")
      /\ tasks' = Tail(tasks) \o (IF c \in found /\ I!Wakes(c) THEN <<Task("resume", c)>> ELSE <<>>)
      /\ UNCHANGED <<registered, askedOfApp, told, suspended, job, inFlight, pending, answers,
                     reply, events, alive, handler, controllers, signalled>>
  BY <1>0 DEF I!RunCancel, I!Then, I!Resumption, Task, I!daemonVars, I!jsVars
<1>4. found \in SUBSET Calls
  BY <1>2
<1>5. /\ cause' \in [Calls -> {"none", "tool_cancelled", "tool_timeout"}]
      /\ \A d \in Calls : cause[d] # "none" => cause'[d] # "none"
      /\ \A d \in found : I!Wakes(d) => cause'[d] # "none"
  BY <1>3, <1>4, CausesSet DEF InvocationIInv
<1> HIDE DEF found
<1>6. CASE c \in found /\ I!Wakes(c)
  <2>1. /\ tasks' = Tail(tasks) \o <<Task("resume", c)>>
        /\ {c} \in SUBSET Calls /\ \A d \in {c} : I!Wakes(d) /\ cause'[d] # "none"
    BY <1>2, <1>3, <1>5, <1>6
  <2>2. /\ <<Task("resume", c)>> \in Seq(Tasks) /\ OncePerCall(<<Task("resume", c)>>, Turns)
        /\ \A x : Has(<<Task("resume", c)>>, x) => \E d \in {c} : x = Task("resume", d)
    BY <1>2, OneResumption
  <2> QED  BY <1>2, <1>3, <1>5, <2>1, <2>2, ResumptionsPosted
<1>7. CASE ~(c \in found /\ I!Wakes(c))
  <2>1. <<>> \in Seq(Tasks) /\ OncePerCall(<<>>, Turns)
        /\ \A x : Has(<<>>, x) => \E d \in {} : x = Task("resume", d)
    BY QueueEmpty
  <2>3. tasks' = Tail(tasks) \o <<>>
    BY <1>3, <1>7
  <2>2. {} \in SUBSET Calls /\ \A d \in {} : I!Wakes(d) /\ cause'[d] # "none"
    OBVIOUS
  <2> QED  BY <1>2, <1>3, <1>5, <2>1, <2>2, <2>3, ResumptionsPosted
<1> QED  BY <1>6, <1>7

LEMMA TimesOutIInv ==
    ASSUME InvocationIInv, NEW c \in Calls, I!TimesOut(c)
    PROVE  InvocationIInv'
<1>1. /\ I!Cancelled({c}, "tool_timeout")
      /\ tasks' = IF I!Wakes(c) THEN Append(tasks, Task("resume", c)) ELSE tasks
      /\ UNCHANGED <<registered, askedOfApp, told, suspended, job, inFlight, pending, answers,
                     reply, events, alive, handler, controllers, signalled>>
  BY DEF I!TimesOut, I!Resumption, Task, I!daemonVars, I!jsVars
<1>2. tasks \in Seq(Tasks) /\ OncePerCall(tasks, Turns) /\ {c} \in SUBSET Calls
  BY DEF InvocationIInv, InvocationTyped, TurnsInOrder
<1>3. /\ cause' \in [Calls -> {"none", "tool_cancelled", "tool_timeout"}]
      /\ \A d \in Calls : cause[d] # "none" => cause'[d] # "none"
      /\ \A d \in {c} : I!Wakes(d) => cause'[d] # "none"
  BY <1>1, <1>2, CausesSet DEF InvocationIInv
<1>4. CASE I!Wakes(c)
  <2>1. /\ <<Task("resume", c)>> \in Seq(Tasks) /\ OncePerCall(<<Task("resume", c)>>, Turns)
        /\ \A x : Has(<<Task("resume", c)>>, x) => \E d \in {c} : x = Task("resume", d)
        /\ tasks' = tasks \o <<Task("resume", c)>>
    BY <1>1, <1>2, <1>4, OneResumption
  <2>2. \A d \in {c} : I!Wakes(d) /\ cause'[d] # "none"
    BY <1>3, <1>4
  <2> QED  BY <1>1, <1>2, <1>3, <2>1, <2>2, ResumptionsPosted
<1>5. CASE ~I!Wakes(c)
  <2>1. /\ tasks' = tasks \o <<>> /\ <<>> \in Seq(Tasks) /\ OncePerCall(<<>>, Turns)
        /\ \A x : Has(<<>>, x) => \E d \in {} : x = Task("resume", d)
    BY <1>1, <1>2, <1>5, ConcatEmptySeq, QueueEmpty
  <2>2. {} \in SUBSET Calls /\ \A d \in {} : I!Wakes(d) /\ cause'[d] # "none"
    OBVIOUS
  <2> QED  BY <1>1, <1>2, <1>3, <2>1, <2>2, ResumptionsPosted
<1> QED  BY <1>4, <1>5

\* The resumptions of several calls, one after the other.
LEMMA ResumptionsListed ==
    ASSUME NEW C \in SUBSET Calls, IsFiniteSet(C)
    PROVE  LET r == I!SetToSeq({I!Resumption(c) : c \in C})
           IN /\ r \in Seq(Tasks)
              /\ OncePerCall(r, Turns)
              /\ \A x : Has(r, x) => \E c \in C : x = Task("resume", c)
<1> DEFINE W == {Task("resume", c) : c \in C}
           s == I!SetToSeq(W)
<1>1. {I!Resumption(c) : c \in C} = W
  BY DEF I!Resumption, Task
<1>2. IsFiniteSet(W)
  <2> DEFINE f == [c \in C |-> Task("resume", c)]
  <2>1. f \in Surjection(C, W)
    BY DEF Surjection
  <2> QED  BY <2>1, FS_Surjection
<1>3. \A x \in W : x \in Tasks /\ \E c \in C : x = Task("resume", c) /\ x.call = c
  BY TaskTypes
<1> HIDE DEF W
<1>4. PICK n \in Nat : n = Cardinality(W)
  BY <1>2, FS_CardinalityType
<1>5. I!Cardinality(W) = n
  BY <1>4 DEF I!Cardinality, Cardinality, I!IsFiniteSet, IsFiniteSet
<1>6. PICK f : f \in Bijection(1..n, W)
  BY <1>2, <1>4, FS_CardinalityType DEF ExistsBijection
<1>7. f \in [1..n -> W] /\ I!IsInjective(f)
  BY <1>6 DEF Bijection, Injection, I!IsInjective, IsInjective
<1>8. s \in [1..n -> W] /\ I!IsInjective(s)
  <2>1. s = CHOOSE g \in [1..n -> W] : I!IsInjective(g)
    BY <1>5 DEF I!SetToSeq
  <2> HIDE DEF s
  <2> QED  BY <1>7, <2>1
<1> HIDE DEF s
<1>9. s \in Seq(Tasks)
  <2>1. s \in [1..n -> Tasks]
    BY <1>3, <1>8
  <2> QED  BY <2>1
<1>10. OncePerCall(s, Turns)
  <2> SUFFICES ASSUME NEW i \in 1..n, NEW j \in 1..n, s[i].call = s[j].call PROVE i = j
    BY <1>8 DEF OncePerCall
  <2>1. s[i] \in W /\ s[j] \in W
    BY <1>8
  <2>2. s[i] = s[j]
    BY <1>3, <2>1
  <2> QED  BY <1>8, <2>2 DEF I!IsInjective
<1>11. \A x : Has(s, x) => \E c \in C : x = Task("resume", c)
  BY <1>3, <1>8 DEF Has
<1> QED  BY <1>1, <1>9, <1>10, <1>11 DEF s

LEMMA RunAbortIInv == InvocationIInv /\ I!RunAbort => InvocationIInv'
<1> SUFFICES ASSUME InvocationIInv, I!RunAbort PROVE InvocationIInv'
  OBVIOUS
<1>1. PICK C : C = {d \in inFlight : I!Wakes(d)}
  OBVIOUS
<1>2. /\ C \in SUBSET Calls /\ IsFiniteSet(C) /\ inFlight \in SUBSET Calls
  BY <1>1, FS_Subset DEF InvocationIInv, InvocationTyped
<1>3. PICK r : r = I!SetToSeq({I!Resumption(c) : c \in C})
  OBVIOUS
<1>4. /\ I!Take("abort") /\ I!Cancelled(inFlight, "tool_cancelled")
      /\ tasks' = Tail(tasks) \o r
      /\ UNCHANGED <<registered, askedOfApp, told, suspended, job, inFlight, pending, answers,
                     reply, events, alive, handler, controllers, signalled>>
  BY <1>1, <1>3 DEF I!RunAbort, I!Then, I!daemonVars, I!jsVars
<1>5. /\ r \in Seq(Tasks) /\ OncePerCall(r, Turns)
      /\ \A x : Has(r, x) => \E c \in C : x = Task("resume", c)
  BY <1>2, <1>3, ResumptionsListed
<1>6. /\ Tail(tasks) \in Seq(Tasks) /\ OncePerCall(Tail(tasks), Turns)
      /\ \A x : Has(Tail(tasks), x) => Has(tasks, x)
  BY <1>4, QueueTaken DEF I!Take, InvocationIInv, InvocationTyped, TurnsInOrder
<1>7. /\ cause' \in [Calls -> {"none", "tool_cancelled", "tool_timeout"}]
      /\ \A d \in Calls : cause[d] # "none" => cause'[d] # "none"
      /\ \A d \in C : I!Wakes(d) /\ cause'[d] # "none"
  BY <1>1, <1>2, <1>4, CausesSet DEF InvocationIInv
<1> QED  BY <1>2, <1>4, <1>5, <1>6, <1>7, ResumptionsPosted

LEMMA RunResumeIInv == InvocationIInv /\ I!RunResume => InvocationIInv'
<1> SUFFICES ASSUME InvocationIInv, I!RunResume PROVE InvocationIInv'
  OBVIOUS
<1>0. PICK c : c = Head(tasks).call
  OBVIOUS
<1>1. I!Take("resume")
  BY DEF I!RunResume
<1>2. /\ c \in Calls /\ Head(tasks) = Task("resume", c)
      /\ Tail(tasks) \in Seq(Tasks) /\ OncePerCall(Tail(tasks), Turns)
      /\ \A x : Has(Tail(tasks), x) => Has(tasks, x)
      /\ Has(tasks, Task("resume", c))
      /\ \A t \in {"call", "start", "resume"} : ~Has(Tail(tasks), Task(t, c))
  BY <1>0, <1>1, TaskTaken DEF InvocationIInv, TurnsInOrder, TurnOf
<1>3. /\ c \in askedOfApp /\ job[c] = "waiting" /\ answers[c] = <<>>
      /\ cause[c] # "none" \/ reply[c] # "none"
  BY <1>2 DEF InvocationIInv, TurnsInOrder, TurnOf
<1>4. /\ tasks' = Tail(tasks)
      /\ UNCHANGED <<registered, askedOfApp, told, suspended, cause, reply, alive, handler,
                     controllers, signalled>>
      /\ job' = [job EXCEPT ![c] = "over"]
      /\ pending' = pending \ {c} /\ inFlight' = inFlight \ {c}
  BY <1>0, <1>2, ConcatEmptySeq DEF I!RunResume, I!Then, I!daemonVars, I!jsVars
<1>5. job'[c] = "over" /\ \A d \in Calls \ {c} : job'[d] = job[d]
  BY <1>2, <1>4 DEF InvocationIInv, InvocationTyped
<1>6. PICK type \in Replies :
        /\ answers' = [answers EXCEPT ![c] = Append(@, type)]
        /\ IF cause[c] = "none" THEN type \notin {"tool_cancelled", "tool_timeout"} /\ events' = events
           ELSE events' = IF alive THEN Append(events, Heard("toolCancel", c)) ELSE events
  <2>1. CASE cause[c] = "none"
    <3>1. reply[c] \in Replies \ {"tool_cancelled", "tool_timeout"}
      BY <1>2, <1>3, <2>1 DEF InvocationIInv, InvocationTyped, Replies
    <3> QED  BY <1>0, <2>1, <3>1 DEF I!RunResume, I!Answer
  <2>2. CASE cause[c] # "none"
    <3>1. cause[c] \in Replies
      BY <1>2, <2>2 DEF InvocationIInv, InvocationTyped, Replies
    <3> QED  BY <1>0, <2>2, <3>1 DEF I!RunResume, I!Answer, I!Emit, Heard
  <2> QED  BY <2>1, <2>2
<1>7. /\ answers'[c] = Append(<<>>, type) /\ answers'[c] \in Seq(Replies)
      /\ Len(answers'[c]) = 1 /\ answers'[c][1] = type
      /\ \A d \in Calls \ {c} : answers'[d] = answers[d]
      /\ answers' \in [Calls -> Seq(Replies)]
  BY <1>2, <1>3, <1>6 DEF InvocationIInv, InvocationTyped
<1>8. /\ events' \in Seq(NativeEvents)
      /\ \A x : Has(events', x) => Has(events, x) \/ x = Heard("toolCancel", c)
      /\ \A x : Has(events, x) => Has(events', x)
      /\ \A d \in Calls : NeverAfter(events', Heard("toolCancel", d), Heard("toolCall", d))
      /\ alive /\ cause[c] # "none" => Has(events', Heard("toolCancel", c))
      /\ ~alive => events' = events
  <2>1. CASE alive /\ cause[c] # "none"
    <3>1. events \in Seq(NativeEvents) /\ Heard("toolCancel", c) \in NativeEvents
      BY <1>2, TaskTypes DEF InvocationIInv, InvocationTyped
    <3>3. \A d \in Calls : Heard("toolCancel", c) # Heard("toolCall", d)
      BY DEF Heard
    <3>4. events' = Append(events, Heard("toolCancel", c))
      BY <1>6, <2>1
    <3>5. /\ events' \in Seq(NativeEvents)
          /\ \A x : Has(events', x) <=> Has(events, x) \/ x = Heard("toolCancel", c)
          /\ \A x, y : NeverAfter(events, x, y) /\ (Heard("toolCancel", c) = y => ~Has(events, x))
                         => NeverAfter(events', x, y)
      BY <3>1, <3>4, QueueAppended
    <3> QED  BY <2>1, <3>3, <3>5 DEF InvocationIInv, CancelOnTheWay, CancelOf
  <2>2. CASE ~(alive /\ cause[c] # "none")
    BY <1>6, <2>2 DEF InvocationIInv, InvocationTyped, CancelOnTheWay, CancelOf
  <2> QED  BY <2>1, <2>2
<1>9. InvocationTyped'
  <2>1. pending' = {d \in Calls : job'[d] = "waiting"}
    BY <1>2, <1>3, <1>4, <1>5 DEF InvocationIInv, InvocationTyped
  <2> QED  BY <1>2, <1>4, <1>5, <1>7, <1>8, <2>1 DEF InvocationIInv, InvocationTyped
<1>10. TurnsInOrder'
  <2> SUFFICES ASSUME NEW d \in Calls PROVE TurnOf(d)'
    BY <1>2, <1>4 DEF TurnsInOrder
  <2>1. CASE d = c
    <3>1. /\ ~Has(tasks', Task("call", c)) /\ ~Has(tasks', Task("start", c))
          /\ ~Has(tasks', Task("resume", c))
      BY <1>2, <1>4
    <3>2. c \in askedOfApp' /\ job'[c] = "over" /\ Len(answers'[c]) <= 1
      BY <1>3, <1>4, <1>5, <1>7
    <3> QED  BY <2>1, <3>1, <3>2 DEF TurnOf
  <2>2. CASE d # c
    BY <1>2, <1>4, <1>5, <1>7, <2>2 DEF InvocationIInv, TurnsInOrder, TurnOf
  <2> QED  BY <2>1, <2>2
<1>11. CancelOnTheWay'
  <2>1. (~alive => events = <<>> /\ controllers = {})'
    BY <1>4, <1>8 DEF InvocationIInv, CancelOnTheWay
  <2> SUFFICES ASSUME NEW d \in Calls PROVE CancelOf(d)'
    BY <2>1 DEF CancelOnTheWay
  <2>2. /\ CancelOf(d)
        /\ Heard("toolCall", d) # Heard("toolCancel", c)
        /\ Heard("toolCancel", d) = Heard("toolCancel", c) => d = c
    BY DEF InvocationIInv, CancelOnTheWay, Heard
  <2>3. CASE d = c
    <3>1. /\ Has(events', Heard("toolCall", c)) => job'[c] = "over"
          /\ Has(events', Heard("toolCancel", c)) => job'[c] = "over"
          /\ NeverAfter(events', Heard("toolCancel", c), Heard("toolCall", c))
          /\ handler'[c] \in Active => c \in controllers' \/ (c \in signalled' /\ ~alive')
      BY <1>2, <1>4, <1>5, <1>8, <2>2, <2>3 DEF CancelOf
    <3>2. GivenUp(c)' => cause[c] # "none"
      <4>1. <<"tool_cancelled">>[1] = "tool_cancelled" /\ <<"tool_timeout">>[1] = "tool_timeout"
        OBVIOUS
      <4> QED  BY <1>6, <1>7, <4>1 DEF GivenUp
    <3>3. ~alive => ~Has(events', Heard("toolCall", c)) /\ (handler[c] \in Active => c \in signalled)
      <4>1. ~alive => events' = <<>> /\ controllers = {}
        BY <1>8 DEF InvocationIInv, CancelOnTheWay
      <4> QED  BY <2>2, <2>3, <4>1, QueueEmpty DEF CancelOf
    <3> QED  BY <1>4, <1>8, <2>3, <3>1, <3>2, <3>3 DEF CancelOf
  <2>4. CASE d # c
    BY <1>4, <1>5, <1>7, <1>8, <2>2, <2>4 DEF CancelOf, GivenUp
  <2> QED  BY <2>3, <2>4
<1> QED  BY <1>9, <1>10, <1>11 DEF InvocationIInv

\* What a reply of JavaScript does to the queue.
LEMMA RespondTurns ==
    ASSUME InvocationIInv, NEW c \in Calls, NEW type \in {"result", "error"},
           I!Respond(c, type) \/ I!Silent, UNCHANGED <<askedOfApp, job, cause, answers>>
    PROVE  /\ reply' \in [Calls -> {"none", "result", "error"}]
           /\ tasks' \in Seq(Tasks)
           /\ TurnsInOrder'
<1>1. CASE reply' = [reply EXCEPT ![c] = type] /\ I!Wakes(c) /\ tasks' = Append(tasks, Task("resume", c))
  <2>1. tasks \in Seq(Tasks) /\ OncePerCall(tasks, Turns)
    BY DEF InvocationIInv, InvocationTyped, TurnsInOrder
  <2>2. \A t \in {"call", "start", "resume"} : ~Has(tasks, Task(t, c))
    BY <1>1, WakesHasNoTurn
  <2>3. /\ tasks' \in Seq(Tasks) /\ OncePerCall(tasks', Turns)
        /\ \A x : Has(tasks', x) <=> Has(tasks, x) \/ x = Task("resume", c)
    <3>1. /\ Append(tasks, Task("resume", c)) \in Seq(Tasks)
          /\ OncePerCall(Append(tasks, Task("resume", c)), Turns)
          /\ \A x : Has(Append(tasks, Task("resume", c)), x)
                     <=> Has(tasks, x) \/ x = Task("resume", c)
          /\ tasks \o <<Task("resume", c)>> = Append(tasks, Task("resume", c))
      BY <2>1, <2>2, TurnPosted
    <3> QED  BY <1>1, <3>1
  <2>4. /\ reply' \in [Calls -> {"none", "result", "error"}]
        /\ reply'[c] = type /\ \A d \in Calls \ {c} : reply'[d] = reply[d]
    BY <1>1 DEF InvocationIInv, InvocationTyped
  <2>5. ASSUME NEW d \in Calls PROVE TurnOf(d)'
    <3>1. CASE d = c
      BY <1>1, <2>2, <2>3, <2>4, <3>1, TaskTypes DEF InvocationIInv, TurnsInOrder, TurnOf, I!Wakes
    <3>2. CASE d # c
      <4>1. \A t \in {"call", "start", "resume"} : Has(tasks', Task(t, d)) => Has(tasks, Task(t, d))
        BY <2>3, <3>2, TaskTypes
      <4> QED  BY <2>4, <3>2, <4>1 DEF InvocationIInv, TurnsInOrder, TurnOf
    <3> QED  BY <3>1, <3>2
  <2> QED  BY <2>3, <2>4, <2>5 DEF TurnsInOrder
<1>2. CASE UNCHANGED tasks /\ (UNCHANGED reply \/ reply' = [reply EXCEPT ![c] = type])
  <2>1. /\ reply' \in [Calls -> {"none", "result", "error"}]
        /\ \A d \in Calls : reply[d] # "none" => reply'[d] # "none"
    <3>1. reply \in [Calls -> {"none", "result", "error"}] /\ type # "none"
      BY DEF InvocationIInv, InvocationTyped
    <3>2. CASE UNCHANGED reply
      BY <3>1, <3>2
    <3>3. CASE reply' = [reply EXCEPT ![c] = type]
      <4>1. \A d \in Calls : reply'[d] = IF d = c THEN type ELSE reply[d]
        BY <3>1, <3>3
      <4> QED  BY <3>1, <3>3, <4>1
    <3> QED  BY <1>2, <3>2, <3>3
  <2> QED  BY <1>2, <2>1 DEF InvocationIInv, InvocationTyped, TurnsInOrder, TurnOf
<1> QED  BY <1>1, <1>2 DEF I!Respond, I!Silent, Task, I!Resumption

LEMMA HearToolCallIInv == InvocationIInv /\ I!HearToolCall => InvocationIInv'
<1> SUFFICES ASSUME InvocationIInv, I!HearToolCall PROVE InvocationIInv'
  OBVIOUS
<1>0. PICK c : c = Head(events).call
  OBVIOUS
<1>1. /\ alive /\ events # <<>> /\ events \in Seq(NativeEvents) /\ events' = Tail(events)
      /\ Head(events).event = "toolCall"
      /\ UNCHANGED <<registered, askedOfApp, told, suspended, job, cause, inFlight, pending,
                     answers, alive, signalled>>
  BY DEF I!HearToolCall, I!KeepDaemon, I!KeepNative, I!daemonVars, InvocationIInv, InvocationTyped
<1>2. /\ events' \in Seq(NativeEvents) /\ Head(events) \in NativeEvents
      /\ \A x : Has(events, x) <=> Has(events', x) \/ x = Head(events)
      /\ \A x, y : NeverAfter(events, x, y) => NeverAfter(events', x, y)
  BY <1>1, QueueTaken
<1>3. c \in Calls /\ Head(events) = Heard("toolCall", c)
  BY <1>0, <1>1, <1>2, TaskTypes
<1>4. \/ handler' = [handler EXCEPT ![c] = "validating"] /\ controllers' = controllers \union {c}
         /\ I!Silent
      \/ I!Respond(c, "error") /\ UNCHANGED <<handler, controllers>>
  BY <1>0 DEF I!HearToolCall
<1>5. reply' \in [Calls -> {"none", "result", "error"}] /\ tasks' \in Seq(Tasks) /\ TurnsInOrder'
  BY <1>1, <1>3, <1>4, RespondTurns
<1>6. job[c] \in {"waiting", "over"} /\ c \in askedOfApp
  BY <1>2, <1>3 DEF InvocationIInv, CancelOnTheWay, CancelOf, TurnsInOrder, TurnOf
<1>7. InvocationTyped'
  <2>1. /\ handler' \in [Calls -> {"none", "validating", "handling", "checking", "over"}]
        /\ controllers' \subseteq askedOfApp
    BY <1>3, <1>4, <1>6 DEF InvocationIInv, InvocationTyped
  <2> QED  BY <1>1, <1>2, <1>5, <2>1 DEF InvocationIInv, InvocationTyped
<1>8. CancelOnTheWay'
  <2> SUFFICES ASSUME NEW d \in Calls PROVE CancelOf(d)'
    BY <1>1 DEF CancelOnTheWay
  <2>1. /\ CancelOf(d) /\ Heard("toolCancel", d) # Heard("toolCall", c)
        /\ Heard("toolCall", d) = Heard("toolCall", c) => d = c
    BY DEF InvocationIInv, CancelOnTheWay, Heard
  <2>2. handler'[d] = handler[d] \/ (d = c /\ c \in controllers')
    BY <1>3, <1>4 DEF InvocationIInv, InvocationTyped
  <2>3. controllers \subseteq controllers'
    BY <1>4
  <2>4. GivenUp(d)' <=> GivenUp(d)
    BY <1>1 DEF GivenUp
  <2>5. CASE d = c
    BY <1>1, <1>2, <1>3, <2>1, <2>2, <2>3, <2>4, <2>5 DEF CancelOf
  <2>6. CASE d # c
    BY <1>1, <1>2, <1>3, <2>1, <2>2, <2>3, <2>4, <2>6 DEF CancelOf
  <2> QED  BY <2>5, <2>6
<1> QED  BY <1>5, <1>7, <1>8 DEF InvocationIInv

LEMMA HearToolCancelIInv == InvocationIInv /\ I!HearToolCancel => InvocationIInv'
<1> SUFFICES ASSUME InvocationIInv, I!HearToolCancel PROVE InvocationIInv'
  OBVIOUS
<1>0. PICK c : c = Head(events).call
  OBVIOUS
<1>1. /\ alive /\ events # <<>> /\ events \in Seq(NativeEvents) /\ events' = Tail(events)
      /\ Head(events).event = "toolCancel"
      /\ signalled' = signalled \union (controllers \intersect {c})
      /\ UNCHANGED <<registered, askedOfApp, told, suspended, job, cause, inFlight, pending,
                     answers, reply, tasks, alive, handler, controllers>>
  BY <1>0 DEF I!HearToolCancel, I!KeepDaemon, I!KeepNative, I!Silent, I!Signals, I!daemonVars,
              InvocationIInv, InvocationTyped
<1>2. /\ events' \in Seq(NativeEvents) /\ Head(events) \in NativeEvents
      /\ \A x : Has(events, x) <=> Has(events', x) \/ x = Head(events)
      /\ \A x, y : NeverAfter(events, x, y) =>
           NeverAfter(events', x, y) /\ (Head(events) = x => ~Has(events', y))
  BY <1>1, QueueTaken
<1>3. c \in Calls /\ Head(events) = Heard("toolCancel", c)
  BY <1>0, <1>1, <1>2, TaskTypes
<1>4. InvocationTyped'
  BY <1>1, <1>2 DEF InvocationIInv, InvocationTyped
<1>5. TurnsInOrder'
  BY <1>1 DEF InvocationIInv, TurnsInOrder, TurnOf
<1>6. CancelOnTheWay'
  <2> SUFFICES ASSUME NEW d \in Calls PROVE CancelOf(d)'
    BY <1>1 DEF CancelOnTheWay
  <2>1. /\ CancelOf(d) /\ Heard("toolCall", d) # Heard("toolCancel", c)
        /\ Heard("toolCancel", d) = Heard("toolCancel", c) => d = c
    BY DEF InvocationIInv, CancelOnTheWay, Heard
  <2>2. GivenUp(d)' <=> GivenUp(d)
    BY <1>1 DEF GivenUp
  <2>3. CASE d = c
    <3>1. ~Has(events', Heard("toolCall", c)) /\ (handler[c] \in Active => c \in signalled')
      BY <1>1, <1>2, <1>3, <2>1, <2>3 DEF CancelOf
    <3> QED  BY <1>1, <1>2, <1>3, <2>1, <2>2, <2>3, <3>1 DEF CancelOf
  <2>4. CASE d # c
    BY <1>1, <1>2, <1>3, <2>1, <2>2, <2>4 DEF CancelOf
  <2> QED  BY <2>3, <2>4
<1> QED  BY <1>4, <1>5, <1>6 DEF InvocationIInv

\* A step of a handler: on to a next stage, or over.
LEMMA HandlerIInv ==
    ASSUME InvocationIInv, NEW c \in Calls, I!Validated(c) \/ I!HandlerEnds(c) \/ I!Checked(c)
    PROVE  InvocationIInv'
<1>1. PICK to \in {"handling", "checking", "over"}, type \in {"result", "error"} :
        /\ handler[c] \in Active /\ handler' = [handler EXCEPT ![c] = to]
        /\ controllers' = IF to = "over" THEN controllers \ {c} ELSE controllers
        /\ I!Respond(c, type) \/ I!Silent
  BY DEF I!Validated, I!HandlerEnds, I!Checked, I!Proceed, I!Conclude, Active
<1>2. UNCHANGED <<registered, askedOfApp, told, suspended, job, cause, inFlight, pending,
                  answers, events, alive, signalled>>
  BY DEF I!Validated, I!HandlerEnds, I!Checked, I!Proceed, I!Conclude, I!KeepDaemon,
         I!KeepNative, I!daemonVars
<1>3. reply' \in [Calls -> {"none", "result", "error"}] /\ tasks' \in Seq(Tasks) /\ TurnsInOrder'
  BY <1>1, <1>2, RespondTurns
<1>4. /\ handler' \in [Calls -> {"none", "validating", "handling", "checking", "over"}]
      /\ handler'[c] = to /\ \A d \in Calls \ {c} : handler'[d] = handler[d]
  BY <1>1 DEF InvocationIInv, InvocationTyped
<1>5. InvocationTyped'
  BY <1>1, <1>2, <1>3, <1>4 DEF InvocationIInv, InvocationTyped
<1>6. CancelOnTheWay'
  <2> SUFFICES ASSUME NEW d \in Calls PROVE CancelOf(d)'
    BY <1>1, <1>2 DEF CancelOnTheWay, InvocationIInv
  <2>1. CancelOf(d)
    BY DEF InvocationIInv, CancelOnTheWay
  <2>2. handler'[d] \in Active =>
          handler[d] \in Active /\ (d \in controllers => d \in controllers')
    BY <1>1, <1>4 DEF Active
  <2> QED  BY <1>2, <2>1, <2>2 DEF CancelOf, GivenUp
<1> QED  BY <1>3, <1>5, <1>6 DEF InvocationIInv

LEMMA DestroyToggleIInv == InvocationIInv /\ (I!Destroy \/ I!Toggle) => InvocationIInv'
<1> SUFFICES ASSUME InvocationIInv, I!Destroy \/ I!Toggle PROVE InvocationIInv'
  OBVIOUS
<1>1. CASE I!Destroy
  <2>1. /\ alive' = FALSE /\ signalled' = signalled \union controllers /\ controllers' = {}
        /\ events' = <<>>
        /\ UNCHANGED <<registered, askedOfApp, told, suspended, job, cause, inFlight, pending,
                       answers, reply, tasks, handler>>
    BY <1>1 DEF I!Destroy, I!KeepDaemon, I!KeepNative, I!Silent, I!daemonVars
  <2>2. <<>> \in Seq(NativeEvents)
    OBVIOUS
  <2>3. InvocationTyped'
    BY <2>1, <2>2 DEF InvocationIInv, InvocationTyped
  <2>4. TurnsInOrder'
    BY <2>1 DEF InvocationIInv, TurnsInOrder, TurnOf
  <2>5. CancelOnTheWay'
    <3> SUFFICES ASSUME NEW d \in Calls PROVE CancelOf(d)'
      BY <2>1 DEF CancelOnTheWay
    <3>1. CancelOf(d)
      BY DEF InvocationIInv, CancelOnTheWay
    <3>2. \A x : ~Has(events', x)
      BY <2>1, QueueEmpty
    <3>3. NeverAfter(events', Heard("toolCancel", d), Heard("toolCall", d))
      BY <2>1, QueueEmpty
    <3> QED  BY <2>1, <3>1, <3>2, <3>3 DEF CancelOf
  <2> QED  BY <2>3, <2>4, <2>5 DEF InvocationIInv
<1>2. CASE I!Toggle
  <2>1. /\ registered' \in BOOLEAN
        /\ UNCHANGED <<askedOfApp, told, suspended, job, cause, inFlight, pending, answers, reply,
                       tasks, events, alive, handler, controllers, signalled>>
    BY <1>2 DEF I!Toggle, I!KeepNative, I!Silent, I!daemonVars, I!jsVars
  <2>2. InvocationTyped'
    BY <2>1 DEF InvocationIInv, InvocationTyped
  <2>3. TurnsInOrder'
    BY <2>1 DEF InvocationIInv, TurnsInOrder, TurnOf
  <2> QED  BY <2>1, <2>2, <2>3, EventsKept DEF InvocationIInv
<1> QED  BY <1>1, <1>2

LEMMA InvocationStep == InvocationIInv /\ [I!InvocationNext]_I!invocationVars => InvocationIInv'
<1> SUFFICES ASSUME InvocationIInv, [I!InvocationNext]_I!invocationVars PROVE InvocationIInv'
  OBVIOUS
<1>1. CASE UNCHANGED I!invocationVars
  <2>1. UNCHANGED <<registered, askedOfApp, told, suspended, job, cause, inFlight, pending,
                    answers, reply, tasks, events, alive, handler, controllers, signalled>>
    BY <1>1 DEF I!invocationVars, I!daemonVars, I!nativeVars, I!jsVars
  <2>2. InvocationTyped'
    BY <2>1 DEF InvocationIInv, InvocationTyped
  <2>3. TurnsInOrder'
    BY <2>1 DEF InvocationIInv, TurnsInOrder, TurnOf
  <2> QED  BY <2>1, <2>2, <2>3, EventsKept DEF InvocationIInv
<1>2. ASSUME NEW c \in Calls, I!DaemonCalls(c) \/ I!DaemonCancels(c) PROVE InvocationIInv'
  BY <1>2, DaemonIInv
<1>3. ASSUME NEW c \in Calls, I!TimesOut(c) PROVE InvocationIInv'
  BY <1>3, TimesOutIInv
<1>4. CASE I!SocketCloses
  <2>1. /\ tasks' = Append(tasks, [task |-> "abort"])
        /\ UNCHANGED <<job, cause, inFlight, pending, answers, registered, askedOfApp, told, reply,
                       events, alive, handler, controllers, signalled>>
        /\ suspended' \in BOOLEAN
    BY <1>4 DEF I!SocketCloses, I!KeepNative, I!jsVars
  <2>2. tasks \in Seq(Tasks) /\ [task |-> "abort"] \in Tasks /\ [task |-> "abort"] \notin Turns
    BY TaskTypes DEF InvocationIInv, InvocationTyped
  <2>3. /\ tasks' \in Seq(Tasks)
        /\ \A x : Has(tasks', x) <=> Has(tasks, x) \/ x = [task |-> "abort"]
        /\ OncePerCall(tasks', Turns)
    BY <2>1, <2>2, QueueAppended DEF InvocationIInv, TurnsInOrder
  <2>4. InvocationTyped'
    BY <2>1, <2>3 DEF InvocationIInv, InvocationTyped
  <2>5. TurnsInOrder'
    <3>1. ASSUME NEW d \in Calls, NEW todo \in {"call", "start", "resume"}
          PROVE  Has(tasks', Task(todo, d)) <=> Has(tasks, Task(todo, d))
      BY <2>2, <2>3, TaskTypes
    <3> QED  BY <2>1, <2>3, <3>1 DEF InvocationIInv, TurnsInOrder, TurnOf
  <2> QED  BY <2>1, <2>4, <2>5, EventsKept DEF InvocationIInv
<1>5. CASE I!Dispatch
  BY <1>5, RunCallIInv, RunStartIInv, RunCancelIInv, RunAbortIInv, RunResumeIInv DEF I!Dispatch
<1>6. CASE I!HearToolCall \/ I!HearToolCancel
  BY <1>6, HearToolCallIInv, HearToolCancelIInv
<1>7. ASSUME NEW c \in Calls, I!Validated(c) \/ I!HandlerEnds(c) \/ I!Checked(c) PROVE InvocationIInv'
  BY <1>7, HandlerIInv
<1>8. CASE I!Destroy \/ I!Toggle
  BY <1>8, DestroyToggleIInv
<1> QED  BY <1>1, <1>2, <1>3, <1>4, <1>5, <1>6, <1>7, <1>8 DEF I!InvocationNext

\* What InvocationSound says follows.
LEMMA InvocationIsSound == InvocationIInv => I!InvocationSound
<1> SUFFICES ASSUME InvocationIInv PROVE I!InvocationSound
  OBVIOUS
<1>1. I!InvocationTypeOK
  BY DEF InvocationIInv, InvocationTyped, I!InvocationTypeOK
<1>2. I!OneAnswer
  BY DEF InvocationIInv, TurnsInOrder, TurnOf, I!OneAnswer
<1>3. I!GivenUpIsAborted
  BY QueueEmpty DEF InvocationIInv, CancelOnTheWay, CancelOf, GivenUp, Active, I!GivenUpIsAborted
<1> QED  BY <1>1, <1>2, <1>3 DEF I!InvocationSound

\* Whatever races with it - a reply, the timeout, a cancel, the loss of the socket,
\* the destruction of the client - a call is answered once at most, and a handler
\* whose call native gave up is told to stop (AppductToolInvoker.kt, invoke).
THEOREM InvocationSpecSound == I!InvocationSpec => []I!InvocationSound
<1>1. I!InvocationSpec => []InvocationIInv
  BY InvocationInitIInv, InvocationStep, PTL DEF I!InvocationSpec
<1> QED  BY <1>1, InvocationIsSound, PTL

\* The same of the run's behaviours: InvocationSound.
THEOREM SpecInvocationSound == Spec => []InvocationSound
<1>1. Init => InvocationIInv
  BY InvocationInitIInv DEF Init
<1>2. InvocationIInv /\ [Next]_vars => InvocationIInv'
  <2> SUFFICES ASSUME InvocationIInv, [Next]_vars PROVE InvocationIInv'
    OBVIOUS
  <2>1. [I!InvocationNext]_I!invocationVars
    BY DEF Next, vars, InStreams, InProgress, InInvocation, OnConnection, invocationVars,
           I!invocationVars, I!daemonVars, I!nativeVars, I!jsVars
  <2> QED  BY <2>1, InvocationStep
<1>3. Spec => []InvocationIInv
  BY <1>1, <1>2, PTL DEF Spec
<1>4. InvocationIInv => InvocationSound
  BY InvocationIsSound DEF InvocationSound
<1> QED  BY <1>3, <1>4, PTL

-------------------------------------------------------------------------------
(***************************************************************************)
(* Calls with progress, whatever the callers and their tools.              *)
(***************************************************************************)
A(what, c) == [what |-> what, call |-> c]
Requests == {A("subscribe", NoCall), A("call", NoCall)} \union [what : {"cancel"}, call : Callers]
Reports == {A("subscribed", NoCall)} \union [what : {"result", "started", "progress"}, call : Callers]

CallerTyped(c) ==
    /\ phase[c] \in {"aside", "subscribing", "calling", "over"}
    /\ aborted[c] \in BOOLEAN
    /\ learned[c] \in Callers => ToolOf[learned[c]] = ToolOf[c]
    /\ forwarded[c] \subseteq {learned[c]}
    /\ toDaemon[c] \in Seq(Requests) /\ fromDaemon[c] \in Seq(Reports)

\* The one subscription and the one call of a caller, each once and in its phase.
OneAfterTheOther(c) ==
    /\ OncePerCall(toDaemon[c], {A("subscribe", NoCall)})
    /\ OncePerCall(toDaemon[c], {A("call", NoCall)})
    /\ OncePerCall(fromDaemon[c], {A("subscribed", NoCall)})
    /\ Has(toDaemon[c], A("subscribe", NoCall)) =>
         phase[c] = "subscribing" /\ c \notin resuming /\ ~Has(fromDaemon[c], A("subscribed", NoCall))
    /\ Has(fromDaemon[c], A("subscribed", NoCall)) =>
         phase[c] = "subscribing" /\ c \notin resuming /\ c \in listed
    /\ c \in resuming => phase[c] = "subscribing" /\ c \in listed
    /\ phase[c] = "calling" => c \in listed
    /\ learned[c] # NoCall => phase[c] \in {"calling", "over"}
    /\ Has(toDaemon[c], A("call", NoCall)) =>
         /\ phase[c] = "calling" /\ c \notin running
         /\ ~Has(fromDaemon[c], A("started", c)) /\ ~Has(fromDaemon[c], A("result", c))
    /\ Has(fromDaemon[c], A("result", c)) => phase[c] \in {"calling", "over"} /\ c \notin running
    /\ Has(fromDaemon[c], A("started", c)) => phase[c] \in {"calling", "over"}
    /\ \A d \in Callers : Has(fromDaemon[c], A("result", d)) => d = c

\* A call under way: its caller knows of a call or will, and cancels the one it knows.
KnownOrAnnounced(c) ==
    /\ c \in running => phase[c] = "calling"
                          /\ (learned[c] # NoCall \/ Has(fromDaemon[c], A("started", c)))
    /\ \A d \in Callers : Has(toDaemon[c], A("cancel", d)) => d = learned[c] /\ aborted[c]

\* Callers and the calls they take for theirs, which have begun when they are heard of;
\* that an abort is on its way is said of the call that was taken.
Started(d) == phase[d] \in {"calling", "over"} /\ ~Has(toDaemon[d], A("call", NoCall))
Hears(c, d) == learned[c] = d \/ Has(fromDaemon[c], A("started", d))
MustCancel(c) == phase[c] = "calling" /\ aborted[c] /\ learned[c] \in running
Sent(c) == learned[c] \in cancelled \/ Has(toDaemon[c], A("cancel", learned[c]))
AbortsAreSent ==
    /\ \A c, d \in Callers : Hears(c, d) => Started(d)
    /\ \A c \in Callers : MustCancel(c) => Sent(c)
    /\ \A c \in cancelled : \E d \in Callers : aborted[d] /\ learned[d] = c

CallerInv(c) == CallerTyped(c) /\ OneAfterTheOther(c) /\ KnownOrAnnounced(c)

ProgressIInv ==
    /\ phase \in [Callers -> {"aside", "subscribing", "calling", "over"}]
    /\ aborted \in [Callers -> BOOLEAN]
    /\ learned \in [Callers -> Callers \union {NoCall}]
    /\ forwarded \in [Callers -> SUBSET Callers]
    /\ toDaemon \in [Callers -> Seq(Requests)] /\ fromDaemon \in [Callers -> Seq(Reports)]
    /\ resuming \subseteq Callers /\ listed \subseteq Callers /\ running \subseteq Callers
    /\ progressed \subseteq Callers /\ cancelled \subseteq Callers
    /\ \A c \in Callers : CallerInv(c)
    /\ AbortsAreSent

LEMMA LineTypes ==
    ASSUME NEW c \in Callers
    PROVE  /\ A("subscribe", NoCall) \in Requests /\ A("call", NoCall) \in Requests
           /\ A("cancel", c) \in Requests
           /\ A("subscribed", NoCall) \in Reports /\ A("started", c) \in Reports
           /\ A("result", c) \in Reports /\ A("progress", c) \in Reports
           /\ \A w, v, d, e : A(w, d) = A(v, e) <=> w = v /\ d = e
           /\ \A x \in Requests : x = A(x.what, x.call)
                /\ (x.what = "cancel" => x.call \in Callers)
                /\ (x.what # "cancel" => x.call = NoCall /\ x.what \in {"subscribe", "call"})
           /\ \A x \in Reports : x = A(x.what, x.call)
                /\ (x.what = "subscribed" => x.call = NoCall)
                /\ (x.what # "subscribed" => x.call \in Callers)
<1>1. /\ A("subscribe", NoCall) \in Requests /\ A("call", NoCall) \in Requests
      /\ A("cancel", c) \in Requests
      /\ A("subscribed", NoCall) \in Reports /\ A("started", c) \in Reports
      /\ A("result", c) \in Reports /\ A("progress", c) \in Reports
  BY DEF A, Requests, Reports
<1>2. ASSUME NEW w, NEW v, NEW d, NEW e PROVE A(w, d) = A(v, e) <=> w = v /\ d = e
  <2>1. A(w, d).what = w /\ A(w, d).call = d /\ A(v, e).what = v /\ A(v, e).call = e
    BY DEF A
  <2> QED  BY <2>1
<1>3. ASSUME NEW x \in Requests
      PROVE  /\ x = A(x.what, x.call)
             /\ x.what = "cancel" => x.call \in Callers
             /\ x.what # "cancel" => x.call = NoCall /\ x.what \in {"subscribe", "call"}
  BY DEF A, Requests
<1>4. ASSUME NEW x \in Reports
      PROVE  /\ x = A(x.what, x.call)
             /\ x.what = "subscribed" => x.call = NoCall
             /\ x.what # "subscribed" => x.call \in Callers
  BY DEF A, Reports
<1> QED  BY <1>1, <1>2, <1>3, <1>4

LEMMA ProgressInitIInv == P!ProgressInit => ProgressIInv
<1> SUFFICES ASSUME P!ProgressInit PROVE ProgressIInv
  OBVIOUS
<1>1. <<>> \in Seq(Requests) /\ <<>> \in Seq(Reports)
  OBVIOUS
<1>2. /\ [c \in Callers |-> <<>>] \in [Callers -> Seq(Requests)]
      /\ [c \in Callers |-> <<>>] \in [Callers -> Seq(Reports)]
  BY <1>1
<1>3. ASSUME NEW c \in Callers PROVE CallerInv(c)
  <2>1. /\ phase[c] = "aside" /\ aborted[c] = FALSE /\ learned[c] = NoCall /\ forwarded[c] = {}
        /\ toDaemon[c] = <<>> /\ fromDaemon[c] = <<>> /\ resuming = {} /\ listed = {}
        /\ running = {} /\ cancelled = {} /\ NoCall # c /\ NoCall \notin Callers
    BY ClientsConstants DEF P!ProgressInit, P!ProgressAssumption
  <2>2. CallerTyped(c)
    BY <1>1, <2>1 DEF CallerTyped
  <2>3. OneAfterTheOther(c)
    BY <2>1, QueueEmpty DEF OneAfterTheOther
  <2>4. KnownOrAnnounced(c)
    BY <2>1, QueueEmpty DEF KnownOrAnnounced
  <2> QED  BY <2>2, <2>3, <2>4 DEF CallerInv
<1>4. AbortsAreSent
  <2>1. ASSUME NEW c \in Callers, NEW d \in Callers PROVE ~Hears(c, d) /\ ~MustCancel(c)
    BY ClientsConstants, QueueEmpty DEF P!ProgressInit, P!ProgressAssumption, Hears, MustCancel
  <2> QED  BY <2>1 DEF P!ProgressInit, AbortsAreSent
<1> QED  BY <1>1, <1>2, <1>3, <1>4 DEF P!ProgressInit, ProgressIInv

\* A caller that has no part in a step, but may be told of another's call.
LEMMA Bystander ==
    ASSUME ProgressIInv, NEW d \in Callers, NEW c \in Callers, c # d,
           NEW what \in {"started", "progress"},
           fromDaemon'[d] \in {fromDaemon[d], Append(fromDaemon[d], A(what, c))},
           UNCHANGED <<phase[d], aborted[d], learned[d], forwarded[d], toDaemon[d]>>,
           d \in resuming' <=> d \in resuming, d \in listed' <=> d \in listed,
           d \in running' <=> d \in running
    PROVE  CallerInv(d)'
<1>1. CallerInv(d) /\ fromDaemon[d] \in Seq(Reports)
  BY DEF ProgressIInv
<1>2. A(what, c) \in Reports
  BY LineTypes
<1>3. CASE fromDaemon'[d] = fromDaemon[d]
  BY <1>1, <1>3 DEF CallerInv, CallerTyped, OneAfterTheOther, KnownOrAnnounced
<1>4. CASE fromDaemon'[d] = Append(fromDaemon[d], A(what, c))
  <2>1. /\ Append(fromDaemon[d], A(what, c)) \in Seq(Reports)
        /\ \A x : Has(Append(fromDaemon[d], A(what, c)), x) <=> Has(fromDaemon[d], x) \/ x = A(what, c)
        /\ \A T : /\ OncePerCall(fromDaemon[d], T)
                  /\ \A x : Has(fromDaemon[d], x) /\ x \in T /\ A(what, c) \in T => x.call # A(what, c).call
                  => OncePerCall(Append(fromDaemon[d], A(what, c)), T)
    BY <1>1, <1>2, QueueAppended
  <2>2. /\ A(what, c) # A("subscribed", NoCall) /\ A(what, c) # A("started", d)
        /\ \A e \in Callers : A(what, c) # A("result", e)
    BY LineTypes
  <2>3. OncePerCall(fromDaemon[d], {A("subscribed", NoCall)})
    BY <1>1 DEF CallerInv, OneAfterTheOther
  <2>4. OncePerCall(fromDaemon'[d], {A("subscribed", NoCall)})
    BY <1>4, <2>1, <2>2, <2>3
  <2>5. CallerTyped(d)'
    BY <1>1, <1>4, <2>1 DEF CallerInv, CallerTyped
  <2>6. /\ Has(fromDaemon'[d], A("subscribed", NoCall)) <=> Has(fromDaemon[d], A("subscribed", NoCall))
        /\ Has(fromDaemon'[d], A("started", d)) <=> Has(fromDaemon[d], A("started", d))
        /\ \A e \in Callers : Has(fromDaemon'[d], A("result", e)) <=> Has(fromDaemon[d], A("result", e))
    BY <1>4, <2>1, <2>2
  <2>7. OneAfterTheOther(d)'
    BY <1>1, <2>4, <2>6 DEF CallerInv, OneAfterTheOther
  <2>8. KnownOrAnnounced(d)'
    BY <1>1, <2>6 DEF CallerInv, KnownOrAnnounced
  <2> QED  BY <2>5, <2>7, <2>8 DEF CallerInv
<1> QED  BY <1>3, <1>4

\* A line is put on a connection, or read from it.
LEMMA Asked ==
    ASSUME ProgressIInv, NEW c \in Callers, NEW what, NEW id, P!Ask(c, what, id), A(what, id) \in Requests
    PROVE  /\ toDaemon' \in [Callers -> Seq(Requests)]
           /\ \A d \in Callers \ {c} : toDaemon'[d] = toDaemon[d]
           /\ \A x : Has(toDaemon'[c], x) <=> Has(toDaemon[c], x) \/ x = A(what, id)
           /\ \A x : /\ OncePerCall(toDaemon[c], {x})
                     /\ A(what, id) = x => ~Has(toDaemon[c], x)
                     => OncePerCall(toDaemon'[c], {x})
<1>1. /\ toDaemon' = [toDaemon EXCEPT ![c] = Append(toDaemon[c], A(what, id))]
      /\ toDaemon \in [Callers -> Seq(Requests)] /\ toDaemon[c] \in Seq(Requests)
  BY DEF P!Ask, P!Line, A, ProgressIInv
<1>2. /\ Append(toDaemon[c], A(what, id)) \in Seq(Requests)
      /\ \A x : Has(Append(toDaemon[c], A(what, id)), x) <=> Has(toDaemon[c], x) \/ x = A(what, id)
      /\ \A T : /\ OncePerCall(toDaemon[c], T)
                /\ \A x : Has(toDaemon[c], x) /\ x \in T /\ A(what, id) \in T => x.call # A(what, id).call
                => OncePerCall(Append(toDaemon[c], A(what, id)), T)
  BY <1>1, QueueAppended
<1>3. toDaemon'[c] = Append(toDaemon[c], A(what, id))
  BY <1>1
<1>4. toDaemon' \in [Callers -> Seq(Requests)] /\ \A d \in Callers \ {c} : toDaemon'[d] = toDaemon[d]
  BY <1>1, <1>2
<1>5. ASSUME NEW x, OncePerCall(toDaemon[c], {x}), A(what, id) = x => ~Has(toDaemon[c], x)
      PROVE  OncePerCall(toDaemon'[c], {x})
  BY <1>2, <1>3, <1>5
<1> QED  BY <1>2, <1>3, <1>4, <1>5

LEMMA Answered ==
    ASSUME ProgressIInv, NEW c \in Callers, NEW what, NEW id, A(what, id) \in Reports,
           fromDaemon' = [fromDaemon EXCEPT ![c] = Append(@, A(what, id))]
    PROVE  /\ fromDaemon' \in [Callers -> Seq(Reports)]
           /\ \A d \in Callers \ {c} : fromDaemon'[d] = fromDaemon[d]
           /\ \A x : Has(fromDaemon'[c], x) <=> Has(fromDaemon[c], x) \/ x = A(what, id)
           /\ \A x : /\ OncePerCall(fromDaemon[c], {x})
                     /\ A(what, id) = x => ~Has(fromDaemon[c], x)
                     => OncePerCall(fromDaemon'[c], {x})
<1>1. fromDaemon \in [Callers -> Seq(Reports)] /\ fromDaemon[c] \in Seq(Reports)
  BY DEF ProgressIInv
<1>2. /\ Append(fromDaemon[c], A(what, id)) \in Seq(Reports)
      /\ \A x : Has(Append(fromDaemon[c], A(what, id)), x) <=> Has(fromDaemon[c], x) \/ x = A(what, id)
      /\ \A T : /\ OncePerCall(fromDaemon[c], T)
                /\ \A x : Has(fromDaemon[c], x) /\ x \in T /\ A(what, id) \in T => x.call # A(what, id).call
                => OncePerCall(Append(fromDaemon[c], A(what, id)), T)
  BY <1>1, QueueAppended
<1>3. fromDaemon'[c] = Append(fromDaemon[c], A(what, id))
  BY <1>1
<1>4. /\ fromDaemon' \in [Callers -> Seq(Reports)]
      /\ \A d \in Callers \ {c} : fromDaemon'[d] = fromDaemon[d]
  BY <1>1, <1>2
<1>5. ASSUME NEW x, OncePerCall(fromDaemon[c], {x}), A(what, id) = x => ~Has(fromDaemon[c], x)
      PROVE  OncePerCall(fromDaemon'[c], {x})
  BY <1>2, <1>3, <1>5
<1> QED  BY <1>2, <1>3, <1>4, <1>5

LEMMA ReadFromDaemon ==
    ASSUME ProgressIInv, NEW c \in Callers, NEW what, P!Reads(c, what)
    PROVE  /\ fromDaemon' \in [Callers -> Seq(Reports)]
           /\ \A d \in Callers \ {c} : fromDaemon'[d] = fromDaemon[d]
           /\ Head(fromDaemon[c]) = A(what, Head(fromDaemon[c]).call)
           /\ what = "subscribed" => Head(fromDaemon[c]) = A("subscribed", NoCall)
           /\ what # "subscribed" => Head(fromDaemon[c]).call \in Callers
           /\ \A x : Has(fromDaemon[c], x) <=> Has(fromDaemon'[c], x) \/ x = Head(fromDaemon[c])
           /\ \A x : OncePerCall(fromDaemon[c], {x}) =>
                OncePerCall(fromDaemon'[c], {x}) /\ (Head(fromDaemon[c]) = x => ~Has(fromDaemon'[c], x))
<1>1. /\ fromDaemon[c] \in Seq(Reports) /\ fromDaemon[c] # <<>> /\ Head(fromDaemon[c]).what = what
      /\ fromDaemon' = [fromDaemon EXCEPT ![c] = Tail(fromDaemon[c])]
      /\ fromDaemon \in [Callers -> Seq(Reports)]
  BY DEF P!Reads, ProgressIInv
<1>2. /\ Tail(fromDaemon[c]) \in Seq(Reports) /\ Head(fromDaemon[c]) \in Reports
      /\ \A x : Has(fromDaemon[c], x) <=> Has(Tail(fromDaemon[c]), x) \/ x = Head(fromDaemon[c])
      /\ \A T : OncePerCall(fromDaemon[c], T) =>
           /\ OncePerCall(Tail(fromDaemon[c]), T)
           /\ \A x : Head(fromDaemon[c]) \in T /\ Has(Tail(fromDaemon[c]), x) /\ x \in T
                       => x.call # Head(fromDaemon[c]).call
  BY <1>1, QueueTaken
<1>3. fromDaemon'[c] = Tail(fromDaemon[c]) /\ fromDaemon' \in [Callers -> Seq(Reports)]
  BY <1>1, <1>2
<1>4. /\ Head(fromDaemon[c]) = A(what, Head(fromDaemon[c]).call)
      /\ what = "subscribed" => Head(fromDaemon[c]) = A("subscribed", NoCall)
      /\ what # "subscribed" => Head(fromDaemon[c]).call \in Callers
  BY <1>1, <1>2, LineTypes
<1>5. ASSUME NEW x, OncePerCall(fromDaemon[c], {x})
      PROVE  OncePerCall(fromDaemon'[c], {x}) /\ (Head(fromDaemon[c]) = x => ~Has(fromDaemon'[c], x))
  BY <1>2, <1>3, <1>5
<1> QED  BY <1>1, <1>2, <1>3, <1>4, <1>5

LEMMA TakenFromCaller ==
    ASSUME ProgressIInv, NEW c \in Callers, NEW what, P!Take(c, what)
    PROVE  /\ toDaemon' \in [Callers -> Seq(Requests)]
           /\ \A d \in Callers \ {c} : toDaemon'[d] = toDaemon[d]
           /\ Head(toDaemon[c]) = A(what, Head(toDaemon[c]).call)
           /\ what # "cancel" => Head(toDaemon[c]) = A(what, NoCall)
           /\ what = "cancel" => Head(toDaemon[c]).call \in Callers
           /\ \A x : Has(toDaemon[c], x) <=> Has(toDaemon'[c], x) \/ x = Head(toDaemon[c])
           /\ \A x : OncePerCall(toDaemon[c], {x}) =>
                OncePerCall(toDaemon'[c], {x}) /\ (Head(toDaemon[c]) = x => ~Has(toDaemon'[c], x))
<1>1. /\ toDaemon[c] \in Seq(Requests) /\ toDaemon[c] # <<>> /\ Head(toDaemon[c]).what = what
      /\ toDaemon' = [toDaemon EXCEPT ![c] = Tail(toDaemon[c])]
      /\ toDaemon \in [Callers -> Seq(Requests)]
  BY DEF P!Take, ProgressIInv
<1>2. /\ Tail(toDaemon[c]) \in Seq(Requests) /\ Head(toDaemon[c]) \in Requests
      /\ \A x : Has(toDaemon[c], x) <=> Has(Tail(toDaemon[c]), x) \/ x = Head(toDaemon[c])
      /\ \A T : OncePerCall(toDaemon[c], T) =>
           /\ OncePerCall(Tail(toDaemon[c]), T)
           /\ \A x : Head(toDaemon[c]) \in T /\ Has(Tail(toDaemon[c]), x) /\ x \in T
                       => x.call # Head(toDaemon[c]).call
  BY <1>1, QueueTaken
<1>3. toDaemon'[c] = Tail(toDaemon[c]) /\ toDaemon' \in [Callers -> Seq(Requests)]
  BY <1>1, <1>2
<1>4. /\ Head(toDaemon[c]) = A(what, Head(toDaemon[c]).call)
      /\ what # "cancel" => Head(toDaemon[c]) = A(what, NoCall)
      /\ what = "cancel" => Head(toDaemon[c]).call \in Callers
  BY <1>1, <1>2, LineTypes
<1>5. ASSUME NEW x, OncePerCall(toDaemon[c], {x})
      PROVE  OncePerCall(toDaemon'[c], {x}) /\ (Head(toDaemon[c]) = x => ~Has(toDaemon'[c], x))
  BY <1>2, <1>3, <1>5
<1> QED  BY <1>1, <1>2, <1>3, <1>4, <1>5

ProgressTyped ==
    /\ phase \in [Callers -> {"aside", "subscribing", "calling", "over"}]
    /\ aborted \in [Callers -> BOOLEAN]
    /\ learned \in [Callers -> Callers \union {NoCall}]
    /\ forwarded \in [Callers -> SUBSET Callers]
    /\ toDaemon \in [Callers -> Seq(Requests)] /\ fromDaemon \in [Callers -> Seq(Reports)]
    /\ resuming \subseteq Callers /\ listed \subseteq Callers /\ running \subseteq Callers
    /\ progressed \subseteq Callers /\ cancelled \subseteq Callers

\* What a step of one caller may change of another.
OthersRest(c) ==
    \A d \in Callers \ {c} :
        /\ phase'[d] = phase[d] /\ aborted'[d] = aborted[d] /\ learned'[d] = learned[d]
        /\ forwarded'[d] = forwarded[d] /\ toDaemon'[d] = toDaemon[d]
        /\ d \in resuming' <=> d \in resuming
        /\ d \in listed' <=> d \in listed
        /\ d \in running' <=> d \in running
OthersHear(c, what) ==
    \A d \in Callers \ {c} :
        fromDaemon'[d] = fromDaemon[d] \/ fromDaemon'[d] = Append(fromDaemon[d], A(what, c))

\* What a step of a caller does to what is known of calls, and to aborts.
KnownStep(c) ==
    /\ phase[c] \in {"calling", "over"} => phase'[c] \in {"calling", "over"}
    /\ phase'[c] = "calling" /\ phase[c] # "calling" => learned'[c] = NoCall
    /\ Has(toDaemon'[c], A("call", NoCall)) => Has(toDaemon[c], A("call", NoCall)) \/ phase[c] = "subscribing"
    /\ \/ learned'[c] = learned[c]
       \/ learned[c] = NoCall /\ Has(fromDaemon[c], A("started", learned'[c]))
    /\ \A d \in Callers : Has(fromDaemon'[c], A("started", d)) =>
         Has(fromDaemon[c], A("started", d)) \/ (d = c /\ Started(c)')
    /\ \A d \in Callers \ {c} : fromDaemon'[d] = fromDaemon[d] \/ Started(c)'
    /\ c \in running' => c \in running \/ Has(toDaemon[c], A("call", NoCall))
AbortStep(c) ==
    /\ aborted[c] => aborted'[c]
    /\ aborted'[c] /\ learned'[c] # NoCall =>
         (aborted[c] /\ learned[c] # NoCall) \/ Has(toDaemon'[c], A("cancel", learned'[c]))
    /\ \A d \in Callers : Has(toDaemon[c], A("cancel", d)) =>
         Has(toDaemon'[c], A("cancel", d)) \/ phase'[c] = "over" \/ (d \in running => d \in cancelled')
    /\ cancelled \subseteq cancelled'
    /\ \A d \in cancelled' : d \in cancelled \/ Has(toDaemon[c], A("cancel", d))

LEMMA AbortsStaySent ==
    ASSUME ProgressIInv, NEW c \in Callers, NEW what \in {"started", "progress"},
           OthersRest(c), OthersHear(c, what), KnownStep(c), AbortStep(c), ProgressTyped'
    PROVE  AbortsAreSent'
<1>0. ProgressTyped /\ AbortsAreSent /\ CallerInv(c) /\ NoCall \notin Callers
  BY ClientsConstants DEF ProgressIInv, ProgressTyped, P!ProgressAssumption
<1>1. \A d \in Callers \ {c} :
        /\ phase'[d] = phase[d] /\ aborted'[d] = aborted[d] /\ learned'[d] = learned[d]
        /\ toDaemon'[d] = toDaemon[d] /\ (d \in running' <=> d \in running)
  BY DEF OthersRest
<1>2. ASSUME NEW e \in Callers, Started(e) PROVE Started(e)'
  BY <1>1, <1>2 DEF Started, KnownStep
<1>3. ASSUME NEW d \in Callers, NEW e \in Callers, Hears(d, e)' PROVE Started(e)'
  <2>1. Hears(d, e) => Started(e)'
    BY <1>0, <1>2 DEF AbortsAreSent
  <2>2. CASE d = c
    BY <1>3, <2>1, <2>2 DEF Hears, KnownStep
  <2>3. CASE d # c /\ fromDaemon'[d] = fromDaemon[d]
    BY <1>1, <1>3, <2>1, <2>3 DEF Hears
  <2>4. CASE d # c /\ fromDaemon'[d] = Append(fromDaemon[d], A(what, c)) /\ fromDaemon'[d] # fromDaemon[d]
    <3>1. fromDaemon[d] \in Seq(Reports) /\ A(what, c) \in Reports
      BY <1>0, LineTypes DEF ProgressTyped
    <3>2. \A x : Has(fromDaemon'[d], x) <=> Has(fromDaemon[d], x) \/ x = A(what, c)
      BY <2>4, <3>1, QueueAppended
    <3>3. A("started", e) = A(what, c) => e = c
      BY LineTypes
    <3>4. Started(c)'
      BY <2>4 DEF KnownStep
    <3> QED  BY <1>1, <1>3, <2>1, <2>4, <3>2, <3>3, <3>4 DEF Hears
  <2> QED  BY <2>2, <2>3, <2>4 DEF OthersHear
<1>4. ASSUME NEW d \in Callers, MustCancel(d)' PROVE Sent(d)'
  <2>1. phase'[d] = "calling" /\ aborted'[d] /\ learned'[d] \in Callers /\ learned'[d] \in running'
    BY <1>0, <1>4 DEF MustCancel, ProgressTyped
  <2>2. learned'[d] = learned[d] => learned[d] \in running
    <3>1. learned'[d] = learned[d] => Started(learned[d])
      BY <1>0, <2>1 DEF AbortsAreSent, Hears
    <3> QED  BY <1>1, <2>1, <3>1 DEF Started, KnownStep
  <2>3. CASE d = c
    <3>1. CASE Has(toDaemon'[c], A("cancel", learned'[c]))
      BY <2>3, <3>1 DEF Sent
    <3>2. CASE aborted[c] /\ learned[c] # NoCall
      <4>1. learned'[c] = learned[c] /\ phase[c] = "calling"
        BY <1>0, <2>1, <2>3, <3>2 DEF KnownStep
      <4>2. Sent(c)
        BY <1>0, <2>2, <2>3, <3>2, <4>1 DEF AbortsAreSent, MustCancel
      <4> QED  BY <2>1, <2>2, <2>3, <4>1, <4>2 DEF Sent, AbortStep
    <3> QED  BY <1>0, <2>1, <2>3, <3>1, <3>2 DEF AbortStep
  <2>4. CASE d # c
    <3>1. Sent(d)
      BY <1>0, <1>1, <2>1, <2>2, <2>4 DEF AbortsAreSent, MustCancel
    <3> QED  BY <1>1, <2>4, <3>1 DEF Sent, AbortStep
  <2> QED  BY <2>3, <2>4
<1>5. ASSUME NEW e \in cancelled' PROVE \E d \in Callers : aborted'[d] /\ learned'[d] = e
  <2>1. e \in Callers
    BY DEF ProgressTyped
  <2>2. PICK d \in Callers : aborted[d] /\ learned[d] = e
    BY <1>0, <2>1 DEF AbortStep, AbortsAreSent, CallerInv, KnownOrAnnounced
  <2>3. aborted'[d] /\ learned'[d] = e
    BY <1>0, <1>1, <2>1, <2>2 DEF AbortStep, KnownStep
  <2> QED  BY <2>3
<1> QED  BY <1>3, <1>4, <1>5 DEF AbortsAreSent

LEMMA Assembled ==
    ASSUME ProgressIInv, NEW c \in Callers, NEW what \in {"started", "progress"},
           OthersRest(c), OthersHear(c, what), ProgressTyped', CallerInv(c)', KnownStep(c), AbortStep(c)
    PROVE  ProgressIInv'
<1>1. ASSUME NEW d \in Callers, d # c PROVE CallerInv(d)'
  <2>1. /\ phase'[d] = phase[d] /\ aborted'[d] = aborted[d] /\ learned'[d] = learned[d]
        /\ forwarded'[d] = forwarded[d] /\ toDaemon'[d] = toDaemon[d]
        /\ (d \in resuming' <=> d \in resuming)
        /\ (d \in listed' <=> d \in listed)
        /\ (d \in running' <=> d \in running)
        /\ fromDaemon'[d] \in {fromDaemon[d], Append(fromDaemon[d], A(what, c))}
    BY <1>1 DEF OthersRest, OthersHear
  <2> QED  BY <1>1, <2>1, Bystander
<1>2. \A d \in Callers : CallerInv(d)'
  BY <1>1
<1>3. AbortsAreSent'
  BY AbortsStaySent
<1> QED  BY <1>2, <1>3 DEF ProgressIInv, ProgressTyped

LEMMA CallerStep ==
    ASSUME ProgressIInv, NEW c \in Callers, P!Proxy(c) \/ P!Abort(c)
    PROVE  ProgressIInv'
<1>0. ProgressTyped /\ CallerInv(c) /\ NoCall # c
  BY ClientsConstants DEF ProgressIInv, ProgressTyped, P!ProgressAssumption
<1>1. CASE P!Proxy(c)
  <2>1. /\ phase[c] = "aside" /\ phase' = [phase EXCEPT ![c] = "subscribing"]
        /\ P!Ask(c, "subscribe", NoCall)
        /\ UNCHANGED <<aborted, learned, forwarded, resuming, fromDaemon, listed, running,
                       progressed, cancelled>>
    BY <1>1 DEF P!Proxy, P!daemonSideVars
  <2>2. /\ toDaemon' \in [Callers -> Seq(Requests)]
        /\ \A d \in Callers \ {c} : toDaemon'[d] = toDaemon[d]
        /\ \A x : Has(toDaemon'[c], x) <=> Has(toDaemon[c], x) \/ x = A("subscribe", NoCall)
        /\ \A x : /\ OncePerCall(toDaemon[c], {x})
                  /\ A("subscribe", NoCall) = x => ~Has(toDaemon[c], x)
                  => OncePerCall(toDaemon'[c], {x})
    BY <2>1, Asked, LineTypes
  <2>3. phase'[c] = "subscribing" /\ \A d \in Callers \ {c} : phase'[d] = phase[d]
    BY <1>0, <2>1 DEF ProgressTyped
  <2>4. /\ Has(toDaemon'[c], A("call", NoCall)) <=> Has(toDaemon[c], A("call", NoCall))
        /\ \A d \in Callers : Has(toDaemon'[c], A("cancel", d)) <=> Has(toDaemon[c], A("cancel", d))
        /\ A("subscribe", NoCall) # A("call", NoCall)
    BY <2>2, LineTypes
  <2>5. CallerTyped(c)'
    BY <1>0, <2>1, <2>2, <2>3 DEF CallerInv, CallerTyped
  <2>6. OneAfterTheOther(c)'
    BY <1>0, <2>1, <2>2, <2>3, <2>4 DEF CallerInv, OneAfterTheOther
  <2>7. KnownOrAnnounced(c)'
    BY <1>0, <2>1, <2>3, <2>4 DEF CallerInv, KnownOrAnnounced
  <2>8. ProgressTyped' /\ OthersRest(c) /\ OthersHear(c, "started")
    BY <1>0, <2>1, <2>2, <2>3 DEF ProgressTyped, OthersRest, OthersHear
  <2>9. KnownStep(c) /\ AbortStep(c)
    BY <1>0, <2>1, <2>2, <2>3, <2>4 DEF KnownStep, AbortStep
  <2> QED  BY <2>5, <2>6, <2>7, <2>8, <2>9, Assembled DEF CallerInv
<1>2. CASE P!Abort(c)
  <2>1. /\ ~aborted[c] /\ aborted' = [aborted EXCEPT ![c] = TRUE]
        /\ IF learned[c] # NoCall THEN P!Ask(c, "cancel", learned[c]) ELSE UNCHANGED toDaemon
        /\ UNCHANGED <<phase, learned, forwarded, resuming, fromDaemon, listed, running,
                       progressed, cancelled>>
    BY <1>0, <1>2 DEF P!Abort, P!Cancels, P!daemonSideVars
  <2>2. aborted'[c] = TRUE /\ \A d \in Callers \ {c} : aborted'[d] = aborted[d]
    BY <1>0, <2>1 DEF ProgressTyped
  <2>3. /\ toDaemon' \in [Callers -> Seq(Requests)]
        /\ \A d \in Callers \ {c} : toDaemon'[d] = toDaemon[d]
        /\ \A x : Has(toDaemon'[c], x) <=> Has(toDaemon[c], x) \/ (learned[c] # NoCall /\ x = A("cancel", learned[c]))
        /\ \A x \in {A("subscribe", NoCall), A("call", NoCall)} :
             OncePerCall(toDaemon[c], {x}) => OncePerCall(toDaemon'[c], {x})
    <3>1. CASE learned[c] # NoCall
      <4>0. learned[c] \in Callers
        BY <1>0, <3>1 DEF ProgressTyped
      <4>1. /\ toDaemon' \in [Callers -> Seq(Requests)]
            /\ \A d \in Callers \ {c} : toDaemon'[d] = toDaemon[d]
            /\ \A x : Has(toDaemon'[c], x) <=> Has(toDaemon[c], x) \/ x = A("cancel", learned[c])
            /\ \A x : /\ OncePerCall(toDaemon[c], {x})
                      /\ A("cancel", learned[c]) = x => ~Has(toDaemon[c], x)
                      => OncePerCall(toDaemon'[c], {x})
        BY <2>1, <3>1, <4>0, Asked, LineTypes
      <4>2. A("cancel", learned[c]) # A("subscribe", NoCall) /\ A("cancel", learned[c]) # A("call", NoCall)
        BY <4>0, LineTypes
      <4> QED  BY <3>1, <4>1, <4>2
    <3>2. CASE learned[c] = NoCall
      BY <1>0, <2>1, <3>2 DEF ProgressTyped
    <3> QED  BY <3>1, <3>2
  <2>4. /\ Has(toDaemon'[c], A("call", NoCall)) <=> Has(toDaemon[c], A("call", NoCall))
        /\ Has(toDaemon'[c], A("subscribe", NoCall)) <=> Has(toDaemon[c], A("subscribe", NoCall))
        /\ \A d \in Callers : Has(toDaemon'[c], A("cancel", d)) => Has(toDaemon[c], A("cancel", d)) \/ d = learned[c]
        /\ \A d \in Callers : Has(toDaemon[c], A("cancel", d)) => Has(toDaemon'[c], A("cancel", d))
        /\ learned[c] # NoCall => Has(toDaemon'[c], A("cancel", learned[c]))
    BY <2>3, LineTypes
  <2>5. CallerTyped(c)'
    BY <1>0, <2>1, <2>2, <2>3 DEF CallerInv, CallerTyped
  <2>6. OneAfterTheOther(c)'
    BY <1>0, <2>1, <2>3, <2>4 DEF CallerInv, OneAfterTheOther
  <2>7. KnownOrAnnounced(c)'
    BY <1>0, <2>1, <2>2, <2>4 DEF CallerInv, KnownOrAnnounced
  <2>8. ProgressTyped' /\ OthersRest(c) /\ OthersHear(c, "started")
    BY <1>0, <2>1, <2>2, <2>3 DEF ProgressTyped, OthersRest, OthersHear
  <2>9. KnownStep(c) /\ AbortStep(c)
    BY <1>0, <2>1, <2>2, <2>4 DEF KnownStep, AbortStep
  <2> QED  BY <2>5, <2>6, <2>7, <2>8, <2>9, Assembled DEF CallerInv
<1> QED  BY <1>1, <1>2

LEMMA SubscribedStep ==
    ASSUME ProgressIInv, NEW c \in Callers, P!HearSubscribed(c) \/ P!Call(c)
    PROVE  ProgressIInv'
<1>0. ProgressTyped /\ CallerInv(c) /\ NoCall # c
  BY ClientsConstants DEF ProgressIInv, ProgressTyped, P!ProgressAssumption
<1>1. CASE P!HearSubscribed(c)
  <2>1. /\ P!Reads(c, "subscribed") /\ resuming' = resuming \union {c}
        /\ UNCHANGED <<phase, aborted, learned, forwarded, toDaemon, listed, running,
                       progressed, cancelled>>
    BY <1>1 DEF P!HearSubscribed, P!daemonSideVars
  <2>2. /\ fromDaemon' \in [Callers -> Seq(Reports)]
        /\ \A d \in Callers \ {c} : fromDaemon'[d] = fromDaemon[d]
        /\ Head(fromDaemon[c]) = A("subscribed", NoCall)
        /\ \A x : Has(fromDaemon[c], x) <=> Has(fromDaemon'[c], x) \/ x = A("subscribed", NoCall)
        /\ \A x : OncePerCall(fromDaemon[c], {x}) =>
             OncePerCall(fromDaemon'[c], {x}) /\ (Head(fromDaemon[c]) = x => ~Has(fromDaemon'[c], x))
    BY <2>1, ReadFromDaemon
  <2>3. /\ Has(fromDaemon'[c], A("started", c)) <=> Has(fromDaemon[c], A("started", c))
        /\ \A d \in Callers : Has(fromDaemon'[c], A("started", d)) => Has(fromDaemon[c], A("started", d))
        /\ \A d \in Callers : Has(fromDaemon'[c], A("result", d)) <=> Has(fromDaemon[c], A("result", d))
    BY <2>2, LineTypes
  <2>4. Has(fromDaemon[c], A("subscribed", NoCall)) /\ ~Has(fromDaemon'[c], A("subscribed", NoCall))
    BY <1>0, <2>2 DEF CallerInv, OneAfterTheOther
  <2>5. CallerTyped(c)'
    BY <1>0, <2>1, <2>2 DEF CallerInv, CallerTyped
  <2>6. OneAfterTheOther(c)'
    BY <1>0, <2>1, <2>2, <2>3, <2>4 DEF CallerInv, OneAfterTheOther
  <2>7. KnownOrAnnounced(c)'
    BY <1>0, <2>1, <2>3 DEF CallerInv, KnownOrAnnounced
  <2>8. ProgressTyped' /\ OthersRest(c) /\ OthersHear(c, "started")
    BY <1>0, <2>1, <2>2 DEF ProgressTyped, OthersRest, OthersHear
  <2>9. KnownStep(c) /\ AbortStep(c)
    BY <2>1, <2>2, <2>3 DEF KnownStep, AbortStep
  <2> QED  BY <2>5, <2>6, <2>7, <2>8, <2>9, Assembled DEF CallerInv
<1>2. CASE P!Call(c)
  <2>1. /\ c \in resuming /\ resuming' = resuming \ {c} /\ phase' = [phase EXCEPT ![c] = "calling"]
        /\ P!Ask(c, "call", NoCall)
        /\ UNCHANGED <<aborted, learned, forwarded, fromDaemon, listed, running, progressed, cancelled>>
    BY <1>2 DEF P!Call, P!daemonSideVars
  <2>2. phase[c] = "subscribing" /\ c \in listed /\ learned[c] = NoCall /\ c \notin running
        /\ ~Has(toDaemon[c], A("subscribe", NoCall)) /\ ~Has(toDaemon[c], A("call", NoCall))
        /\ ~Has(fromDaemon[c], A("subscribed", NoCall)) /\ ~Has(fromDaemon[c], A("started", c))
        /\ ~Has(fromDaemon[c], A("result", c))
    BY <1>0, <2>1 DEF CallerInv, CallerTyped, OneAfterTheOther, KnownOrAnnounced
  <2>3. /\ toDaemon' \in [Callers -> Seq(Requests)]
        /\ \A d \in Callers \ {c} : toDaemon'[d] = toDaemon[d]
        /\ \A x : Has(toDaemon'[c], x) <=> Has(toDaemon[c], x) \/ x = A("call", NoCall)
        /\ \A x : /\ OncePerCall(toDaemon[c], {x})
                  /\ A("call", NoCall) = x => ~Has(toDaemon[c], x)
                  => OncePerCall(toDaemon'[c], {x})
    BY <2>1, Asked, LineTypes
  <2>4. phase'[c] = "calling" /\ \A d \in Callers \ {c} : phase'[d] = phase[d]
    BY <1>0, <2>1 DEF ProgressTyped
  <2>5. /\ Has(toDaemon'[c], A("subscribe", NoCall)) <=> Has(toDaemon[c], A("subscribe", NoCall))
        /\ \A d \in Callers : Has(toDaemon'[c], A("cancel", d)) <=> Has(toDaemon[c], A("cancel", d))
        /\ A("call", NoCall) # A("subscribe", NoCall)
    BY <2>3, LineTypes
  <2>6. CallerTyped(c)'
    BY <1>0, <2>1, <2>3, <2>4 DEF CallerInv, CallerTyped
  <2>7. OneAfterTheOther(c)'
    BY <1>0, <2>1, <2>2, <2>3, <2>4, <2>5 DEF CallerInv, OneAfterTheOther
  <2>8. KnownOrAnnounced(c)'
    BY <1>0, <2>1, <2>2, <2>5 DEF CallerInv, KnownOrAnnounced
  <2>9. ProgressTyped' /\ OthersRest(c) /\ OthersHear(c, "started")
    BY <1>0, <2>1, <2>3, <2>4 DEF ProgressTyped, OthersRest, OthersHear
  <2>10. KnownStep(c) /\ AbortStep(c)
    BY <2>1, <2>2, <2>4, <2>5 DEF KnownStep, AbortStep
  <2> QED  BY <2>6, <2>7, <2>8, <2>9, <2>10, Assembled DEF CallerInv
<1> QED  BY <1>1, <1>2

LEMMA HearStep ==
    ASSUME ProgressIInv, NEW c \in Callers, P!HearTooEarly(c) \/ P!HearStarted(c) \/ P!HearProgress(c)
    PROVE  ProgressIInv'
<1>0. ProgressTyped /\ CallerInv(c) /\ NoCall # c
  BY ClientsConstants DEF ProgressIInv, ProgressTyped, P!ProgressAssumption
<1>1. PICK what \in {"started", "progress"} : P!Reads(c, what) /\ (P!HearStarted(c) => what = "started")
  BY DEF P!HearTooEarly, P!HearStarted, P!HearProgress
<1>2. PICK d : d = Head(fromDaemon[c]).call
  OBVIOUS
<1>3. /\ fromDaemon' \in [Callers -> Seq(Reports)]
      /\ \A e \in Callers \ {c} : fromDaemon'[e] = fromDaemon[e]
      /\ Head(fromDaemon[c]) = A(what, d) /\ d \in Callers
      /\ \A x : Has(fromDaemon[c], x) <=> Has(fromDaemon'[c], x) \/ x = A(what, d)
      /\ \A x : OncePerCall(fromDaemon[c], {x}) => OncePerCall(fromDaemon'[c], {x})
  BY <1>1, <1>2, ReadFromDaemon
<1>4. /\ Has(fromDaemon'[c], A("subscribed", NoCall)) <=> Has(fromDaemon[c], A("subscribed", NoCall))
      /\ \A e \in Callers : Has(fromDaemon'[c], A("result", e)) <=> Has(fromDaemon[c], A("result", e))
      /\ \A e \in Callers : Has(fromDaemon'[c], A("started", e)) => Has(fromDaemon[c], A("started", e))
      /\ what # "started" \/ d # c => (Has(fromDaemon'[c], A("started", c)) <=> Has(fromDaemon[c], A("started", c)))
      /\ what = "started" => Has(fromDaemon[c], A("started", d))
  BY <1>3, LineTypes
<1>5. CASE P!HearTooEarly(c) \/ P!HearProgress(c)
  <2>1. /\ UNCHANGED <<phase, aborted, learned, resuming, toDaemon, listed, running, progressed, cancelled>>
        /\ what = "started" => ~P!HearProgress(c)
        /\ \/ UNCHANGED forwarded
           \/ learned[c] = d /\ forwarded' = [forwarded EXCEPT ![c] = @ \union {d}]
        /\ c \in resuming \/ what = "progress"
    BY <1>1, <1>2, <1>5 DEF P!HearTooEarly, P!HearProgress, P!Reads, P!MyProgress, P!callerVars,
                            P!daemonSideVars
  <2>2. forwarded[c] \subseteq {learned[c]}
    BY <1>0 DEF CallerInv, CallerTyped
  <2>3. /\ forwarded'[c] \subseteq {learned[c]} /\ forwarded' \in [Callers -> SUBSET Callers]
        /\ \A e \in Callers \ {c} : forwarded'[e] = forwarded[e]
    <3>1. CASE UNCHANGED forwarded
      BY <1>0, <2>2, <3>1 DEF ProgressTyped
    <3>2. CASE learned[c] = d /\ forwarded' = [forwarded EXCEPT ![c] = @ \union {d}]
      BY <1>0, <1>3, <2>2, <3>2 DEF ProgressTyped
    <3> QED  BY <2>1, <3>1, <3>2
  <2>4. Has(fromDaemon'[c], A("started", c)) <=> Has(fromDaemon[c], A("started", c))
    <3>1. CASE c \in resuming
      BY <1>0, <1>4, <3>1 DEF CallerInv, OneAfterTheOther
    <3> QED  BY <1>4, <2>1, <3>1
  <2>5. CallerTyped(c)'
    BY <1>0, <1>3, <2>1, <2>3 DEF CallerInv, CallerTyped
  <2>6. OneAfterTheOther(c)'
    BY <1>0, <1>3, <1>4, <2>1, <2>4 DEF CallerInv, OneAfterTheOther
  <2>7. KnownOrAnnounced(c)'
    BY <1>0, <2>1, <2>4 DEF CallerInv, KnownOrAnnounced
  <2>8. ProgressTyped' /\ OthersRest(c) /\ OthersHear(c, "started")
    BY <1>0, <1>3, <2>1, <2>3 DEF ProgressTyped, OthersRest, OthersHear
  <2>9. KnownStep(c) /\ AbortStep(c)
    BY <1>3, <1>4, <2>1 DEF KnownStep, AbortStep
  <2> QED  BY <2>5, <2>6, <2>7, <2>8, <2>9, Assembled DEF CallerInv
<1>6. CASE P!HearStarted(c)
  <2>1. /\ phase[c] = "calling" /\ what = "started"
        /\ UNCHANGED <<phase, aborted, forwarded, resuming, listed, running, progressed, cancelled>>
        /\ IF learned[c] = NoCall /\ ToolOf[d] = ToolOf[c]
           THEN /\ learned' = [learned EXCEPT ![c] = d]
                /\ IF aborted[c] THEN P!Ask(c, "cancel", d) ELSE UNCHANGED toDaemon
           ELSE UNCHANGED <<learned, toDaemon>>
    BY <1>1, <1>2, <1>6 DEF P!HearStarted, P!TakenFor, P!Learn, P!Cancels, P!daemonSideVars
  <2>2. CASE learned[c] = NoCall /\ ToolOf[d] = ToolOf[c]
    <3>1. /\ learned[c] = NoCall /\ learned' = [learned EXCEPT ![c] = d] /\ ToolOf[d] = ToolOf[c]
          /\ IF aborted[c] THEN P!Ask(c, "cancel", d) ELSE UNCHANGED toDaemon
      BY <2>1, <2>2
    <3>2. learned'[c] = d /\ \A e \in Callers \ {c} : learned'[e] = learned[e]
      BY <1>0, <3>1 DEF ProgressTyped
    <3>3. /\ toDaemon' \in [Callers -> Seq(Requests)]
          /\ \A e \in Callers \ {c} : toDaemon'[e] = toDaemon[e]
          /\ \A x : Has(toDaemon'[c], x) <=> Has(toDaemon[c], x) \/ (aborted[c] /\ x = A("cancel", d))
          /\ \A x \in {A("subscribe", NoCall), A("call", NoCall)} :
               OncePerCall(toDaemon[c], {x}) => OncePerCall(toDaemon'[c], {x})
      <4>1. CASE aborted[c]
        <5>1. /\ toDaemon' \in [Callers -> Seq(Requests)]
              /\ \A e \in Callers \ {c} : toDaemon'[e] = toDaemon[e]
              /\ \A x : Has(toDaemon'[c], x) <=> Has(toDaemon[c], x) \/ x = A("cancel", d)
              /\ \A x : /\ OncePerCall(toDaemon[c], {x})
                        /\ A("cancel", d) = x => ~Has(toDaemon[c], x)
                        => OncePerCall(toDaemon'[c], {x})
          BY <1>3, <3>1, <4>1, Asked, LineTypes
        <5>2. A("cancel", d) # A("subscribe", NoCall) /\ A("cancel", d) # A("call", NoCall)
          BY <1>3, LineTypes
        <5> QED  BY <4>1, <5>1, <5>2
      <4>2. CASE ~aborted[c]
        BY <1>0, <3>1, <4>2 DEF ProgressTyped
      <4> QED  BY <4>1, <4>2
    <3>4. /\ Has(toDaemon'[c], A("call", NoCall)) <=> Has(toDaemon[c], A("call", NoCall))
          /\ Has(toDaemon'[c], A("subscribe", NoCall)) <=> Has(toDaemon[c], A("subscribe", NoCall))
          /\ \A e \in Callers : Has(toDaemon'[c], A("cancel", e)) =>
               Has(toDaemon[c], A("cancel", e)) \/ (e = d /\ aborted[c])
          /\ \A e \in Callers : Has(toDaemon[c], A("cancel", e)) => Has(toDaemon'[c], A("cancel", e))
          /\ aborted[c] => Has(toDaemon'[c], A("cancel", d))
      BY <1>3, <3>3, LineTypes
    <3>5. NoCall \notin Callers /\ ~(\E e \in Callers : Has(toDaemon[c], A("cancel", e)))
      BY <1>0, <3>1, ClientsConstants DEF CallerInv, KnownOrAnnounced, P!ProgressAssumption
    <3>6. CallerTyped(c)'
      <4>1. forwarded[c] \subseteq Callers /\ forwarded[c] \subseteq {NoCall}
        BY <1>0, <3>1 DEF ProgressTyped, CallerInv, CallerTyped
      <4>2. forwarded'[c] = {}
        BY <2>1, <3>5, <4>1
      <4> QED  BY <1>0, <1>3, <2>1, <3>1, <3>2, <3>3, <4>2 DEF CallerInv, CallerTyped
    <3>7. OneAfterTheOther(c)'
      BY <1>0, <1>3, <1>4, <2>1, <3>2, <3>3, <3>4 DEF CallerInv, OneAfterTheOther
    <3>8. KnownOrAnnounced(c)'
      BY <1>0, <1>3, <2>1, <3>2, <3>4, <3>5 DEF CallerInv, KnownOrAnnounced
    <3>9. ProgressTyped' /\ OthersRest(c) /\ OthersHear(c, "started")
      BY <1>0, <1>3, <2>1, <3>1, <3>2, <3>3 DEF ProgressTyped, OthersRest, OthersHear
    <3>10. KnownStep(c) /\ AbortStep(c)
      BY <1>3, <1>4, <2>1, <3>1, <3>2, <3>4 DEF KnownStep, AbortStep
    <3> QED  BY <3>6, <3>7, <3>8, <3>9, <3>10, Assembled DEF CallerInv
  <2>3. CASE ~(learned[c] = NoCall /\ ToolOf[d] = ToolOf[c])
    <3>1. UNCHANGED <<learned, toDaemon>> /\ (learned[c] = NoCall => d # c)
      BY <2>1, <2>3
    <3>2. CallerTyped(c)'
      BY <1>0, <1>3, <2>1, <3>1 DEF CallerInv, CallerTyped
    <3>3. OneAfterTheOther(c)'
      BY <1>0, <1>3, <1>4, <2>1, <3>1 DEF CallerInv, OneAfterTheOther
    <3>4. KnownOrAnnounced(c)'
      BY <1>0, <1>4, <2>1, <3>1 DEF CallerInv, CallerTyped, KnownOrAnnounced
    <3>5. ProgressTyped' /\ OthersRest(c) /\ OthersHear(c, "started")
      BY <1>0, <1>3, <2>1, <3>1 DEF ProgressTyped, OthersRest, OthersHear
    <3>6. KnownStep(c) /\ AbortStep(c)
      BY <1>3, <1>4, <2>1, <3>1 DEF KnownStep, AbortStep
    <3> QED  BY <3>2, <3>3, <3>4, <3>5, <3>6, Assembled DEF CallerInv
  <2> QED  BY <2>2, <2>3
<1> QED  BY <1>5, <1>6

LEMMA ResultStep ==
    ASSUME ProgressIInv, NEW c \in Callers, P!HearResult(c)
    PROVE  ProgressIInv'
<1>0. ProgressTyped /\ CallerInv(c) /\ NoCall # c
  BY ClientsConstants DEF ProgressIInv, ProgressTyped, P!ProgressAssumption
<1>1. /\ P!Reads(c, "result") /\ phase' = [phase EXCEPT ![c] = "over"]
      /\ toDaemon' = [toDaemon EXCEPT ![c] = <<>>] \/ UNCHANGED toDaemon
      /\ listed' = listed \ {c}
      /\ UNCHANGED <<aborted, learned, forwarded, resuming, running, progressed, cancelled>>
  BY DEF P!HearResult
<1>2. PICK d : d = Head(fromDaemon[c]).call
  OBVIOUS
<1>3. /\ fromDaemon' \in [Callers -> Seq(Reports)]
      /\ \A e \in Callers \ {c} : fromDaemon'[e] = fromDaemon[e]
      /\ Head(fromDaemon[c]) = A("result", d) /\ d \in Callers
      /\ \A x : Has(fromDaemon[c], x) <=> Has(fromDaemon'[c], x) \/ x = A("result", d)
      /\ \A x : OncePerCall(fromDaemon[c], {x}) => OncePerCall(fromDaemon'[c], {x})
  <2>1. /\ fromDaemon' \in [Callers -> Seq(Reports)]
        /\ \A e \in Callers \ {c} : fromDaemon'[e] = fromDaemon[e]
        /\ Head(fromDaemon[c]) = A("result", Head(fromDaemon[c]).call)
        /\ "result" # "subscribed" => Head(fromDaemon[c]).call \in Callers
        /\ \A x : Has(fromDaemon[c], x) <=> Has(fromDaemon'[c], x) \/ x = Head(fromDaemon[c])
        /\ \A x : OncePerCall(fromDaemon[c], {x}) =>
             OncePerCall(fromDaemon'[c], {x}) /\ (Head(fromDaemon[c]) = x => ~Has(fromDaemon'[c], x))
    BY <1>1, ReadFromDaemon
  <2>2. Head(fromDaemon[c]) = A("result", d) /\ d \in Callers
    BY <1>2, <2>1
  <2> QED  BY <2>1, <2>2
<1>4. d = c
  BY <1>0, <1>3 DEF CallerInv, OneAfterTheOther
<1>5. /\ phase[c] \in {"calling", "over"} /\ c \notin running
      /\ ~Has(toDaemon[c], A("call", NoCall)) /\ ~Has(toDaemon[c], A("subscribe", NoCall))
      /\ ~Has(fromDaemon[c], A("subscribed", NoCall)) /\ c \notin resuming
  BY <1>0, <1>3, <1>4 DEF CallerInv, OneAfterTheOther
<1>6. /\ toDaemon' \in [Callers -> Seq(Requests)]
      /\ \A e \in Callers \ {c} : toDaemon'[e] = toDaemon[e]
      /\ \A x : Has(toDaemon'[c], x) => Has(toDaemon[c], x)
      /\ \A x : OncePerCall(toDaemon[c], {x}) => OncePerCall(toDaemon'[c], {x})
  <2>1. CASE toDaemon' = [toDaemon EXCEPT ![c] = <<>>]
    <3>1. <<>> \in Seq(Requests)
      OBVIOUS
    <3>2. toDaemon'[c] = <<>>
      BY <1>0, <2>1 DEF ProgressTyped
    <3> QED  BY <1>0, <2>1, <3>1, <3>2, QueueEmpty DEF ProgressTyped
  <2>2. CASE UNCHANGED toDaemon
    BY <1>0, <2>2 DEF ProgressTyped
  <2> QED  BY <1>1, <2>1, <2>2
<1>7. phase'[c] = "over" /\ \A e \in Callers \ {c} : phase'[e] = phase[e]
  BY <1>0, <1>1 DEF ProgressTyped
<1>8. CallerTyped(c)'
  BY <1>0, <1>1, <1>3, <1>6, <1>7 DEF CallerInv, CallerTyped
<1>9. OneAfterTheOther(c)'
  BY <1>0, <1>1, <1>3, <1>5, <1>6, <1>7 DEF CallerInv, OneAfterTheOther
<1>10. KnownOrAnnounced(c)'
  BY <1>0, <1>1, <1>5, <1>6 DEF CallerInv, KnownOrAnnounced
<1>11. ProgressTyped' /\ OthersRest(c) /\ OthersHear(c, "started")
  BY <1>0, <1>1, <1>3, <1>6, <1>7 DEF ProgressTyped, OthersRest, OthersHear
<1>12. KnownStep(c) /\ AbortStep(c)
  <2>1. \A e \in Callers : Has(fromDaemon'[c], A("started", e)) => Has(fromDaemon[c], A("started", e))
    BY <1>3
  <2> QED  BY <1>0, <1>1, <1>3, <1>5, <1>6, <1>7, <2>1 DEF CallerInv, KnownOrAnnounced, KnownStep, AbortStep
<1> QED  BY <1>8, <1>9, <1>10, <1>11, <1>12, Assembled DEF CallerInv

\* The daemon takes a request: a subscription, a call or a cancel.
LEMMA SubscribeStep ==
    ASSUME ProgressIInv, NEW c \in Callers, P!Subscribe(c)
    PROVE  ProgressIInv'
<1>0. ProgressTyped /\ CallerInv(c)
  BY DEF ProgressIInv, ProgressTyped
<1>1. /\ P!Take(c, "subscribe") /\ listed' = listed \union {c}
      /\ fromDaemon' = [fromDaemon EXCEPT ![c] = Append(@, A("subscribed", NoCall))]
      /\ UNCHANGED <<phase, aborted, learned, forwarded, resuming, running, progressed, cancelled>>
  BY DEF P!Subscribe, P!Line, A, P!callerVars
<1>2. /\ toDaemon' \in [Callers -> Seq(Requests)]
      /\ \A d \in Callers \ {c} : toDaemon'[d] = toDaemon[d]
      /\ Head(toDaemon[c]) = A("subscribe", NoCall)
      /\ \A x : Has(toDaemon[c], x) <=> Has(toDaemon'[c], x) \/ x = A("subscribe", NoCall)
      /\ \A x : OncePerCall(toDaemon[c], {x}) =>
           OncePerCall(toDaemon'[c], {x}) /\ (Head(toDaemon[c]) = x => ~Has(toDaemon'[c], x))
  <2>1. "subscribe" # "cancel"
    OBVIOUS
  <2>2. /\ toDaemon' \in [Callers -> Seq(Requests)]
        /\ \A d \in Callers \ {c} : toDaemon'[d] = toDaemon[d]
        /\ Head(toDaemon[c]) = A("subscribe", Head(toDaemon[c]).call)
        /\ "subscribe" # "cancel" => Head(toDaemon[c]) = A("subscribe", NoCall)
        /\ \A x : Has(toDaemon[c], x) <=> Has(toDaemon'[c], x) \/ x = Head(toDaemon[c])
        /\ \A x : OncePerCall(toDaemon[c], {x}) =>
             OncePerCall(toDaemon'[c], {x}) /\ (Head(toDaemon[c]) = x => ~Has(toDaemon'[c], x))
    BY <1>1, TakenFromCaller
  <2> QED  BY <2>1, <2>2
<1>3. /\ phase[c] = "subscribing" /\ c \notin resuming /\ ~Has(toDaemon'[c], A("subscribe", NoCall))
      /\ ~Has(fromDaemon[c], A("subscribed", NoCall))
  BY <1>0, <1>2 DEF CallerInv, OneAfterTheOther
<1>4. /\ fromDaemon' \in [Callers -> Seq(Reports)]
      /\ \A d \in Callers \ {c} : fromDaemon'[d] = fromDaemon[d]
      /\ \A x : Has(fromDaemon'[c], x) <=> Has(fromDaemon[c], x) \/ x = A("subscribed", NoCall)
      /\ \A x : /\ OncePerCall(fromDaemon[c], {x})
                /\ A("subscribed", NoCall) = x => ~Has(fromDaemon[c], x)
                => OncePerCall(fromDaemon'[c], {x})
  BY <1>1, Answered, LineTypes
<1>5. /\ \A e \in Callers : Has(fromDaemon'[c], A("started", e)) <=> Has(fromDaemon[c], A("started", e))
      /\ \A e \in Callers : Has(fromDaemon'[c], A("result", e)) <=> Has(fromDaemon[c], A("result", e))
      /\ Has(toDaemon'[c], A("call", NoCall)) <=> Has(toDaemon[c], A("call", NoCall))
      /\ \A d \in Callers : Has(toDaemon'[c], A("cancel", d)) <=> Has(toDaemon[c], A("cancel", d))
  BY <1>2, <1>4, LineTypes
<1>6. CallerTyped(c)'
  BY <1>0, <1>1, <1>2, <1>4 DEF CallerInv, CallerTyped
<1>7. OneAfterTheOther(c)'
  BY <1>0, <1>1, <1>2, <1>3, <1>4, <1>5 DEF CallerInv, OneAfterTheOther
<1>8. KnownOrAnnounced(c)'
  BY <1>0, <1>1, <1>5 DEF CallerInv, KnownOrAnnounced
<1>9. ProgressTyped' /\ OthersRest(c) /\ OthersHear(c, "started")
  BY <1>0, <1>1, <1>2, <1>4 DEF ProgressTyped, OthersRest, OthersHear
<1>10. KnownStep(c) /\ AbortStep(c)
  BY <1>1, <1>4, <1>5 DEF KnownStep, AbortStep
<1> QED  BY <1>6, <1>7, <1>8, <1>9, <1>10, Assembled DEF CallerInv

\* Everyone who listens is told of a call.
LEMMA ToldOf ==
    ASSUME ProgressIInv, NEW c \in Callers, NEW what \in {"started", "progress"},
           fromDaemon' = P!Told(what, c)
    PROVE  /\ fromDaemon' \in [Callers -> Seq(Reports)]
           /\ OthersHear(c, what)
           /\ \A x : Has(fromDaemon'[c], x) <=> Has(fromDaemon[c], x) \/ (c \in listed /\ x = A(what, c))
           /\ OncePerCall(fromDaemon'[c], {A("subscribed", NoCall)})
<1>1. A(what, c) \in Reports /\ A(what, c) # A("subscribed", NoCall)
  BY LineTypes
<1>2. ASSUME NEW d \in Callers
      PROVE  /\ fromDaemon[d] \in Seq(Reports)
             /\ Append(fromDaemon[d], A(what, c)) \in Seq(Reports)
             /\ \A x : Has(Append(fromDaemon[d], A(what, c)), x)
                        <=> Has(fromDaemon[d], x) \/ x = A(what, c)
             /\ \A T : /\ OncePerCall(fromDaemon[d], T)
                       /\ \A x : Has(fromDaemon[d], x) /\ x \in T /\ A(what, c) \in T
                                  => x.call # A(what, c).call
                       => OncePerCall(Append(fromDaemon[d], A(what, c)), T)
  <2>1. fromDaemon[d] \in Seq(Reports)
    BY DEF ProgressIInv
  <2> QED  BY <1>1, <2>1, QueueAppended
<1>3. \A d \in Callers : fromDaemon'[d] = IF d \in listed THEN Append(fromDaemon[d], A(what, c))
                                          ELSE fromDaemon[d]
  BY DEF P!Told, P!Line, A
<1>4. fromDaemon' \in [Callers -> Seq(Reports)]
  BY <1>2 DEF P!Told, P!Line, A
<1>5. OncePerCall(fromDaemon[c], {A("subscribed", NoCall)})
  BY DEF ProgressIInv, CallerInv, OneAfterTheOther
<1>6. OncePerCall(fromDaemon'[c], {A("subscribed", NoCall)})
  BY <1>1, <1>2, <1>3, <1>5
<1> QED  BY <1>2, <1>3, <1>4, <1>6 DEF OthersHear

LEMMA CallTakenStep ==
    ASSUME ProgressIInv, NEW c \in Callers, P!Start(c) \/ P!Refuse(c)
    PROVE  ProgressIInv'
<1>0. ProgressTyped /\ CallerInv(c) /\ NoCall # c
  BY ClientsConstants DEF ProgressIInv, ProgressTyped, P!ProgressAssumption
<1>1. /\ P!Take(c, "call")
      /\ UNCHANGED <<phase, aborted, learned, forwarded, resuming, listed, progressed, cancelled>>
  BY DEF P!Start, P!Refuse, P!callerVars, P!daemonSideVars
<1>2. /\ toDaemon' \in [Callers -> Seq(Requests)]
      /\ \A d \in Callers \ {c} : toDaemon'[d] = toDaemon[d]
      /\ Head(toDaemon[c]) = A("call", NoCall)
      /\ \A x : Has(toDaemon[c], x) <=> Has(toDaemon'[c], x) \/ x = A("call", NoCall)
      /\ \A x : OncePerCall(toDaemon[c], {x}) =>
           OncePerCall(toDaemon'[c], {x}) /\ (Head(toDaemon[c]) = x => ~Has(toDaemon'[c], x))
  <2>1. "call" # "cancel"
    OBVIOUS
  <2>2. /\ toDaemon' \in [Callers -> Seq(Requests)]
        /\ \A d \in Callers \ {c} : toDaemon'[d] = toDaemon[d]
        /\ Head(toDaemon[c]) = A("call", Head(toDaemon[c]).call)
        /\ "call" # "cancel" => Head(toDaemon[c]) = A("call", NoCall)
        /\ \A x : Has(toDaemon[c], x) <=> Has(toDaemon'[c], x) \/ x = Head(toDaemon[c])
        /\ \A x : OncePerCall(toDaemon[c], {x}) =>
             OncePerCall(toDaemon'[c], {x}) /\ (Head(toDaemon[c]) = x => ~Has(toDaemon'[c], x))
    BY <1>1, TakenFromCaller
  <2> QED  BY <2>1, <2>2
<1>3. /\ phase[c] = "calling" /\ c \notin running /\ c \in listed /\ Has(toDaemon[c], A("call", NoCall))
      /\ ~Has(toDaemon'[c], A("call", NoCall))
  BY <1>0, <1>2 DEF CallerInv, OneAfterTheOther
<1>4. /\ Has(toDaemon'[c], A("subscribe", NoCall)) <=> Has(toDaemon[c], A("subscribe", NoCall))
      /\ \A d \in Callers : Has(toDaemon'[c], A("cancel", d)) <=> Has(toDaemon[c], A("cancel", d))
  BY <1>2, LineTypes
<1>5. CASE P!Start(c)
  <2>1. running' = running \union {c} /\ fromDaemon' = P!Told("started", c)
    BY <1>5 DEF P!Start
  <2>2. /\ fromDaemon' \in [Callers -> Seq(Reports)]
        /\ OthersHear(c, "started")
        /\ \A x : Has(fromDaemon'[c], x) <=> Has(fromDaemon[c], x) \/ (c \in listed /\ x = A("started", c))
        /\ OncePerCall(fromDaemon'[c], {A("subscribed", NoCall)})
    BY <2>1, ToldOf
  <2>3. /\ Has(fromDaemon'[c], A("started", c))
        /\ Has(fromDaemon'[c], A("subscribed", NoCall)) <=> Has(fromDaemon[c], A("subscribed", NoCall))
        /\ \A e \in Callers : Has(fromDaemon'[c], A("result", e)) <=> Has(fromDaemon[c], A("result", e))
        /\ ~Has(fromDaemon'[c], A("result", c))
    <3>1. ~Has(fromDaemon[c], A("result", c))
      BY <1>0, <1>2 DEF CallerInv, OneAfterTheOther
    <3> QED  BY <1>3, <2>2, <3>1, LineTypes
  <2>4. CallerTyped(c)'
    BY <1>0, <1>1, <1>2, <2>2 DEF CallerInv, CallerTyped
  <2>5. OneAfterTheOther(c)'
    BY <1>0, <1>1, <1>2, <1>3, <1>4, <2>2, <2>3 DEF CallerInv, OneAfterTheOther
  <2>6. KnownOrAnnounced(c)'
    BY <1>0, <1>1, <1>3, <1>4, <2>3 DEF CallerInv, KnownOrAnnounced
  <2>7. ProgressTyped' /\ OthersRest(c)
    BY <1>0, <1>1, <1>2, <2>1, <2>2 DEF ProgressTyped, OthersRest
  <2>8. \A e \in Callers : Has(fromDaemon'[c], A("started", e)) => Has(fromDaemon[c], A("started", e)) \/ e = c
    BY <2>2, LineTypes
  <2>9. KnownStep(c) /\ AbortStep(c)
    BY <1>1, <1>3, <1>4, <2>8 DEF KnownStep, AbortStep, Started
  <2> QED  BY <2>2, <2>4, <2>5, <2>6, <2>7, <2>9, Assembled DEF CallerInv
<1>6. CASE P!Refuse(c)
  <2>1. fromDaemon' = [fromDaemon EXCEPT ![c] = Append(@, A("result", c))] /\ UNCHANGED running
    BY <1>6 DEF P!Refuse, P!Line, A, P!daemonSideVars
  <2>2. /\ fromDaemon' \in [Callers -> Seq(Reports)]
        /\ \A d \in Callers \ {c} : fromDaemon'[d] = fromDaemon[d]
        /\ \A x : Has(fromDaemon'[c], x) <=> Has(fromDaemon[c], x) \/ x = A("result", c)
        /\ \A x : /\ OncePerCall(fromDaemon[c], {x})
                  /\ A("result", c) = x => ~Has(fromDaemon[c], x)
                  => OncePerCall(fromDaemon'[c], {x})
    BY <2>1, Answered, LineTypes
  <2>3. /\ \A e \in Callers : Has(fromDaemon'[c], A("started", e)) <=> Has(fromDaemon[c], A("started", e))
        /\ Has(fromDaemon'[c], A("subscribed", NoCall)) <=> Has(fromDaemon[c], A("subscribed", NoCall))
        /\ \A e \in Callers : Has(fromDaemon'[c], A("result", e)) =>
             Has(fromDaemon[c], A("result", e)) \/ e = c
        /\ A("result", c) # A("subscribed", NoCall)
    BY <2>2, LineTypes
  <2>4. CallerTyped(c)'
    BY <1>0, <1>1, <1>2, <2>2 DEF CallerInv, CallerTyped
  <2>5. OneAfterTheOther(c)'
    BY <1>0, <1>1, <1>2, <1>3, <1>4, <2>1, <2>2, <2>3 DEF CallerInv, OneAfterTheOther
  <2>6. KnownOrAnnounced(c)'
    BY <1>0, <1>1, <1>3, <1>4, <2>1 DEF CallerInv, KnownOrAnnounced
  <2>7. ProgressTyped' /\ OthersRest(c) /\ OthersHear(c, "started")
    BY <1>0, <1>1, <1>2, <2>1, <2>2 DEF ProgressTyped, OthersRest, OthersHear
  <2>8. KnownStep(c) /\ AbortStep(c)
    BY <1>1, <1>3, <1>4, <2>1, <2>2, <2>3 DEF KnownStep, AbortStep
  <2> QED  BY <2>4, <2>5, <2>6, <2>7, <2>8, Assembled DEF CallerInv
<1> QED  BY <1>5, <1>6

LEMMA CancelCallStep ==
    ASSUME ProgressIInv, NEW c \in Callers, P!CancelCall(c)
    PROVE  ProgressIInv'
<1>0. ProgressTyped /\ CallerInv(c)
  BY DEF ProgressIInv, ProgressTyped
<1>1. PICK d : d = Head(toDaemon[c]).call
  OBVIOUS
<1>2. /\ P!Take(c, "cancel") /\ cancelled' = cancelled \union ({d} \intersect running)
      /\ UNCHANGED <<phase, aborted, learned, forwarded, resuming, fromDaemon, listed, running, progressed>>
  BY <1>1 DEF P!CancelCall, P!callerVars
<1>3. /\ toDaemon' \in [Callers -> Seq(Requests)]
      /\ \A e \in Callers \ {c} : toDaemon'[e] = toDaemon[e]
      /\ Head(toDaemon[c]) = A("cancel", d) /\ d \in Callers
      /\ \A x : Has(toDaemon[c], x) <=> Has(toDaemon'[c], x) \/ x = A("cancel", d)
      /\ \A x : OncePerCall(toDaemon[c], {x}) => OncePerCall(toDaemon'[c], {x})
  BY <1>1, <1>2, TakenFromCaller
<1>4. running \subseteq Callers /\ cancelled' \subseteq Callers
  BY <1>0, <1>2, <1>3 DEF ProgressTyped
<1>5. /\ Has(toDaemon'[c], A("subscribe", NoCall)) <=> Has(toDaemon[c], A("subscribe", NoCall))
      /\ Has(toDaemon'[c], A("call", NoCall)) <=> Has(toDaemon[c], A("call", NoCall))
      /\ \A e \in Callers : Has(toDaemon'[c], A("cancel", e)) => Has(toDaemon[c], A("cancel", e))
      /\ \A e \in Callers : Has(toDaemon[c], A("cancel", e)) => Has(toDaemon'[c], A("cancel", e)) \/ e = d
      /\ Has(toDaemon[c], A("cancel", d))
  BY <1>3, LineTypes
<1>6. CallerTyped(c)'
  BY <1>0, <1>2, <1>3 DEF CallerInv, CallerTyped
<1>7. OneAfterTheOther(c)'
  BY <1>0, <1>2, <1>3, <1>5 DEF CallerInv, OneAfterTheOther
<1>8. KnownOrAnnounced(c)'
  BY <1>0, <1>2, <1>5 DEF CallerInv, KnownOrAnnounced
<1>9. ProgressTyped' /\ OthersRest(c) /\ OthersHear(c, "started")
  BY <1>0, <1>2, <1>3, <1>4 DEF ProgressTyped, OthersRest, OthersHear
<1>10. KnownStep(c) /\ AbortStep(c)
  BY <1>2, <1>3, <1>5 DEF KnownStep, AbortStep
<1> QED  BY <1>6, <1>7, <1>8, <1>9, <1>10, Assembled DEF CallerInv

\* A call that runs reports, or ends.
LEMMA RunningStep ==
    ASSUME ProgressIInv, NEW c \in Callers, P!Progress(c) \/ P!Finish(c)
    PROVE  ProgressIInv'
<1>0. ProgressTyped /\ CallerInv(c)
  BY DEF ProgressIInv, ProgressTyped
<1>1. /\ c \in running /\ phase[c] = "calling" /\ c \in listed
      /\ ~Has(toDaemon[c], A("call", NoCall)) /\ ~Has(toDaemon[c], A("subscribe", NoCall))
      /\ UNCHANGED <<phase, aborted, learned, forwarded, resuming, toDaemon, listed, cancelled>>
  BY <1>0 DEF P!Progress, P!Finish, P!callerVars, CallerInv, OneAfterTheOther, KnownOrAnnounced
<1>2. CASE P!Progress(c)
  <2>1. progressed' = progressed \union {c} /\ fromDaemon' = P!Told("progress", c) /\ UNCHANGED running
    BY <1>2 DEF P!Progress
  <2>2. /\ fromDaemon' \in [Callers -> Seq(Reports)]
        /\ OthersHear(c, "progress")
        /\ \A x : Has(fromDaemon'[c], x) <=> Has(fromDaemon[c], x) \/ (c \in listed /\ x = A("progress", c))
        /\ OncePerCall(fromDaemon'[c], {A("subscribed", NoCall)})
    BY <2>1, ToldOf
  <2>3. /\ \A e \in Callers : Has(fromDaemon'[c], A("started", e)) <=> Has(fromDaemon[c], A("started", e))
        /\ Has(fromDaemon'[c], A("subscribed", NoCall)) <=> Has(fromDaemon[c], A("subscribed", NoCall))
        /\ \A e \in Callers : Has(fromDaemon'[c], A("result", e)) <=> Has(fromDaemon[c], A("result", e))
    BY <2>2, LineTypes
  <2>4. CallerTyped(c)'
    BY <1>0, <1>1, <2>2 DEF CallerInv, CallerTyped
  <2>5. OneAfterTheOther(c)'
    BY <1>0, <1>1, <2>1, <2>2, <2>3 DEF CallerInv, OneAfterTheOther
  <2>6. KnownOrAnnounced(c)'
    BY <1>0, <1>1, <2>1, <2>3 DEF CallerInv, KnownOrAnnounced
  <2>7. ProgressTyped' /\ OthersRest(c)
    BY <1>0, <1>1, <2>1, <2>2 DEF ProgressTyped, OthersRest
  <2>8. KnownStep(c) /\ AbortStep(c)
    BY <1>1, <2>1, <2>3 DEF KnownStep, AbortStep, Started
  <2> QED  BY <2>2, <2>4, <2>5, <2>6, <2>7, <2>8, Assembled DEF CallerInv
<1>3. CASE P!Finish(c)
  <2>1. /\ fromDaemon' = [fromDaemon EXCEPT ![c] = Append(@, A("result", c))]
        /\ running' = running \ {c} /\ UNCHANGED progressed
    BY <1>1, <1>3 DEF P!Finish, P!Finished, P!Line, A
  <2>2. /\ fromDaemon' \in [Callers -> Seq(Reports)]
        /\ \A d \in Callers \ {c} : fromDaemon'[d] = fromDaemon[d]
        /\ \A x : Has(fromDaemon'[c], x) <=> Has(fromDaemon[c], x) \/ x = A("result", c)
        /\ \A x : /\ OncePerCall(fromDaemon[c], {x})
                  /\ A("result", c) = x => ~Has(fromDaemon[c], x)
                  => OncePerCall(fromDaemon'[c], {x})
    BY <2>1, Answered, LineTypes
  <2>3. /\ \A e \in Callers : Has(fromDaemon'[c], A("started", e)) <=> Has(fromDaemon[c], A("started", e))
        /\ Has(fromDaemon'[c], A("subscribed", NoCall)) <=> Has(fromDaemon[c], A("subscribed", NoCall))
        /\ \A e \in Callers : Has(fromDaemon'[c], A("result", e)) =>
             Has(fromDaemon[c], A("result", e)) \/ e = c
        /\ A("result", c) # A("subscribed", NoCall)
    BY <2>2, LineTypes
  <2>4. CallerTyped(c)'
    BY <1>0, <1>1, <2>2 DEF CallerInv, CallerTyped
  <2>5. OneAfterTheOther(c)'
    BY <1>0, <1>1, <2>1, <2>2, <2>3 DEF CallerInv, OneAfterTheOther
  <2>6. KnownOrAnnounced(c)'
    BY <1>0, <1>1, <2>1 DEF CallerInv, KnownOrAnnounced
  <2>7. ProgressTyped' /\ OthersRest(c) /\ OthersHear(c, "started")
    BY <1>0, <1>1, <2>1, <2>2 DEF ProgressTyped, OthersRest, OthersHear
  <2>8. KnownStep(c) /\ AbortStep(c)
    BY <1>1, <2>1, <2>2, <2>3 DEF KnownStep, AbortStep
  <2> QED  BY <2>4, <2>5, <2>6, <2>7, <2>8, Assembled DEF CallerInv
<1> QED  BY <1>2, <1>3

LEMMA ProgressStep == ProgressIInv /\ [P!ProgressNext]_P!progressVars => ProgressIInv'
<1> SUFFICES ASSUME ProgressIInv, [P!ProgressNext]_P!progressVars PROVE ProgressIInv'
  OBVIOUS
<1>1. CASE UNCHANGED P!progressVars
  <2>1. UNCHANGED <<phase, aborted, learned, forwarded, resuming, toDaemon, fromDaemon, listed,
                    running, progressed, cancelled>>
    BY <1>1 DEF P!progressVars, P!callerVars, P!daemonSideVars
  <2>2. ASSUME NEW c \in Callers PROVE CallerInv(c)'
    <3>1. CallerInv(c)
      BY DEF ProgressIInv
    <3>2. CallerTyped(c)'
      BY <2>1, <3>1 DEF CallerInv, CallerTyped
    <3>3. OneAfterTheOther(c)'
      BY <2>1, <3>1 DEF CallerInv, OneAfterTheOther
    <3>4. KnownOrAnnounced(c)'
      BY <2>1, <3>1 DEF CallerInv, KnownOrAnnounced
    <3> QED  BY <3>2, <3>3, <3>4 DEF CallerInv
  <2>3. AbortsAreSent'
    <3>1. AbortsAreSent
      BY DEF ProgressIInv
    <3> QED  BY <2>1, <3>1 DEF AbortsAreSent, Hears, Started, MustCancel, Sent
  <2> QED  BY <2>1, <2>2, <2>3 DEF ProgressIInv
<1>2. CASE P!ProgressNext
  <2>1. PICK c \in Callers :
          \/ P!Proxy(c) \/ P!Abort(c)
          \/ P!HearSubscribed(c) \/ P!Call(c) \/ P!HearTooEarly(c)
          \/ P!HearStarted(c) \/ P!HearProgress(c) \/ P!HearResult(c)
          \/ P!Subscribe(c) \/ P!Start(c) \/ P!Refuse(c) \/ P!CancelCall(c)
          \/ P!Progress(c) \/ P!Finish(c)
    BY <1>2 DEF P!ProgressNext
  <2> QED  BY <2>1, CallerStep, SubscribedStep, HearStep, ResultStep, SubscribeStep, CallTakenStep,
              CancelCallStep, RunningStep
<1> QED  BY <1>1, <1>2

LEMMA ProgressIsSound == ProgressIInv => P!ProgressSound
<1> SUFFICES ASSUME ProgressIInv PROVE P!ProgressSound
  OBVIOUS
<1>1. P!ProgressTypeOK
  BY DEF ProgressIInv, CallerInv, OneAfterTheOther, KnownOrAnnounced, P!ProgressTypeOK
<1>2. ASSUME NEW c \in Callers, learned[c] \in Callers
      PROVE  ToolOf[learned[c]] = ToolOf[c] /\ (P!Alone(c) => learned[c] = c)
  BY <1>2 DEF ProgressIInv, CallerInv, CallerTyped, P!Alone
<1>3. P!AbortGetsThrough
  <2> SUFFICES ASSUME P!Delivered, NEW c \in running, aborted[c]
               PROVE  /\ learned[c] # NoCall
                      /\ learned[c] \in running => learned[c] \in cancelled
                      /\ P!Alone(c) => c \in cancelled
    BY DEF P!AbortGetsThrough
  <2>1. c \in Callers /\ learned[c] \in Callers \union {NoCall} /\ AbortsAreSent
    BY DEF ProgressIInv
  <2>2. \A x : ~Has(toDaemon[c], x) /\ ~Has(fromDaemon[c], x)
    BY <2>1, QueueEmpty DEF P!Delivered
  <2>3. phase[c] = "calling" /\ learned[c] \in Callers
    BY <2>1, <2>2 DEF ProgressIInv, CallerInv, KnownOrAnnounced
  <2>4. learned[c] \in running => learned[c] \in cancelled
    BY <2>1, <2>2, <2>3 DEF AbortsAreSent, MustCancel, Sent
  <2> QED  BY <1>2, <2>1, <2>3, <2>4, ClientsConstants DEF P!ProgressAssumption
<1>4. P!CancelledForItsTool
  <2> SUFFICES ASSUME NEW c \in cancelled
               PROVE  \E d \in Callers : aborted[d] /\ ToolOf[d] = ToolOf[c] /\ learned[d] = c
    BY DEF P!CancelledForItsTool
  <2>1. c \in Callers /\ AbortsAreSent
    BY DEF ProgressIInv
  <2>2. PICK d \in Callers : aborted[d] /\ learned[d] = c
    BY <2>1 DEF AbortsAreSent
  <2>3. ToolOf[d] = ToolOf[c]
    BY <1>2, <2>1, <2>2
  <2> QED  BY <2>2, <2>3
<1>5. P!ProgressOfOneCall
  <2> SUFFICES ASSUME NEW c \in Callers, NEW d \in forwarded[c]
               PROVE  d = learned[c] /\ ToolOf[d] = ToolOf[c] /\ (P!Alone(c) => d = c)
    BY DEF P!ProgressOfOneCall
  <2>1. d \in Callers /\ d = learned[c]
    BY DEF ProgressIInv, CallerInv, CallerTyped
  <2> QED  BY <1>2, <2>1
<1> QED  BY <1>1, <1>3, <1>4, <1>5 DEF P!ProgressSound

\* Whenever an MCP client gives up - before its call has an id, while the start is on
\* its way, later - the app is told to stop the call that was taken for its own, which
\* is one of its tool, and its own if no other caller shares the tool; the progress
\* that is passed on is of the same call (mcp/server.ts, callProxiedTool).  Any number
\* of callers, of whatever tools.
THEOREM ProgressSpecSound == P!ProgressSpec => []P!ProgressSound
<1>1. P!ProgressSpec => []ProgressIInv
  BY ProgressInitIInv, ProgressStep, PTL DEF P!ProgressSpec
<1> QED  BY <1>1, ProgressIsSound, PTL

\* The same of the run's behaviours: ProgressSound.
THEOREM SpecProgressSound == Spec => []ProgressSound
<1>1. Init => ProgressIInv
  BY ProgressInitIInv DEF Init
<1>2. ProgressIInv /\ [Next]_vars => ProgressIInv'
  <2> SUFFICES ASSUME ProgressIInv, [Next]_vars PROVE ProgressIInv'
    OBVIOUS
  <2>1. [P!ProgressNext]_P!progressVars
    BY DEF Next, vars, InStreams, InProgress, InInvocation, OnConnection, progressVars,
           P!progressVars, P!callerVars, P!daemonSideVars
  <2> QED  BY <2>1, ProgressStep
<1>3. Spec => []ProgressIInv
  BY <1>1, <1>2, PTL DEF Spec
<1>4. ProgressIInv => ProgressSound
  BY ProgressIsSound DEF ProgressSound
<1> QED  BY <1>3, <1>4, PTL

-------------------------------------------------------------------------------
(***************************************************************************)
(* The order of versions: for any finite set of versions that follow       *)
(* semver, whatever the bounds of the reference order.                     *)
(***************************************************************************)
\* A set of positions has a least one.
LEMMA LeastIsIn ==
    ASSUME NEW T \in SUBSET Nat, T # {}
    PROVE  V!Least(T) \in T /\ \A j \in T : V!Least(T) <= j
<1> DEFINE Less == {p \in Nat \X Nat : p[1] < p[2]}
<1>1. IsWellFoundedOn(Less, Nat)
  BY NatLessThanWellFounded, Zenon DEF OpToRel
<1>2. PICK m \in T : \A x \in T : ~ (<<x, m>> \in Less)
  <2> HIDE DEF Less
  <2> QED  BY <1>1, WFMin
<1>3. ASSUME NEW x \in T, ~ (m <= x)
      PROVE  FALSE
  <2>1. x \in Nat /\ m \in Nat /\ x < m
    BY <1>3
  <2>2. <<x, m>> \in Less
    BY <2>1
  <2> HIDE DEF Less
  <2> QED  BY <1>2, <2>2
<1> QED  BY <1>2, <1>3 DEF V!Least

\* Of two identifiers that differ, one is larger and the other is not.
LEMMA IdentifiersOneWay ==
    ASSUME NEW a \in V!Identifiers, NEW b \in V!Identifiers, a # b, a.zeros = 0, b.zeros = 0
    PROVE  V!CompareIdentifiers(a, b) > 0 => ~(V!CompareIdentifiers(b, a) > 0)
<1>1. a.numeric = b.numeric => a.rank # b.rank
  BY DEF V!Identifiers
<1> QED  BY <1>1 DEF V!Identifiers, V!CompareIdentifiers, V!CompareRanks

\* The same for prereleases: both comparisons end at the same identifier.
LEMMA PrereleaseOneWay ==
    ASSUME NEW a, NEW b, V!IsVersion(a), V!IsVersion(b), V!WellWritten(a), V!WellWritten(b),
           V!ComparePrerelease(a.prerelease, b.prerelease) > 0
    PROVE  ~(V!ComparePrerelease(b.prerelease, a.prerelease) > 0)
<1> DEFINE l == a.prerelease
           r == b.prerelease
           i == V!Least(V!Differing(l, r))
<1>1. l \in Seq(V!Identifiers) /\ r \in Seq(V!Identifiers)
  BY DEF V!IsVersion
<1>2. V!Indices(l, r) = V!Indices(r, l) /\ V!Indices(l, r) \subseteq Nat \ {0}
  BY <1>1 DEF V!Indices
<1>3. V!Differing(l, r) = V!Differing(r, l)
  BY <1>2 DEF V!Differing
<1>4. CASE V!Differing(l, r) = {}
  BY <1>4 DEF V!ComparePrerelease
<1>5. CASE V!Differing(l, r) # {}
  <2>1. i \in V!Differing(l, r)
    BY <1>2, <1>5, LeastIsIn DEF V!Differing
  <2>2. i \in Nat \ {0} /\ (i <= Len(l) \/ i <= Len(r))
    BY <1>1, <1>2, <2>1 DEF V!Indices, V!Differing
  <2>3. CASE i > Len(l)
    <3>1. V!ComparePrerelease(l, r) = -1
      BY <1>5, <2>3 DEF V!ComparePrerelease
    <3> QED  BY <3>1
  <2>4. CASE i <= Len(l) /\ i > Len(r)
    <3>1. V!ComparePrerelease(r, l) = -1
      BY <1>3, <1>5, <2>4 DEF V!ComparePrerelease
    <3> QED  BY <3>1
  <2>5. CASE i <= Len(l) /\ i <= Len(r)
    <3>1. i \in DOMAIN l /\ i \in DOMAIN r /\ l[i] # r[i]
      <4>1. \A k \in V!Differing(l, r) : k > Len(l) \/ k > Len(r) \/ l[k] # r[k]
        BY DEF V!Differing
      <4> QED  BY <1>1, <2>1, <2>2, <2>5, <4>1
    <3>2. l[i] \in V!Identifiers /\ r[i] \in V!Identifiers /\ l[i].zeros = 0 /\ r[i].zeros = 0
      BY <1>1, <3>1 DEF V!WellWritten
    <3>3. V!ComparePrerelease(l, r) = V!CompareIdentifiers(l[i], r[i])
      BY <1>1, <1>5, <2>5, <2>2 DEF V!ComparePrerelease
    <3>4. V!ComparePrerelease(r, l) = V!CompareIdentifiers(r[i], l[i])
      BY <1>1, <1>3, <1>5, <2>5, <2>2 DEF V!ComparePrerelease
    <3> QED  BY <3>1, <3>2, <3>3, <3>4, IdentifiersOneWay
  <2> QED  BY <1>1, <2>2, <2>3, <2>4, <2>5
<1> QED  BY <1>4, <1>5

\* The same for versions.
LEMMA VersionsOneWay ==
    ASSUME NEW a, NEW b, V!IsVersion(a), V!IsVersion(b), V!WellWritten(a), V!WellWritten(b),
           V!CompareVersions(a, b) > 0
    PROVE  ~(V!CompareVersions(b, a) > 0)
<1> DEFINE l == a.numbers
           r == b.numbers
           i == V!Least(V!DifferingNumbers(l, r))
<1>1. l \in Seq(Nat) /\ r \in Seq(Nat)
  BY DEF V!IsVersion
<1>2. V!Indices(l, r) = V!Indices(r, l) /\ V!Indices(l, r) \subseteq Nat \ {0}
  BY <1>1 DEF V!Indices
<1>3. V!DifferingNumbers(l, r) = V!DifferingNumbers(r, l)
  BY <1>2 DEF V!DifferingNumbers
<1>4. CASE V!DifferingNumbers(l, r) # {}
  <2>1. i \in V!DifferingNumbers(l, r)
    BY <1>2, <1>4, LeastIsIn DEF V!DifferingNumbers
  <2>2. V!Number(l, i) \in Nat /\ V!Number(r, i) \in Nat /\ V!Number(l, i) # V!Number(r, i)
    <3>1. \A k \in V!DifferingNumbers(l, r) :
              V!Number(l, k) \in Nat /\ V!Number(r, k) \in Nat /\ V!Number(l, k) # V!Number(r, k)
      BY <1>1, <1>2 DEF V!Number, V!DifferingNumbers
    <3> QED  BY <2>1, <3>1
  <2>3. V!CompareVersions(a, b) = V!CompareRanks(V!Number(l, i), V!Number(r, i))
    BY <1>4 DEF V!CompareVersions
  <2>4. V!CompareVersions(b, a) = V!CompareRanks(V!Number(r, i), V!Number(l, i))
    BY <1>3, <1>4 DEF V!CompareVersions
  <2> QED  BY <2>2, <2>3, <2>4 DEF V!CompareRanks
<1>5. CASE V!DifferingNumbers(l, r) = {}
  <2>1. CASE a.prerelease = <<>> \/ b.prerelease = <<>>
    BY <1>3, <1>5, <2>1 DEF V!CompareVersions
  <2>2. CASE a.prerelease # <<>> /\ b.prerelease # <<>>
    <3>1. V!CompareVersions(a, b) = V!ComparePrerelease(a.prerelease, b.prerelease)
      BY <1>5, <2>2 DEF V!CompareVersions
    <3>2. V!CompareVersions(b, a) = V!ComparePrerelease(b.prerelease, a.prerelease)
      BY <1>3, <1>5, <2>2 DEF V!CompareVersions
    <3> QED  BY <3>1, <3>2, PrereleaseOneWay
  <2> QED  BY <2>1, <2>2
<1> QED  BY <1>4, <1>5

\* Of two sequences, which comes first is told by the first place where they differ.
LEMMA FirstDifference ==
    ASSUME NEW s \in Seq(Nat), NEW t \in Seq(Nat), NEW i \in Nat \ {0},
           i <= Len(s), i <= Len(t), s[i] # t[i],
           \A j \in 1..(i - 1) : s[j] = t[j]
    PROVE  (V!Precedes(s, t) <=> s[i] < t[i]) /\ s # t
<1>0. DOMAIN s = 1..Len(s) /\ DOMAIN t = 1..Len(t) /\ Len(s) \in Nat /\ Len(t) \in Nat
  OBVIOUS
<1>1. ASSUME s[i] < t[i] PROVE V!Precedes(s, t)
  BY <1>0, <1>1 DEF V!Precedes
<1>2. ASSUME V!Precedes(s, t) PROVE s[i] < t[i]
  <2>1. PICK k \in DOMAIN s \intersect DOMAIN t :
          s[k] < t[k] /\ \A j \in 1..(k - 1) : s[j] = t[j]
    BY <1>2 DEF V!Precedes
  <2>2. k \in Nat \ {0} /\ s[k] \in Nat /\ t[k] \in Nat
    BY <1>0, <2>1
  <2>3. CASE k < i
    <3>1. k \in 1..(i - 1)
      BY <2>2, <2>3
    <3> QED  BY <2>1, <2>2, <3>1
  <2>4. CASE i < k
    <3>1. i \in 1..(k - 1)
      BY <2>2, <2>4
    <3> QED  BY <2>1, <3>1
  <2> QED  BY <2>1, <2>2, <2>3, <2>4
<1> QED  BY <1>1, <1>2

Usable(v) == V!IsVersion(v) /\ V!WellWritten(v) /\ V!InBounds(v)

\* Places rank the identifiers: between the end of a prerelease and a release.
LEMMA PlaceIs ==
    ASSUME NEW a \in V!Identifiers, a.zeros = 0, a.rank <= Largest, Largest \in Nat
    PROVE  V!Place(a) \in Nat /\ 0 < V!Place(a) /\ V!Place(a) < 2 * Largest + 4
  BY DEF V!Identifiers, V!Place

LEMMA PlacesCompare ==
    ASSUME NEW a \in V!Identifiers, a.zeros = 0, a.rank <= Largest, Largest \in Nat,
           NEW b \in V!Identifiers, b.zeros = 0, b.rank <= Largest, a # b
    PROVE  /\ V!Place(a) # V!Place(b)
           /\ V!CompareIdentifiers(a, b) > 0 <=> V!Place(b) < V!Place(a)
           /\ V!CompareIdentifiers(a, b) # 0
<1>1. a.numeric = b.numeric => a.rank # b.rank
  BY DEF V!Identifiers
<1>2. a.rank \in Nat /\ b.rank \in Nat /\ a.numeric \in BOOLEAN /\ b.numeric \in BOOLEAN
  BY DEF V!Identifiers
<1>3. CASE a.numeric = b.numeric
  <2>1. V!CompareIdentifiers(a, b) = IF a.rank < b.rank THEN -1 ELSE 1
    BY <1>3 DEF V!CompareIdentifiers, V!CompareRanks
  <2>2. V!CompareIdentifiers(a, b) # 0 /\ (V!CompareIdentifiers(a, b) > 0 <=> ~(a.rank < b.rank))
    BY <2>1
  <2>3. PICK k \in Nat : V!Place(a) = 1 + a.rank + k /\ V!Place(b) = 1 + b.rank + k
    BY <1>3 DEF V!Place
  <2> QED  BY <1>1, <1>2, <1>3, <2>2, <2>3
<1>5. CASE a.numeric /\ ~b.numeric
  <2>1. V!Place(a) = 1 + a.rank + 0 /\ V!Place(b) = 1 + b.rank + (Largest + 1)
    BY <1>5, Zenon DEF V!Place
  <2>2. a.numeric # b.numeric
    BY <1>5, Zenon
  <2>3. V!CompareIdentifiers(a, b) = -1
    BY <1>5, <2>2, Zenon DEF V!CompareIdentifiers
  <2> QED  BY <1>2, <2>1, <2>3
<1>6. CASE ~a.numeric /\ b.numeric
  <2>1. V!Place(a) = 1 + a.rank + (Largest + 1) /\ V!Place(b) = 1 + b.rank + 0
    BY <1>6, Zenon DEF V!Place
  <2>2. a.numeric # b.numeric
    BY <1>6, Zenon
  <2>3. V!CompareIdentifiers(a, b) = 1
    BY <1>6, <2>2, Zenon DEF V!CompareIdentifiers
  <2> QED  BY <1>2, <2>1, <2>3
<1>7. a.numeric = b.numeric \/ (a.numeric /\ ~b.numeric) \/ (~a.numeric /\ b.numeric)
  BY <1>2, Zenon
<1> QED  BY <1>3, <1>5, <1>6, <1>7

\* The key of a version, place by place.
LEMMA KeyIs ==
    ASSUME NEW v, Usable(v), Longest \in Nat, Largest \in Nat
    PROVE  /\ V!Key(v) \in Seq(Nat)
           /\ \A i \in 1..Longest : i <= Len(V!Key(v)) /\ V!Key(v)[i] = V!Number(v.numbers, i)
           /\ v.prerelease = <<>> =>
                Len(V!Key(v)) = Longest + 1 /\ V!Key(v)[Longest + 1] = 2 * Largest + 4
           /\ v.prerelease # <<>> =>
                /\ Len(V!Key(v)) = Longest + Len(v.prerelease) + 1
                /\ \A i \in 1..Len(v.prerelease) : V!Key(v)[Longest + i] = V!Place(v.prerelease[i])
                /\ V!Key(v)[Longest + Len(v.prerelease) + 1] = 0
<1> DEFINE h == [i \in 1..Longest |-> V!Number(v.numbers, i)]
           p == [i \in DOMAIN v.prerelease |-> V!Place(v.prerelease[i])]
           t == IF v.prerelease = <<>> THEN <<2 * Largest + 4>> ELSE p \o <<0>>
<1>1. v.numbers \in Seq(Nat) /\ v.prerelease \in Seq(V!Identifiers)
  BY DEF Usable, V!IsVersion
<1>2. h \in Seq(Nat) /\ Len(h) = Longest
  BY <1>1 DEF V!Number
<1>3. PICK n \in Nat : n = Len(v.prerelease) /\ DOMAIN v.prerelease = 1..n
  BY <1>1
<1>4. \A i \in 1..n : V!Place(v.prerelease[i]) \in Nat
  <2> SUFFICES ASSUME NEW i \in 1..n PROVE V!Place(v.prerelease[i]) \in Nat
    OBVIOUS
  <2>1. v.prerelease[i] \in V!Identifiers
    BY <1>1, <1>3
  <2> QED  BY <2>1 DEF V!Identifiers, V!Place
<1>5. p \in Seq(Nat) /\ Len(p) = n /\ \A i \in 1..n : p[i] = V!Place(v.prerelease[i])
  BY <1>3, <1>4
<1> HIDE DEF h, p
<1>6. <<0>> \in Seq(Nat) /\ Len(<<0>>) = 1 /\ <<0>>[1] = 0
  OBVIOUS
<1>7. /\ p \o <<0>> \in Seq(Nat) /\ Len(p \o <<0>>) = n + 1
      /\ \A i \in 1..n : (p \o <<0>>)[i] = V!Place(v.prerelease[i])
      /\ (p \o <<0>>)[n + 1] = 0
  <2>1. /\ p \o <<0>> \in Seq(Nat) /\ Len(p \o <<0>>) = Len(p) + Len(<<0>>)
        /\ \A i \in 1..(Len(p) + Len(<<0>>)) :
             (p \o <<0>>)[i] = IF i <= Len(p) THEN p[i] ELSE <<0>>[i - Len(p)]
    BY <1>5, <1>6, ConcatProperties
  <2> QED  BY <1>5, <1>6, <2>1
<1>8. /\ t \in Seq(Nat)
      /\ v.prerelease = <<>> => Len(t) = 1 /\ t[1] = 2 * Largest + 4
      /\ v.prerelease # <<>> =>
           Len(t) = n + 1 /\ t[n + 1] = 0 /\ \A i \in 1..n : t[i] = V!Place(v.prerelease[i])
  <2>1. CASE v.prerelease = <<>>
    <3>1. <<2 * Largest + 4>> \in Seq(Nat)
      OBVIOUS
    <3> QED  BY <2>1, <3>1
  <2>2. CASE v.prerelease # <<>>
    BY <1>7, <2>2
  <2> QED  BY <2>1, <2>2
<1> HIDE DEF t
<1>9. V!Key(v) = h \o t
  BY DEF V!Key, h, p, t
<1>10. /\ V!Key(v) \in Seq(Nat) /\ Len(V!Key(v)) = Longest + Len(t) /\ Len(t) \in Nat
       /\ \A i \in 1..Longest : i <= Len(V!Key(v)) /\ V!Key(v)[i] = h[i]
       /\ \A i \in 1..Len(t) : V!Key(v)[Longest + i] = t[i]
  <2>1. /\ h \o t \in Seq(Nat) /\ Len(h \o t) = Len(h) + Len(t)
        /\ \A i \in 1..(Len(h) + Len(t)) : (h \o t)[i] = IF i <= Len(h) THEN h[i] ELSE t[i - Len(h)]
    BY <1>2, <1>8, ConcatProperties
  <2>2. Len(t) \in Nat
    BY <1>8
  <2>3. \A i \in 1..Len(t) : Longest + i \in 1..(Longest + Len(t)) /\ ~(Longest + i <= Longest)
                              /\ (Longest + i) - Longest = i
    BY <2>2
  <2> QED  BY <1>2, <1>9, <2>1, <2>2, <2>3
<1>11. \A i \in 1..Longest : h[i] = V!Number(v.numbers, i)
  BY DEF h
<1>12. CASE v.prerelease = <<>>
  <2>1. Len(t) = 1 /\ t[1] = 2 * Largest + 4 /\ 1 \in 1..1
    BY <1>8, <1>12
  <2>2. Len(V!Key(v)) = Longest + 1 /\ V!Key(v)[Longest + 1] = 2 * Largest + 4
    BY <1>10, <2>1
  <2> QED  BY <1>10, <1>11, <1>12, <2>2
<1>13. CASE v.prerelease # <<>>
  <2>1. /\ Len(t) = n + 1 /\ t[n + 1] = 0 /\ n + 1 \in 1..(n + 1)
        /\ \A i \in 1..n : i \in 1..(n + 1) /\ t[i] = V!Place(v.prerelease[i])
    BY <1>8, <1>13
  <2>2. /\ Len(V!Key(v)) = Longest + n + 1
        /\ \A i \in 1..n : V!Key(v)[Longest + i] = V!Place(v.prerelease[i])
        /\ V!Key(v)[Longest + n + 1] = 0
    <3>1. Longest + (n + 1) = Longest + n + 1
      OBVIOUS
    <3>2. V!Key(v)[Longest + (n + 1)] = t[n + 1]
      BY <1>10, <2>1
    <3> QED  BY <1>10, <2>1, <3>1, <3>2
  <2> QED  BY <1>3, <1>10, <1>11, <1>13, <2>2
<1> QED  BY <1>12, <1>13


\* Of two prereleases of one version.
LEMMA PrereleasesCompare ==
    ASSUME NEW a, NEW b, Usable(a), Usable(b), Longest \in Nat, Largest \in Nat,
           a.prerelease # <<>>, b.prerelease # <<>>,
           \A i \in 1..Longest : V!Key(a)[i] = V!Key(b)[i]
    PROVE  /\ V!ComparePrerelease(a.prerelease, b.prerelease) > 0 <=> V!Precedes(V!Key(b), V!Key(a))
           /\ V!ComparePrerelease(a.prerelease, b.prerelease) = 0 <=> V!Key(a) = V!Key(b)
<1> DEFINE l == a.prerelease
           r == b.prerelease
           ka == V!Key(a)
           kb == V!Key(b)
<1>1. PICK m \in Nat, n \in Nat :
        /\ l \in Seq(V!Identifiers) /\ Len(l) = m /\ DOMAIN l = 1..m
        /\ r \in Seq(V!Identifiers) /\ Len(r) = n /\ DOMAIN r = 1..n
  BY DEF Usable, V!IsVersion
<1>2. /\ ka \in Seq(Nat) /\ Len(ka) = Longest + m + 1 /\ ka[Longest + m + 1] = 0
      /\ \A i \in 1..m : ka[Longest + i] = V!Place(l[i])
  BY <1>1, KeyIs
<1>3. /\ kb \in Seq(Nat) /\ Len(kb) = Longest + n + 1 /\ kb[Longest + n + 1] = 0
      /\ \A i \in 1..n : kb[Longest + i] = V!Place(r[i])
  BY <1>1, KeyIs
<1>4. /\ \A i \in 1..m : l[i] \in V!Identifiers /\ l[i].zeros = 0 /\ l[i].rank <= Largest
      /\ \A i \in 1..n : r[i] \in V!Identifiers /\ r[i].zeros = 0 /\ r[i].rank <= Largest
  <2>1. /\ \A i \in DOMAIN l : l[i].zeros = 0 /\ l[i].rank <= Largest
        /\ \A i \in DOMAIN r : r[i].zeros = 0 /\ r[i].rank <= Largest
    BY DEF Usable, V!WellWritten, V!InBounds
  <2> QED  BY <1>1, <2>1
<1>5. /\ \A i \in 1..m : V!Place(l[i]) \in Nat /\ 0 < V!Place(l[i])
      /\ \A i \in 1..n : V!Place(r[i]) \in Nat /\ 0 < V!Place(r[i])
  BY <1>4, PlaceIs
<1>6. \A i \in 1..Longest : ka[i] = kb[i]
  OBVIOUS
<1> HIDE DEF l, r, ka, kb
<1>7. CASE V!Differing(l, r) = {}
  <2>1. m = n /\ \A i \in 1..m : l[i] = r[i]
    <3>1. \A i \in V!Indices(l, r) : i <= m /\ i <= n /\ l[i] = r[i]
      BY <1>1, <1>7 DEF V!Differing, V!Indices
    <3>2. V!Indices(l, r) = 1..(IF m < n THEN n ELSE m)
      BY <1>1 DEF V!Indices
    <3>3. m = n
      <4>1. CASE m < n
        <5>1. n \in V!Indices(l, r)
          BY <3>2, <4>1
        <5> QED  BY <3>1, <4>1, <5>1
      <4>2. CASE n < m
        <5>1. m \in V!Indices(l, r)
          BY <3>2, <4>2
        <5> QED  BY <3>1, <4>2, <5>1
      <4> QED  BY <4>1, <4>2
    <3> QED  BY <3>1, <3>2, <3>3
  <2>2. V!ComparePrerelease(l, r) = 0
    BY <1>7 DEF V!ComparePrerelease
  <2>3. \A i \in 1..Len(ka) : i \in 1..Longest \/ (i - Longest \in 1..m /\ Longest + (i - Longest) = i)
                                \/ i = Longest + m + 1
    BY <1>2
  <2>4. \A i \in 1..Len(ka) : ka[i] = kb[i]
    <3> SUFFICES ASSUME NEW i \in 1..Len(ka) PROVE ka[i] = kb[i]
      OBVIOUS
    <3>1. CASE i \in 1..Longest
      BY <1>6, <3>1
    <3>2. CASE i = Longest + m + 1
      BY <1>2, <1>3, <2>1, <3>2
    <3>3. CASE i - Longest \in 1..m /\ Longest + (i - Longest) = i
      <4>1. PICK k \in 1..m : k = i - Longest /\ Longest + k = i
        BY <3>3
      <4>2. ka[Longest + k] = V!Place(l[k]) /\ kb[Longest + k] = V!Place(r[k]) /\ l[k] = r[k]
        BY <1>2, <1>3, <2>1
      <4> QED  BY <4>1, <4>2
    <3> QED  BY <2>3, <3>1, <3>2, <3>3
  <2>5. ka = kb
    BY <1>2, <1>3, <2>1, <2>4, SeqEqual
  <2>6. ~V!Precedes(ka, ka)
    <3>1. \A i \in DOMAIN ka : ka[i] \in Nat
      BY <1>2
    <3>2. \A i \in DOMAIN ka : ~(ka[i] < ka[i])
      BY <3>1
    <3> QED  BY <3>2 DEF V!Precedes
  <2> QED  BY <2>2, <2>5, <2>6 DEF l, r, ka, kb
<1>8. CASE V!Differing(l, r) # {}
  <2>1. PICK i : i = V!Least(V!Differing(l, r))
    OBVIOUS
  <2>2. V!Indices(l, r) \subseteq Nat \ {0}
    BY <1>1 DEF V!Indices
  <2>3. i \in V!Differing(l, r) /\ \A j \in V!Differing(l, r) : i <= j
    BY <1>8, <2>1, <2>2, LeastIsIn DEF V!Differing
  <2>4. /\ i \in Nat \ {0} /\ (i <= m \/ i <= n) /\ (i > m \/ i > n \/ l[i] # r[i])
    BY <1>1, <2>2, <2>3 DEF V!Differing, V!Indices
  <2>5. \A j \in 1..(i - 1) : j \in V!Indices(l, r) /\ ~(i <= j)
    BY <1>1, <2>4 DEF V!Indices
  <2>6. \A j \in 1..(i - 1) : j <= m /\ j <= n /\ l[j] = r[j]
    BY <1>1, <2>3, <2>5 DEF V!Differing, V!Indices
  <2>7. \A j \in 1..((Longest + i) - 1) : ka[j] = kb[j]
    <3>1. \A j \in 1..((Longest + i) - 1) :
            j \in 1..Longest \/ (j - Longest \in 1..(i - 1) /\ Longest + (j - Longest) = j
                                  /\ (j - Longest <= m => j - Longest \in 1..m)
                                  /\ (j - Longest <= n => j - Longest \in 1..n))
      BY <2>4
    <3> QED  BY <1>2, <1>3, <1>6, <2>6, <3>1
  <2>8. Longest + i \in Nat \ {0} /\ i <= m + 1 /\ i <= n + 1
    <3>1. CASE i = 1
      BY <3>1
    <3>2. CASE i # 1
      <4>1. i - 1 \in 1..(i - 1)
        BY <2>4, <3>2
      <4> QED  BY <2>4, <2>6, <4>1
    <3> QED  BY <2>4, <3>1, <3>2
  <2>9. Longest + i <= Len(ka) /\ Longest + i <= Len(kb)
    BY <1>2, <1>3, <2>4, <2>8
  <2>10. V!ComparePrerelease(l, r) =
           IF i > m THEN -1 ELSE IF i > n THEN 1 ELSE V!CompareIdentifiers(l[i], r[i])
    BY <1>1, <1>8, <2>1 DEF V!ComparePrerelease
  <2>11. /\ ka[Longest + i] # kb[Longest + i]
         /\ V!ComparePrerelease(l, r) > 0 <=> kb[Longest + i] < ka[Longest + i]
         /\ V!ComparePrerelease(l, r) # 0
    <3>1. CASE i > m
      <4>1. i = m + 1 /\ i <= n /\ i \in 1..n /\ Longest + i = Longest + m + 1
        BY <2>4, <2>8, <3>1
      <4>2. ka[Longest + i] = 0 /\ kb[Longest + i] \in Nat /\ 0 < kb[Longest + i]
        BY <1>2, <1>3, <1>5, <4>1
      <4>3. V!ComparePrerelease(l, r) = -1
        BY <2>10, <3>1
      <4> QED  BY <4>2, <4>3
    <3>2. CASE i <= m /\ i > n
      <4>1. i = n + 1 /\ i \in 1..m /\ Longest + i = Longest + n + 1
        BY <2>4, <2>8, <3>2
      <4>2. kb[Longest + i] = 0 /\ ka[Longest + i] \in Nat /\ 0 < ka[Longest + i]
        BY <1>2, <1>3, <1>5, <4>1
      <4>3. V!ComparePrerelease(l, r) = 1
        BY <2>4, <2>10, <3>2
      <4> QED  BY <4>2, <4>3
    <3>3. CASE i <= m /\ i <= n
      <4>1. i \in 1..m /\ i \in 1..n /\ l[i] # r[i]
        BY <2>4, <3>3
      <4>2. ka[Longest + i] = V!Place(l[i]) /\ kb[Longest + i] = V!Place(r[i])
        BY <1>2, <1>3, <4>1
      <4>3. V!ComparePrerelease(l, r) = V!CompareIdentifiers(l[i], r[i])
        BY <2>4, <2>10, <3>3
      <4>4. /\ V!Place(l[i]) # V!Place(r[i])
            /\ V!CompareIdentifiers(l[i], r[i]) > 0 <=> V!Place(r[i]) < V!Place(l[i])
            /\ V!CompareIdentifiers(l[i], r[i]) # 0
        BY <1>4, <4>1, PlacesCompare
      <4> QED  BY <4>2, <4>3, <4>4
    <3> QED  BY <2>4, <3>1, <3>2, <3>3
  <2>12. (V!Precedes(kb, ka) <=> kb[Longest + i] < ka[Longest + i]) /\ kb # ka
    <3>1. kb[Longest + i] # ka[Longest + i] /\ \A j \in 1..((Longest + i) - 1) : kb[j] = ka[j]
      BY <2>7, <2>11
    <3> QED  BY <1>2, <1>3, <2>8, <2>9, <3>1, FirstDifference
  <2> QED  BY <2>11, <2>12 DEF l, r, ka, kb
<1> QED  BY <1>7, <1>8

\* The comparison of two versions is the order of their keys.
LEMMA KeysCompare ==
    ASSUME NEW a, NEW b, Usable(a), Usable(b), Longest \in Nat, Largest \in Nat
    PROVE  /\ V!CompareVersions(a, b) > 0 <=> V!Precedes(V!Key(b), V!Key(a))
           /\ V!CompareVersions(a, b) = 0 <=> V!Key(a) = V!Key(b)
<1> DEFINE l == a.numbers
           r == b.numbers
           ka == V!Key(a)
           kb == V!Key(b)
<1>1. /\ l \in Seq(Nat) /\ r \in Seq(Nat) /\ Len(l) <= Longest /\ Len(r) <= Longest
      /\ a.prerelease \in Seq(V!Identifiers) /\ b.prerelease \in Seq(V!Identifiers)
  BY DEF Usable, V!IsVersion, V!InBounds
<1>2. /\ ka \in Seq(Nat) /\ kb \in Seq(Nat) /\ Len(ka) \in Nat /\ Len(kb) \in Nat
      /\ \A i \in 1..Longest : i <= Len(ka) /\ i <= Len(kb)
            /\ ka[i] = V!Number(l, i) /\ kb[i] = V!Number(r, i)
  <2>1. ka \in Seq(Nat) /\ \A i \in 1..Longest : i <= Len(ka) /\ ka[i] = V!Number(l, i)
    BY KeyIs
  <2>2. kb \in Seq(Nat) /\ \A i \in 1..Longest : i <= Len(kb) /\ kb[i] = V!Number(r, i)
    BY KeyIs
  <2> QED  BY <2>1, <2>2
<1>3. /\ a.prerelease = <<>> => Len(ka) = Longest + 1 /\ ka[Longest + 1] = 2 * Largest + 4
      /\ b.prerelease = <<>> => Len(kb) = Longest + 1 /\ kb[Longest + 1] = 2 * Largest + 4
  BY KeyIs
<1>4. /\ a.prerelease # <<>> =>
           /\ Len(ka) = Longest + Len(a.prerelease) + 1
           /\ \A i \in 1..Len(a.prerelease) : ka[Longest + i] = V!Place(a.prerelease[i])
           /\ ka[Longest + Len(a.prerelease) + 1] = 0
      /\ b.prerelease # <<>> =>
           /\ Len(kb) = Longest + Len(b.prerelease) + 1
           /\ \A i \in 1..Len(b.prerelease) : kb[Longest + i] = V!Place(b.prerelease[i])
           /\ kb[Longest + Len(b.prerelease) + 1] = 0
  BY KeyIs
<1>5. V!Indices(l, r) \subseteq 1..Longest
  BY <1>1 DEF V!Indices
<1>6. \A i \in 1..Longest : V!Number(l, i) \in Nat /\ V!Number(r, i) \in Nat
                              /\ (i \notin V!Indices(l, r) => V!Number(l, i) = V!Number(r, i))
  BY <1>1 DEF V!Indices, V!Number
<1> HIDE DEF ka, kb, l, r
<1>7. CASE V!DifferingNumbers(l, r) # {}
  <2>1. PICK i : i = V!Least(V!DifferingNumbers(l, r))
    OBVIOUS
  <2>2. i \in V!DifferingNumbers(l, r) /\ \A j \in V!DifferingNumbers(l, r) : i <= j
    BY <1>5, <1>7, <2>1, LeastIsIn DEF V!DifferingNumbers
  <2>3. i \in 1..Longest /\ V!Number(l, i) # V!Number(r, i)
    BY <1>5, <2>2 DEF V!DifferingNumbers
  <2>4. \A j \in 1..(i - 1) : j \in 1..Longest /\ ~(i <= j)
    BY <2>3
  <2>5. \A j \in 1..(i - 1) : V!Number(l, j) = V!Number(r, j)
    BY <1>6, <2>2, <2>4 DEF V!DifferingNumbers
  <2>6. (V!Precedes(kb, ka) <=> kb[i] < ka[i]) /\ kb # ka
    <3>1. /\ i \in Nat \ {0} /\ i <= Len(kb) /\ i <= Len(ka) /\ kb[i] # ka[i]
          /\ \A j \in 1..(i - 1) : kb[j] = ka[j]
      <4>1. i \in Nat \ {0} /\ i <= Len(kb) /\ i <= Len(ka) /\ kb[i] # ka[i]
        BY <1>2, <2>3
      <4>2. ASSUME NEW j \in 1..(i - 1) PROVE kb[j] = ka[j]
        <5>1. j \in 1..Longest /\ V!Number(l, j) = V!Number(r, j)
          BY <2>4, <2>5
        <5> QED  BY <1>2, <5>1
      <4> QED  BY <4>1, <4>2
    <3> QED  BY <1>2, <3>1, FirstDifference
  <2>7. V!CompareVersions(a, b) = IF V!Number(l, i) < V!Number(r, i) THEN -1 ELSE 1
    BY <1>7, <2>1 DEF V!CompareVersions, V!CompareRanks, l, r
  <2>8. V!CompareVersions(a, b) # 0
        /\ (V!CompareVersions(a, b) > 0 <=> ~(V!Number(l, i) < V!Number(r, i)))
    BY <2>7
  <2>9. ~(V!Number(l, i) < V!Number(r, i)) <=> kb[i] < ka[i]
    BY <1>2, <1>6, <2>3
  <2> QED  BY <2>6, <2>8, <2>9 DEF ka, kb
<1>8. CASE V!DifferingNumbers(l, r) = {}
  <2>1. \A i \in 1..Longest : ka[i] = kb[i]
    BY <1>2, <1>6, <1>8 DEF V!DifferingNumbers
  <2>2. ASSUME V!Precedes(ka, ka) PROVE FALSE
    <3>1. \E i \in DOMAIN ka : ka[i] < ka[i]
      BY <2>2 DEF V!Precedes
    <3>2. \A i \in DOMAIN ka : ka[i] \in Nat
      BY <1>2
    <3> QED  BY <3>1, <3>2
  <2>3. CASE a.prerelease = <<>> /\ b.prerelease = <<>>
    <3>1. V!CompareVersions(a, b) = 0
      BY <1>8, <2>3 DEF V!CompareVersions, l, r
    <3>2. Len(ka) = Longest + 1 /\ Len(kb) = Longest + 1 /\ ka[Longest + 1] = kb[Longest + 1]
      BY <1>3, <2>3
    <3>3. \A i \in 1..Len(ka) : i \in 1..Longest \/ i = Longest + 1
      BY <3>2
    <3>4. \A i \in 1..Len(ka) : ka[i] = kb[i]
      BY <2>1, <3>2, <3>3
    <3>5. ka = kb
      BY <1>2, <3>2, <3>4, SeqEqual
    <3> QED  BY <2>2, <3>1, <3>5 DEF ka, kb
  <2>4. ASSUME NEW v, NEW w, Usable(v), Usable(w), v.prerelease = <<>>, w.prerelease # <<>>,
               \A i \in 1..Longest : V!Key(v)[i] = V!Key(w)[i]
        PROVE  /\ V!Key(w) # V!Key(v) /\ V!Key(v) # V!Key(w)
               /\ V!Precedes(V!Key(w), V!Key(v)) /\ ~V!Precedes(V!Key(v), V!Key(w))
    <3>1. /\ V!Key(v) \in Seq(Nat) /\ Len(V!Key(v)) = Longest + 1 /\ V!Key(v)[Longest + 1] = 2 * Largest + 4
      BY <2>4, KeyIs
    <3>2. /\ V!Key(w) \in Seq(Nat) /\ Len(V!Key(w)) = Longest + Len(w.prerelease) + 1
          /\ \A i \in 1..Len(w.prerelease) : V!Key(w)[Longest + i] = V!Place(w.prerelease[i])
      BY <2>4, KeyIs
    <3>3. /\ w.prerelease \in Seq(V!Identifiers) /\ Len(w.prerelease) \in Nat /\ Len(w.prerelease) >= 1
          /\ w.prerelease[1] \in V!Identifiers
          /\ w.prerelease[1].zeros = 0 /\ w.prerelease[1].rank <= Largest
      <4>1. w.prerelease \in Seq(V!Identifiers)
        BY <2>4 DEF Usable, V!IsVersion
      <4>2. Len(w.prerelease) \in Nat /\ Len(w.prerelease) >= 1 /\ 1 \in DOMAIN w.prerelease
        BY <2>4, <4>1
      <4> QED  BY <2>4, <4>1, <4>2 DEF Usable, V!WellWritten, V!InBounds
    <3>4. V!Place(w.prerelease[1]) \in Nat /\ V!Place(w.prerelease[1]) < 2 * Largest + 4
      BY <3>3, PlaceIs
    <3>5. V!Key(w)[Longest + 1] = V!Place(w.prerelease[1])
      BY <3>2, <3>3
    <3>6. /\ Longest + 1 \in Nat \ {0} /\ Longest + 1 <= Len(V!Key(v)) /\ Longest + 1 <= Len(V!Key(w))
          /\ V!Key(v)[Longest + 1] # V!Key(w)[Longest + 1]
          /\ V!Key(w)[Longest + 1] < V!Key(v)[Longest + 1]
          /\ ~(V!Key(v)[Longest + 1] < V!Key(w)[Longest + 1])
          /\ \A j \in 1..((Longest + 1) - 1) : V!Key(v)[j] = V!Key(w)[j]
      BY <2>4, <3>1, <3>2, <3>3, <3>4, <3>5
    <3>7. (V!Precedes(V!Key(v), V!Key(w)) <=> V!Key(v)[Longest + 1] < V!Key(w)[Longest + 1]) /\ V!Key(v) # V!Key(w)
      BY <3>1, <3>2, <3>6, FirstDifference
    <3>8. (V!Precedes(V!Key(w), V!Key(v)) <=> V!Key(w)[Longest + 1] < V!Key(v)[Longest + 1]) /\ V!Key(w) # V!Key(v)
      BY <3>1, <3>2, <3>6, FirstDifference
    <3> QED  BY <3>6, <3>7, <3>8
  <2>5. CASE a.prerelease = <<>> /\ b.prerelease # <<>>
    <3>1. V!CompareVersions(a, b) = 1
      BY <1>8, <2>5 DEF V!CompareVersions, l, r
    <3>2. V!CompareVersions(a, b) > 0 /\ V!CompareVersions(a, b) # 0
      BY <3>1
    <3> QED  BY <2>1, <2>4, <2>5, <3>2 DEF ka, kb
  <2>6. CASE a.prerelease # <<>> /\ b.prerelease = <<>>
    <3>1. V!CompareVersions(a, b) = -1
      BY <1>8, <2>6 DEF V!CompareVersions, l, r
    <3>2. ~(V!CompareVersions(a, b) > 0) /\ V!CompareVersions(a, b) # 0
      BY <3>1
    <3> QED  BY <2>1, <2>4, <2>6, <3>2 DEF ka, kb
  <2>7. CASE a.prerelease # <<>> /\ b.prerelease # <<>>
    <3>1. V!CompareVersions(a, b) = V!ComparePrerelease(a.prerelease, b.prerelease)
      BY <1>8, <2>7 DEF V!CompareVersions, l, r
    <3>2. /\ V!ComparePrerelease(a.prerelease, b.prerelease) > 0 <=> V!Precedes(kb, ka)
          /\ V!ComparePrerelease(a.prerelease, b.prerelease) = 0 <=> ka = kb
      BY <2>1, <2>7, PrereleasesCompare DEF ka, kb
    <3> QED  BY <3>1, <3>2 DEF ka, kb
  <2> QED  BY <2>3, <2>5, <2>6, <2>7
<1> QED  BY <1>7, <1>8

LEMMA VersionsAreSound ==
    ASSUME V!VersionAssumption, own \in Versions, other \in Versions
    PROVE  V!VersionsSound
<1>1. Usable(own) /\ Usable(other) /\ Longest \in Nat /\ Largest \in Nat
  BY DEF V!VersionAssumption, Usable
<1>2. /\ V!CompareVersions(own, other) > 0 <=> V!Precedes(V!Key(other), V!Key(own))
      /\ V!CompareVersions(own, other) = 0 <=> V!Key(own) = V!Key(other)
      /\ V!CompareVersions(other, own) = 0 <=> V!Key(other) = V!Key(own)
  BY <1>1, KeysCompare
<1>3. ~V!Precedes(V!Key(own), V!Key(own))
  <2>1. V!Key(own) \in Seq(Nat)
    BY <1>1, KeyIs
  <2>2. \A i \in DOMAIN V!Key(own) : V!Key(own)[i] \in Nat
    BY <2>1
  <2>3. \A i \in DOMAIN V!Key(own) : ~(V!Key(own)[i] < V!Key(own)[i])
    BY <2>2
  <2> QED  BY <2>3 DEF V!Precedes
<1>4. V!AsSemver
  <2> SUFFICES ASSUME V!Ordered(own, other)
               PROVE  /\ V!HasOutgrown(own, other) <=> V!Precedes(V!Key(other), V!Key(own))
                      /\ V!IsSameVersion(own, other) <=> V!Key(own) = V!Key(other)
    BY DEF V!AsSemver
  <2>1. V!Ordered(other, own)
    BY DEF V!Ordered
  <2>2. V!IsSameVersion(own, other) <=> V!Key(own) = V!Key(other)
    BY <1>2 DEF V!IsSameVersion
  <2>3. V!IsSameVersion(other, own) <=> V!Key(own) = V!Key(other)
    BY <1>2, <2>1 DEF V!IsSameVersion
  <2>4. V!HasOutgrown(own, other) <=>
          V!Key(own) # V!Key(other) /\ V!Precedes(V!Key(other), V!Key(own))
    BY <1>2, <2>3 DEF V!HasOutgrown
  <2> QED  BY <1>3, <2>2, <2>4
<1>5. V!NoTurns
  BY <1>1, VersionsOneWay DEF V!NoTurns, V!HasOutgrown, Usable
<1> QED  BY <1>4, <1>5 DEF V!VersionsSound

\* The precedence is semver's, section 11 (rpc/client.ts, compareVersions): a client
\* restarts a daemon exactly if that one's version precedes its own; and two installs on
\* one machine do not take turns restarting it: each comparison ends at the same place
\* from both sides, and what differs there differs in one direction.  For any versions
\* that follow semver, whatever bounds the reference order is given.
THEOREM VersionSpecSound ==
    ASSUME V!VersionAssumption
    PROVE  V!VersionSpec => []V!VersionsSound
<1> DEFINE OfVersions == own \in Versions /\ other \in Versions
<1>1. V!VersionInit => OfVersions
  BY DEF V!VersionInit
<1>2. OfVersions /\ [UNCHANGED V!versionVars]_V!versionVars => OfVersions'
  BY DEF V!versionVars
<1>3. OfVersions => V!VersionsSound
  BY VersionsAreSound
<1> QED  BY <1>1, <1>2, <1>3, PTL DEF V!VersionSpec

\* The same of the run's behaviours: VersionsSound.
THEOREM SpecVersionsSound == Spec => []VersionsSound
<1> DEFINE OfVersions == scene = "versions" => own \in Versions /\ other \in Versions
<1>1. Init => OfVersions
  BY DEF Init, V!VersionInit
<1>2. OfVersions /\ [Next]_vars => OfVersions'
  <2>1. [Next]_vars => UNCHANGED <<own, other>> /\ (scene' = scene)
    BY DEF Next, vars, InStreams, InProgress, InInvocation, OnConnection, versionVars
  <2> QED  BY <2>1
<1>3. OfVersions => VersionsSound
  <2>1. V!VersionAssumption
    BY ClientsConstants
  <2> QED  BY <2>1, VersionsAreSound DEF VersionsSound
<1> QED  BY <1>1, <1>2, <1>3, PTL DEF Spec

-------------------------------------------------------------------------------
(***************************************************************************)
(* Clients of the event stream, of every kind, for any size of the ring and *)
(* of a page.                                                              *)
(***************************************************************************)
AnswerLines ==
    [is : {"answer"}, ok : BOOLEAN, page : [events : SUBSET S!Events, cursor : S!Numbers]]
EventLines == [is : {"event"}, event : S!Events]
StreamLines == AnswerLines \union EventLines

StreamTyped ==
    /\ role \in Roles
    /\ session \in {"pending", "live", "over"}
    /\ cursor \in 0..MaxCursor
    /\ ring \in Seq(S!Events) /\ Len(ring) <= RingSize
    /\ subscribed \in BOOLEAN /\ asked \in BOOLEAN /\ midChunk \in BOOLEAN /\ timer \in BOOLEAN
    /\ wire \in Seq(StreamLines)
    /\ answer \in AnswerLines \union {Nothing}
    /\ step \in 0..Len(S!Script) + 1
    /\ since \in S!Numbers /\ highest \in S!Numbers
    /\ early \subseteq S!Events
    /\ outcome \in {Nothing, "event", "claimed", "timeout", "failed"}
    /\ got \subseteq S!Numbers /\ due \subseteq S!Numbers

\* The events on their way, and the answers: on their way or read.
Coming(w) == {l.event : l \in {x \in S!ToSet(w) : x.is = "event"}}
Answering(w) == {l \in S!ToSet(w) : l.is = "answer"}
Held(w, a) == Answering(w) \union ({a} \ {Nothing})

\* A page, or a line, that was made before an event happened.
Precede(page, e) == page.cursor < e.seq /\ \A d \in page.events : d.seq < e.seq
Before(l, e) ==
    /\ l.is = "event" => l.event.seq < e.seq
    /\ l.is = "answer" => Precede(l.page, e)

LineInOrder(w) == \A i, j \in 1..Len(w) : i < j /\ w[j].is = "event" => Before(w[i], w[j].event)
RingInOrder(r) == \A i, j \in 1..Len(r) : i < j => r[i].seq < r[j].seq
OneAnswer(w) == \A i, j \in 1..Len(w) : w[i].is = "answer" /\ w[j].is = "answer" => i = j

\* The ring and the line are in the order of the numbers; nothing follows the end.
Numbered ==
    /\ RingInOrder(ring) /\ LineInOrder(wire)
    /\ \A e \in S!ToSet(ring) : e.seq <= cursor
    /\ session = "over" => ring = <<>>
    /\ answer # Nothing => \A e \in Coming(wire) : Precede(answer.page, e)
    /\ \A e \in early, d \in Coming(wire) : e.seq < d.seq
    /\ session # "over" =>
         /\ \A e \in Coming(wire) \union early : e.seq <= cursor
         /\ \A a \in Held(wire, answer) :
              a.page.cursor <= cursor /\ \A e \in a.page.events : e.seq <= cursor
         /\ since <= cursor /\ highest <= cursor

\* While the script is not through one request is under way: not served, its answer on its
\* way, or its answer read.
UnderRequest ==
    /\ outcome = Nothing =>
         /\ OneAnswer(wire)
         /\ asked => answer = Nothing /\ Answering(wire) = {}
         /\ answer # Nothing => Answering(wire) = {}
         /\ asked \/ Held(wire, answer) # {} <=> step \in 1..Len(S!Script)
    /\ answer # Nothing => step \in 1..Len(S!Script)
    /\ step = 0 => outcome = Nothing /\ wire = <<>> /\ ~subscribed /\ ~timer

\* What is due to a client that waits for an event is what it keeps, is sent and is
\* answered; when it merely waits, what it is sent.
Wanted(T) == {e.seq : e \in {x \in T : x.kind = "wanted"}}
Paged(w, a) == UNION {b.page.events : b \in Held(w, a)}
Owed ==
    role \in S!EventRoles =>
        /\ outcome = Nothing =>
             /\ ~S!AtRequest("since") => Paged(wire, answer) = {}
             /\ ~S!Waiting => due = Wanted(early \union Coming(wire) \union Paged(wire, answer))
             /\ S!Waiting =>
                  due = Wanted(Coming(wire)) /\ \A e \in Coming(wire) : e.seq > highest
        /\ outcome # Nothing => answer = Nothing

\* A claim after the tool subscribed is on its way to it.
ClaimComing ==
    role = "session tool" /\ outcome = Nothing =>
        /\ step >= 2 => subscribed
        /\ step = 1 => asked \/ subscribed
        /\ session = "live" /\ step >= 2 =>
             \/ Coming(wire) # {}
             \/ step = 2 /\ (asked \/ \E a \in Held(wire, answer) : a.ok)

\* Nothing retained is between what the pager was given and what it is answered.
PageFollows ==
    role = "pager" /\ outcome = Nothing =>
        \A a \in Held(wire, answer), e \in S!ToSet(ring) :
            a.ok /\ e.kind \in S!AppKinds /\ since < e.seq /\ e.seq <= a.page.cursor
                => e \in a.page.events

StreamIInv ==
    /\ StreamTyped /\ Numbered /\ UnderRequest /\ Owed /\ ClaimComing /\ PageFollows
    /\ S!FirstDueWins /\ S!PagerSkipsNothing

LEMMA StreamConstants ==
    /\ RingSize \in Nat \ {0} /\ PageSize \in Nat \ {0} /\ MaxCursor \in Nat \ {0}
    /\ Nothing \notin {"event", "claimed", "timeout", "failed"}
    /\ Nothing \notin AnswerLines
    /\ Roles \subseteq S!EventRoles \union S!SessionRoles \union {"pager", "events command"}
  BY ClientsConstants DEF S!StreamAssumption, AnswerLines, S!Events, S!Numbers

LEMMA StreamSizes ==
    /\ RingSize \in Nat /\ RingSize >= 1 /\ PageSize \in Nat /\ PageSize >= 1
    /\ MaxCursor \in Nat /\ MaxCursor >= 1
<1>1. RingSize \in Nat \ {0} /\ PageSize \in Nat \ {0} /\ MaxCursor \in Nat \ {0}
  BY StreamConstants, Zenon
<1> QED  BY <1>1

LEMMA EventSeq ==
    /\ \A e \in S!Events : e.seq \in Nat /\ 1 <= e.seq /\ e.seq <= MaxCursor + 1 /\ e.seq \in S!Numbers
    /\ \A n \in S!Numbers : n \in Nat /\ n <= MaxCursor + 1
    /\ \A n \in 0..MaxCursor + 1 : n \in S!Numbers
<1>1. \A e \in S!Events : e.seq \in 1..MaxCursor + 1
  BY DEF S!Events
<1> QED  BY <1>1, StreamSizes DEF S!Numbers

LEMMA ToSetIs ==
    ASSUME NEW T, NEW q \in Seq(T)
    PROVE  S!ToSet(q) = {q[i] : i \in 1..Len(q)} /\ S!ToSet(q) \subseteq T
  BY DEF S!ToSet

LEMMA Appended ==
    ASSUME NEW T, NEW q \in Seq(T), NEW x \in T
    PROVE  /\ Append(q, x) \in Seq(T) /\ Len(Append(q, x)) = Len(q) + 1
           /\ Append(q, x)[Len(q) + 1] = x
           /\ \A i \in 1..Len(q) : Append(q, x)[i] = q[i]
           /\ S!ToSet(Append(q, x)) = S!ToSet(q) \union {x}
<1> DEFINE s == Append(q, x)
<1>1. /\ s \in Seq(T) /\ Len(s) = Len(q) + 1 /\ s[Len(q) + 1] = x
      /\ \A i \in 1..Len(q) : s[i] = q[i]
  BY AppendProperties
<1>2. Len(q) \in Nat /\ DOMAIN q = 1..Len(q) /\ DOMAIN s = 1..Len(s)
  BY <1>1
<1> HIDE DEF s
<1>3. 1..Len(s) = (1..Len(q)) \union {Len(q) + 1}
  BY <1>1, <1>2
<1>4. S!ToSet(s) = S!ToSet(q) \union {x}
  BY <1>1, <1>2, <1>3 DEF S!ToSet
<1> QED  BY <1>1, <1>4 DEF s

LEMMA Taken ==
    ASSUME NEW T, NEW q \in Seq(T), q # <<>>
    PROVE  /\ Head(q) \in T /\ Tail(q) \in Seq(T) /\ Len(q) = Len(Tail(q)) + 1
           /\ Head(q) = q[1]
           /\ \A i \in 1..Len(Tail(q)) : Tail(q)[i] = q[i + 1]
           /\ S!ToSet(q) = S!ToSet(Tail(q)) \union {Head(q)}
<1> DEFINE t == Tail(q)
<1>1. /\ Head(q) \in T /\ t \in Seq(T) /\ Len(t) = Len(q) - 1 /\ Head(q) = q[1]
      /\ \A i \in 1..Len(t) : t[i] = q[i + 1]
  BY HeadTailProperties
<1>2. Len(q) \in Nat \ {0} /\ DOMAIN q = 1..Len(q) /\ DOMAIN t = 1..Len(t)
  BY <1>1, EmptySeq
<1> HIDE DEF t
<1>3. \A i \in 1..Len(q) : i = 1 \/ (i - 1 \in 1..Len(t) /\ (i - 1) + 1 = i)
  BY <1>1, <1>2
<1>4. 1 \in 1..Len(q) /\ \A i \in 1..Len(t) : i + 1 \in 1..Len(q)
  BY <1>1, <1>2
<1>5. ASSUME NEW y \in S!ToSet(q) PROVE y \in S!ToSet(t) \union {Head(q)}
  <2>1. PICK i \in 1..Len(q) : y = q[i]
    BY <1>2, <1>5 DEF S!ToSet
  <2>2. CASE i = 1
    BY <1>1, <2>1, <2>2
  <2>3. CASE i - 1 \in 1..Len(t)
    <3>1. t[i - 1] = q[i]
      BY <1>1, <1>3, <2>3
    <3> QED  BY <1>2, <2>1, <2>3, <3>1 DEF S!ToSet
  <2> QED  BY <1>3, <2>2, <2>3
<1>6. ASSUME NEW y \in S!ToSet(t) \union {Head(q)} PROVE y \in S!ToSet(q)
  BY <1>1, <1>2, <1>4, <1>6 DEF S!ToSet
<1>7. S!ToSet(q) = S!ToSet(t) \union {Head(q)}
  BY <1>5, <1>6
<1>8. Len(q) = Len(t) + 1
  BY <1>1, <1>2
<1> QED  BY <1>1, <1>7, <1>8 DEF t

LEMMA LineAppended ==
    ASSUME NEW w \in Seq(StreamLines), NEW l \in StreamLines
    PROVE  /\ LineInOrder(w) /\ (l.is = "event" => \A x \in S!ToSet(w) : Before(x, l.event))
                => LineInOrder(Append(w, l))
           /\ OneAnswer(w) /\ (l.is = "answer" => Answering(w) = {}) => OneAnswer(Append(w, l))
           /\ Coming(Append(w, l)) = Coming(w) \union (IF l.is = "event" THEN {l.event} ELSE {})
           /\ Answering(Append(w, l)) = Answering(w) \union (IF l.is = "answer" THEN {l} ELSE {})
<1> DEFINE s == Append(w, l)
<1>1. /\ s \in Seq(StreamLines) /\ Len(s) = Len(w) + 1 /\ s[Len(w) + 1] = l
      /\ \A i \in 1..Len(w) : s[i] = w[i]
      /\ S!ToSet(s) = S!ToSet(w) \union {l}
  BY Appended
<1>2. Len(w) \in Nat /\ \A i \in 1..Len(w) : w[i] \in S!ToSet(w)
  BY ToSetIs
<1> HIDE DEF s
<1>3. /\ \A i \in 1..Len(s) : i \in 1..Len(w) \/ i = Len(w) + 1
      /\ \A i, j \in 1..Len(s) : i < j => i \in 1..Len(w)
  BY <1>1, <1>2
<1>4. LineInOrder(w) /\ (l.is = "event" => \A x \in S!ToSet(w) : Before(x, l.event))
        => LineInOrder(s)
  BY <1>1, <1>2, <1>3 DEF LineInOrder
<1>5. OneAnswer(w) /\ (l.is = "answer" => Answering(w) = {}) => OneAnswer(s)
  BY <1>1, <1>2, <1>3 DEF OneAnswer, Answering
<1>6. Coming(s) = Coming(w) \union (IF l.is = "event" THEN {l.event} ELSE {})
  BY <1>1 DEF Coming
<1>7. Answering(s) = Answering(w) \union (IF l.is = "answer" THEN {l} ELSE {})
  BY <1>1 DEF Answering
<1> QED  BY <1>4, <1>5, <1>6, <1>7 DEF s

LEMMA LineTaken ==
    ASSUME NEW w \in Seq(StreamLines), w # <<>>
    PROVE  /\ LineInOrder(w) => /\ LineInOrder(Tail(w))
                                /\ \A e \in Coming(Tail(w)) : Before(Head(w), e)
           /\ OneAnswer(w) => /\ OneAnswer(Tail(w))
                              /\ Head(w).is = "answer" => Answering(Tail(w)) = {}
           /\ Coming(w) = Coming(Tail(w)) \union (IF Head(w).is = "event" THEN {Head(w).event} ELSE {})
           /\ Answering(w)
                = Answering(Tail(w)) \union (IF Head(w).is = "answer" THEN {Head(w)} ELSE {})
<1> DEFINE t == Tail(w)  h == Head(w)
<1>1. /\ h \in StreamLines /\ t \in Seq(StreamLines) /\ Len(w) = Len(t) + 1 /\ h = w[1]
      /\ \A i \in 1..Len(t) : t[i] = w[i + 1]
      /\ S!ToSet(w) = S!ToSet(t) \union {h}
  BY Taken
<1> HIDE DEF t, h
<1>2. Len(t) \in Nat /\ S!ToSet(t) = {t[i] : i \in 1..Len(t)}
  BY <1>1, ToSetIs
<1>3. /\ 1 \in 1..Len(w)
      /\ \A i \in 1..Len(t) : i + 1 \in 1..Len(w) /\ 1 < i + 1 /\ i + 1 # 1
      /\ \A i, j \in 1..Len(t) : (i < j => i + 1 < j + 1) /\ (i + 1 = j + 1 => i = j)
  BY <1>1, <1>2
<1>4. ASSUME LineInOrder(w) PROVE LineInOrder(t) /\ \A e \in Coming(t) : Before(h, e)
  <2>1. LineInOrder(t)
    BY <1>1, <1>2, <1>3, <1>4 DEF LineInOrder
  <2>2. ASSUME NEW e \in Coming(t) PROVE Before(h, e)
    <3>1. PICK i \in 1..Len(t) : t[i].is = "event" /\ t[i].event = e
      BY <1>2 DEF Coming
    <3> QED  BY <1>1, <1>3, <1>4, <3>1 DEF LineInOrder
  <2> QED  BY <2>1, <2>2
<1>5. ASSUME OneAnswer(w) PROVE OneAnswer(t) /\ (h.is = "answer" => Answering(t) = {})
  <2>1. OneAnswer(t)
    BY <1>1, <1>2, <1>3, <1>5 DEF OneAnswer
  <2>2. ASSUME h.is = "answer", NEW l \in Answering(t) PROVE FALSE
    <3>1. PICK i \in 1..Len(t) : t[i] = l /\ l.is = "answer"
      BY <1>2 DEF Answering
    <3> QED  BY <1>1, <1>3, <1>5, <2>2, <3>1 DEF OneAnswer
  <2> QED  BY <2>1, <2>2
<1>6. Coming(w) = Coming(t) \union (IF h.is = "event" THEN {h.event} ELSE {})
  BY <1>1 DEF Coming
<1>7. Answering(w) = Answering(t) \union (IF h.is = "answer" THEN {h} ELSE {})
  BY <1>1 DEF Answering
<1> QED  BY <1>4, <1>5, <1>6, <1>7 DEF t, h

LEMMA LineEmpty ==
    /\ LineInOrder(<<>>) /\ OneAnswer(<<>>) /\ RingInOrder(<<>>)
    /\ Coming(<<>>) = {} /\ Answering(<<>>) = {} /\ S!ToSet(<<>>) = {}
<1>1. Len(<<>>) = 0 /\ DOMAIN <<>> = {}
  OBVIOUS
<1>2. S!ToSet(<<>>) = {}
  BY DEF S!ToSet
<1> QED  BY <1>1, <1>2 DEF LineInOrder, OneAnswer, RingInOrder, Coming, Answering

LEMMA LineSets ==
    ASSUME NEW w \in Seq(StreamLines)
    PROVE  /\ Coming(w) \subseteq S!Events /\ Answering(w) \subseteq AnswerLines
           /\ \A x \in S!ToSet(w) : \/ x.is = "event" /\ x.event \in Coming(w)
                                    \/ x.is = "answer" /\ x \in Answering(w)
           /\ \A x \in Coming(w) : [is |-> "event", event |-> x] \in S!ToSet(w)
<1>1. S!ToSet(w) \subseteq StreamLines
  BY ToSetIs
<1> QED  BY <1>1 DEF Coming, Answering, StreamLines, EventLines, AnswerLines


\* Of some events one is the oldest, and one the newest.
LEMMA OldestIs ==
    ASSUME NEW T \in SUBSET S!Events, T # {}
    PROVE  S!Oldest(T) \in T /\ \A d \in T : S!Oldest(T).seq <= d.seq
<1> DEFINE N == {e.seq : e \in T}
<1>1. N \in SUBSET Nat /\ N # {}
  BY EventSeq
<1>2. PICK m \in N : \A j \in N : m <= j
  <2> HIDE DEF N
  <2> QED  BY <1>1, LeastIsIn
<1>3. \E e \in T : \A d \in T : e.seq <= d.seq
  BY <1>2
<1> QED  BY <1>3 DEF S!Oldest

LEMMA NewestIs ==
    ASSUME NEW T \in SUBSET S!Events, T # {}
    PROVE  S!Newest(T) \in T /\ \A d \in T : d.seq <= S!Newest(T).seq
<1> DEFINE N == {MaxCursor + 1 - e.seq : e \in T}
<1>1. \A e \in T : e.seq \in Nat /\ e.seq <= MaxCursor + 1 /\ MaxCursor + 1 - e.seq \in Nat
  BY EventSeq, StreamSizes
<1>2. N \in SUBSET Nat /\ N # {}
  BY <1>1
<1>3. PICK m \in N : \A j \in N : m <= j
  <2> HIDE DEF N
  <2> QED  BY <1>2, LeastIsIn
<1>4. PICK e \in T : m = MaxCursor + 1 - e.seq
  BY <1>3
<1>5. ASSUME NEW d \in T PROVE d.seq <= e.seq
  <2>1. m <= MaxCursor + 1 - d.seq
    BY <1>3
  <2> QED  BY <1>1, <1>4, <2>1, StreamSizes
<1>6. \E x \in T : \A d \in T : d.seq <= x.seq
  BY <1>5
<1> QED  BY <1>6 DEF S!Newest

LEMMA LeastIsMin ==
    ASSUME NEW N \in SUBSET Nat, NEW m \in N, \A j \in N : m <= j
    PROVE  S!Min(N) = m
<1>1. \A k \in N : (\A j \in N : k <= j) => k = m
  BY SMT
<1> QED  BY <1>1 DEF S!Min

\* What is retained is finite, and so is a part of it.
LEMMA RingFinite ==
    ASSUME StreamTyped, NEW T, T \subseteq S!ToSet(ring)
    PROVE  IsFiniteSet(T) /\ Cardinality(T) \in Nat
<1>1. ring \in Seq(S!Events) /\ Len(ring) \in Nat
  BY DEF StreamTyped
<1> DEFINE D == 1..Len(ring)  At(i) == ring[i]
<1>2. IsFiniteSet(D)
  BY <1>1, FS_Interval
<1>3. IsFiniteSet(S!ToSet(ring))
  <2>1. S!ToSet(ring) = {At(i) : i \in D}
    BY <1>1, ToSetIs
  <2> DEFINE f == [i \in D |-> At(i)]
  <2>2. S!ToSet(ring) = {f[i] : i \in D}
    BY <2>1
  <2>3. f \in Surjection(D, S!ToSet(ring))
    BY <2>2 DEF Surjection
  <2> QED  BY <1>2, <2>3, FS_Surjection
<1> QED  BY <1>3, FS_Subset, FS_CardinalityType

LEMMA SameCardinality == \A T : S!Cardinality(T) = Cardinality(T)
  BY DEF S!Cardinality, Cardinality, S!IsFiniteSet, IsFiniteSet

\* A page of the oldest reaches back as far as there is anything.
LEMMA PageIsOldest ==
    ASSUME StreamTyped, NEW T, T \subseteq S!ToSet(ring)
    PROVE  /\ S!OldestFirst(T, PageSize) \subseteq T
           /\ T # {} => S!OldestFirst(T, PageSize) # {}
           /\ \A e \in T, n \in S!OldestFirst(T, PageSize) :
                e.seq <= n.seq => e \in S!OldestFirst(T, PageSize)
<1> DEFINE Older(e) == {d \in T : d.seq < e.seq}
<1>0. ring \in Seq(S!Events)
  BY DEF StreamTyped
<1>1. T \in SUBSET S!Events /\ \A e \in T : e.seq \in Nat
  BY <1>0, ToSetIs, EventSeq
<1>2. S!OldestFirst(T, PageSize) = {e \in T : Cardinality(Older(e)) < PageSize}
  BY SameCardinality DEF S!OldestFirst
<1>3. ASSUME T # {} PROVE S!Oldest(T) \in S!OldestFirst(T, PageSize)
  <2>1. Older(S!Oldest(T)) = {}
    BY <1>1, <1>3, OldestIs
  <2>2. Cardinality(Older(S!Oldest(T))) = 0
    BY <2>1, FS_EmptySet
  <2>3. S!Oldest(T) \in T /\ 0 < PageSize
    BY <1>1, <1>3, OldestIs, StreamSizes
  <2> QED  BY <1>2, <2>2, <2>3
<1>4. ASSUME NEW e \in T, NEW n \in S!OldestFirst(T, PageSize), e.seq <= n.seq
      PROVE  e \in S!OldestFirst(T, PageSize)
  <2>1. n \in T /\ Cardinality(Older(n)) < PageSize
    BY <1>2
  <2>2. Older(e) \subseteq Older(n)
    BY <1>1, <1>4, <2>1
  <2>3. IsFiniteSet(Older(n)) /\ Cardinality(Older(n)) \in Nat /\ Cardinality(Older(e)) \in Nat
    BY RingFinite
  <2>4. Cardinality(Older(e)) <= Cardinality(Older(n))
    BY <2>2, <2>3, FS_Subset
  <2>5. Cardinality(Older(e)) < PageSize
    <3> HIDE DEF Older
    <3> QED  BY <2>1, <2>3, <2>4, StreamSizes
  <2> QED  BY <1>2, <2>5
<1> QED  BY <1>2, <1>3, <1>4

\* The ring after one more event.
LEMMA RetainedIs ==
    ASSUME StreamTyped, RingInOrder(ring), NEW x \in S!Events, \A d \in S!ToSet(ring) : d.seq < x.seq
    PROVE  /\ S!Retained(x) \in Seq(S!Events) /\ Len(S!Retained(x)) <= RingSize
           /\ RingInOrder(S!Retained(x))
           /\ S!ToSet(S!Retained(x)) \subseteq S!ToSet(ring) \union {x}
<1> DEFINE all == Append(ring, x)
<1>1. /\ ring \in Seq(S!Events) /\ Len(ring) \in Nat /\ Len(ring) <= RingSize
      /\ RingSize \in Nat /\ RingSize >= 1
  BY StreamSizes DEF StreamTyped
<1>2. /\ all \in Seq(S!Events) /\ Len(all) = Len(ring) + 1 /\ all[Len(ring) + 1] = x
      /\ \A i \in 1..Len(ring) : all[i] = ring[i]
      /\ S!ToSet(all) = S!ToSet(ring) \union {x}
  BY <1>1, Appended
<1>3. \A i \in 1..Len(ring) : ring[i] \in S!ToSet(ring)
  BY <1>1, ToSetIs
<1>4. S!Retained(x) = IF x.kind = "tick" THEN ring ELSE IF Len(all) > RingSize THEN Tail(all) ELSE all
  BY DEF S!Retained
<1> HIDE DEF all
<1>5. RingInOrder(all)
  <2> SUFFICES ASSUME NEW i \in 1..Len(all), NEW k \in 1..Len(all), i < k
               PROVE  all[i].seq < all[k].seq
    BY DEF RingInOrder
  <2>1. i \in 1..Len(ring) /\ (k \in 1..Len(ring) \/ k = Len(ring) + 1)
    BY <1>1, <1>2
  <2> QED  BY <1>2, <1>3, <2>1 DEF RingInOrder
<1>6. CASE x.kind = "tick"
  BY <1>1, <1>4, <1>6
<1>7. CASE x.kind # "tick" /\ Len(all) <= RingSize
  BY <1>1, <1>2, <1>4, <1>5, <1>7
<1>8. CASE x.kind # "tick" /\ Len(all) > RingSize
  <2> DEFINE t == Tail(all)
  <2>1. all # <<>>
    BY <1>1, <1>2
  <2>2. /\ t \in Seq(S!Events) /\ Len(all) = Len(t) + 1
        /\ \A i \in 1..Len(t) : t[i] = all[i + 1]
        /\ S!ToSet(t) \subseteq S!ToSet(all)
    BY <1>2, <2>1, Taken
  <2>3. S!Retained(x) = t
    BY <1>4, <1>8
  <2> HIDE DEF t
  <2>4. Len(t) = Len(ring) /\ Len(t) \in Nat
    BY <1>1, <1>2, <2>2
  <2>5. RingInOrder(t)
    <3>1. \A i, k \in 1..Len(t) : i < k => i + 1 \in 1..Len(all) /\ k + 1 \in 1..Len(all) /\ i + 1 < k + 1
      BY <2>2, <2>4
    <3> QED  BY <1>5, <2>2, <3>1 DEF RingInOrder
  <2> QED  BY <1>1, <1>2, <2>2, <2>3, <2>4, <2>5
<1> QED  BY <1>1, <1>2, <1>6, <1>7, <1>8

LEMMA ScriptLength == role \in Roles => Len(S!Script) \in 1..3
<1>1. role \in Roles => Len(S!Script) \in {1, 2, 3}
  BY StreamConstants DEF S!Script, S!EventRoles, S!SessionRoles
<1> QED  BY <1>1

\* The scripts, by where each request comes.
LEMMA Scripts ==
    ASSUME role \in Roles, step \in Nat
    PROVE  /\ Len(S!Script) \in 1..3
           /\ role \in S!EventRoles =>
                /\ role \notin S!SessionRoles /\ role # "pager" /\ role # "events command"
                /\ S!AtRequest("since") <=> step = Len(S!Script)
           /\ role \in S!SessionRoles =>
                /\ Len(S!Script) = 2 /\ ~S!AtRequest("since")
                /\ role # "pager" /\ role # "events command"
           /\ role = "session tool" =>
                /\ Len(S!Script) = 2
                /\ S!AtRequest("describe") <=> step = 2
                /\ S!AtRequest("subscribe") <=> step = 1
           /\ role = "pager" =>
                /\ Len(S!Script) = 1 /\ ~S!AtRequest("describe") /\ ~S!AtRequest("subscribe")
           /\ role = "events command" => ~S!AtRequest("since") /\ ~S!AtRequest("describe")
<1>1. role \in {"event tool", "event client", "session tool", "session client", "pager", "events command"}
  BY StreamConstants DEF S!EventRoles, S!SessionRoles
<1>2. CASE role = "event tool"
  <2>1. Len(S!Script) = 3 /\ S!Script[1] = "describe" /\ S!Script[2] = "subscribe" /\ S!Script[3] = "since"
    BY <1>2 DEF S!Script
  <2>2. /\ S!AtRequest("describe") <=> step = 1
        /\ S!AtRequest("subscribe") <=> step = 2
        /\ S!AtRequest("since") <=> step = 3
    BY <2>1 DEF S!AtRequest
  <2>3. Len(S!Script) \in 1..3
    BY <2>1
  <2> QED  BY <1>2, <2>1, <2>2, <2>3 DEF S!EventRoles, S!SessionRoles
<1>3. CASE role = "event client"
  <2>1. Len(S!Script) = 2 /\ S!Script[1] = "subscribe" /\ S!Script[2] = "since"
    BY <1>3 DEF S!Script
  <2>2. /\ S!AtRequest("describe") <=> FALSE
        /\ S!AtRequest("subscribe") <=> step = 1
        /\ S!AtRequest("since") <=> step = 2
    BY <2>1 DEF S!AtRequest
  <2>3. Len(S!Script) \in 1..3
    BY <2>1
  <2> QED  BY <1>3, <2>1, <2>2, <2>3 DEF S!EventRoles, S!SessionRoles
<1>4. CASE role = "session tool"
  <2>1. Len(S!Script) = 2 /\ S!Script[1] = "subscribe" /\ S!Script[2] = "describe"
    BY <1>4 DEF S!Script
  <2>2. /\ S!AtRequest("describe") <=> step = 2
        /\ S!AtRequest("subscribe") <=> step = 1
        /\ S!AtRequest("since") <=> FALSE
    BY <2>1 DEF S!AtRequest
  <2>3. Len(S!Script) \in 1..3
    BY <2>1
  <2> QED  BY <1>4, <2>1, <2>2, <2>3 DEF S!EventRoles, S!SessionRoles
<1>5. CASE role = "session client"
  <2>1. Len(S!Script) = 2 /\ S!Script[1] = "describe" /\ S!Script[2] = "subscribe"
    BY <1>5 DEF S!Script
  <2>2. /\ S!AtRequest("describe") <=> step = 1
        /\ S!AtRequest("subscribe") <=> step = 2
        /\ S!AtRequest("since") <=> FALSE
    BY <2>1 DEF S!AtRequest
  <2>3. Len(S!Script) \in 1..3
    BY <2>1
  <2> QED  BY <1>5, <2>1, <2>2, <2>3 DEF S!EventRoles, S!SessionRoles
<1>6. CASE role = "pager"
  <2>1. Len(S!Script) = 1 /\ S!Script[1] = "since"
    BY <1>6 DEF S!Script
  <2>2. /\ S!AtRequest("describe") <=> FALSE
        /\ S!AtRequest("subscribe") <=> FALSE
        /\ S!AtRequest("since") <=> step = 1
    BY <2>1 DEF S!AtRequest
  <2>3. Len(S!Script) \in 1..3
    BY <2>1
  <2> QED  BY <1>6, <2>1, <2>2, <2>3 DEF S!EventRoles, S!SessionRoles
<1>7. CASE role = "events command"
  <2>1. Len(S!Script) = 1 /\ S!Script[1] = "subscribe"
    BY <1>7 DEF S!Script
  <2>2. /\ S!AtRequest("describe") <=> FALSE
        /\ S!AtRequest("subscribe") <=> step = 1
        /\ S!AtRequest("since") <=> FALSE
    BY <2>1 DEF S!AtRequest
  <2>3. Len(S!Script) \in 1..3
    BY <2>1
  <2> QED  BY <1>7, <2>1, <2>2, <2>3 DEF S!EventRoles, S!SessionRoles
<1> QED  BY <1>1, <1>2, <1>3, <1>4, <1>5, <1>6, <1>7

LEMMA WantedUnion ==
    /\ \A T, U : Wanted(T \union U) = Wanted(T) \union Wanted(U)
    /\ \A T, U, X : Wanted(T \union U \union X) = Wanted(T) \union Wanted(U) \union Wanted(X)
    /\ Wanted({}) = {}
    /\ \A x : Wanted({x}) = IF x.kind = "wanted" THEN {x.seq} ELSE {}
  BY DEF Wanted

LEMMA ScriptKept ==
    ASSUME role' = role
    PROVE  S!Script' = S!Script
  BY DEF S!Script

LEMMA StreamInitIInv == S!StreamInit => StreamIInv
<1> SUFFICES ASSUME S!StreamInit PROVE StreamIInv
  OBVIOUS
<1> USE DEF S!StreamInit
<1>1. Coming(wire) = {} /\ Answering(wire) = {} /\ Held(wire, answer) = {} /\ Paged(wire, answer) = {}
  BY LineEmpty DEF Held, Paged
<1>2. S!ToSet(ring) = {} /\ RingInOrder(ring) /\ LineInOrder(wire) /\ OneAnswer(wire)
  BY LineEmpty
<1>3. Len(S!Script) \in 1..3
  BY ScriptLength
<1>4. StreamTyped
  <2>1. ring \in Seq(S!Events) /\ wire \in Seq(StreamLines) /\ Len(ring) = 0
    OBVIOUS
  <2>2. 0 \in S!Numbers /\ Len(ring) <= RingSize /\ cursor \in 0..MaxCursor /\ step \in 0..Len(S!Script) + 1
    BY <1>3, <2>1, StreamSizes, EventSeq
  <2> QED  BY <2>1, <2>2 DEF StreamTyped
<1>5. Numbered
  BY <1>1, <1>2, StreamSizes DEF Numbered
<1>6. UnderRequest
  BY <1>1, <1>2, <1>3 DEF UnderRequest
<1>7. Owed
  BY <1>1, <1>3, WantedUnion DEF Owed, S!Waiting
<1>8. ClaimComing /\ PageFollows
  BY <1>1 DEF ClaimComing, PageFollows
<1>9. S!FirstDueWins /\ S!PagerSkipsNothing
  BY <1>2, StreamConstants DEF S!FirstDueWins, S!PagerSkipsNothing
<1> QED  BY <1>4, <1>5, <1>6, <1>7, <1>8, <1>9 DEF StreamIInv

\* An event that is sent follows all that is on its way.
LEMMA EventSent ==
    ASSUME StreamIInv, session # "over", NEW x \in S!Events, x.seq = cursor + 1
    PROVE  LET w == Append(wire, [is |-> "event", event |-> x]) IN
           /\ w \in Seq(StreamLines) /\ LineInOrder(w)
           /\ OneAnswer(wire) => OneAnswer(w)
           /\ Coming(w) = Coming(wire) \union {x} /\ Answering(w) = Answering(wire)
<1> DEFINE l == [is |-> "event", event |-> x]
<1>1. wire \in Seq(StreamLines) /\ cursor \in Nat
  BY StreamSizes DEF StreamIInv, StreamTyped
<1>2. l \in StreamLines /\ l.is = "event" /\ l.event = x
  BY DEF StreamLines, EventLines
<1>3. LineInOrder(wire)
  BY DEF StreamIInv, Numbered
<1> HIDE DEF l
<1>4. ASSUME NEW y \in S!ToSet(wire) PROVE Before(y, x)
  <2>1. CASE y.is = "event" /\ y.event \in Coming(wire)
    <3>1. y.event.seq <= cursor /\ y.event.seq \in Nat
      BY <1>1, <2>1, LineSets, EventSeq DEF StreamIInv, Numbered
    <3> QED  BY <1>1, <2>1, <3>1 DEF Before
  <2>2. CASE y.is = "answer" /\ y \in Answering(wire)
    <3>1. y \in Held(wire, answer) /\ y \in AnswerLines
      BY <1>1, <2>2, LineSets DEF Held
    <3>2. y.page.cursor <= cursor /\ \A d \in y.page.events : d.seq <= cursor
      BY <3>1 DEF StreamIInv, Numbered
    <3>3. y.page.cursor \in Nat /\ \A d \in y.page.events : d.seq \in Nat
      BY <3>1, EventSeq DEF AnswerLines
    <3> QED  BY <1>1, <2>2, <3>2, <3>3 DEF Before, Precede
  <2> QED  BY <1>1, <2>1, <2>2, LineSets
<1>5. /\ LineInOrder(Append(wire, l))
      /\ OneAnswer(wire) => OneAnswer(Append(wire, l))
      /\ Coming(Append(wire, l)) = Coming(wire) \union {x} /\ Answering(Append(wire, l)) = Answering(wire)
  BY <1>1, <1>2, <1>3, <1>4, LineAppended
<1>6. Append(wire, l) \in Seq(StreamLines)
  BY <1>1, <1>2, Appended
<1> QED  BY <1>5, <1>6 DEF l

LEMMA EmitIInv ==
    ASSUME StreamIInv, S!Undisturbed, session # "over", session' = "live",
           NEW k \in S!Kinds \union {"claimed"}, session = "pending" => k = "claimed",
           S!Emit(k), subscribed' = subscribed, asked' = asked, role' = role, since' = since, step' = step,
           answer' = answer, midChunk' = midChunk, early' = early, highest' = highest,
           timer' = timer, outcome' = outcome, got' = got
    PROVE  StreamIInv'
<1> DEFINE x == [seq |-> cursor + 1, kind |-> k]
           sent == subscribed /\ S!Hears(k)
<1> USE DEF StreamIInv
<1>1. /\ cursor \in Nat /\ cursor < MaxCursor /\ cursor' = cursor + 1 /\ MaxCursor \in Nat
      /\ ring \in Seq(S!Events) /\ wire \in Seq(StreamLines)
  <2>1. cursor < MaxCursor /\ cursor' = cursor + 1
    BY DEF S!Emit
  <2> QED  BY <2>1, StreamSizes DEF StreamTyped
<1>2. x \in S!Events /\ x.seq = cursor + 1 /\ x.kind = k
  BY <1>1 DEF S!Events
<1>3. /\ wire' = IF sent THEN Append(wire, [is |-> "event", event |-> x]) ELSE wire
      /\ ring' = S!Retained(x)
      /\ due' = IF subscribed /\ (role = "events command" \/ k = "wanted") THEN due \union {cursor + 1} ELSE due
  BY DEF S!Emit
<1>4. /\ outcome = Nothing /\ answer = Nothing /\ outcome' = Nothing /\ answer' = Nothing
      /\ subscribed' = subscribed /\ asked' = asked /\ role' = role /\ since' = since /\ step' = step
      /\ midChunk' = midChunk /\ early' = early /\ highest' = highest /\ timer' = timer /\ got' = got
  BY DEF S!Undisturbed
<1>5. S!Script' = S!Script
  BY <1>4, ScriptKept
<1> HIDE DEF x
<1>6. /\ wire' \in Seq(StreamLines) /\ LineInOrder(wire') /\ (OneAnswer(wire) => OneAnswer(wire'))
      /\ Coming(wire') = Coming(wire) \union (IF sent THEN {x} ELSE {})
      /\ Answering(wire') = Answering(wire)
  <2>1. CASE sent
    BY <1>2, <1>3, <2>1, EventSent
  <2>2. CASE ~sent
    BY <1>1, <1>3, <2>2 DEF Numbered
  <2> QED  BY <2>1, <2>2
<1> HIDE DEF sent
<1>7. Held(wire', answer') = Held(wire, answer) /\ Paged(wire', answer') = Paged(wire, answer)
  BY <1>4, <1>6 DEF Held, Paged
<1>8. \A d \in S!ToSet(ring) : d.seq <= cursor /\ d.seq \in Nat
  BY <1>1, ToSetIs, EventSeq DEF Numbered
<1>9. /\ ring' \in Seq(S!Events) /\ Len(ring') <= RingSize /\ RingInOrder(ring')
      /\ S!ToSet(ring') \subseteq S!ToSet(ring) \union {x}
  <2>1. \A d \in S!ToSet(ring) : d.seq < x.seq
    BY <1>1, <1>2, <1>8
  <2>2. StreamTyped /\ RingInOrder(ring)
    BY DEF Numbered
  <2> HIDE DEF StreamIInv
  <2> QED  BY <1>2, <1>3, <2>1, <2>2, RetainedIs
<1>10. StreamTyped'
  <2>1. cursor' \in 0..MaxCursor
    BY <1>1
  <2>2. due' \subseteq S!Numbers
    BY <1>1, <1>2, <1>3, EventSeq DEF StreamTyped
  <2> QED  BY <1>4, <1>5, <1>6, <1>9, <2>1, <2>2 DEF StreamTyped
<1>11. Numbered'
  <2>1. \A e \in S!ToSet(ring') : e.seq <= cursor'
    BY <1>1, <1>2, <1>8, <1>9
  <2>2. \A e \in Coming(wire) \union early : e.seq <= cursor /\ e.seq \in Nat
    BY <1>1, LineSets, EventSeq DEF Numbered, StreamTyped
  <2>3. \A e \in Coming(wire') \union early : e.seq <= cursor'
    BY <1>1, <1>2, <1>6, <2>2
  <2>4. \A e \in early, d \in Coming(wire') : e.seq < d.seq
    BY <1>1, <1>2, <1>6, <2>2 DEF Numbered
  <2>5. \A a \in Held(wire, answer) : a.page.cursor <= cursor' /\ \A e \in a.page.events : e.seq <= cursor'
    <3>1. \A a \in Held(wire, answer) : a.page.cursor \in Nat /\ \A e \in a.page.events : e.seq \in Nat
      BY <1>1, <1>4, LineSets, EventSeq DEF Held, AnswerLines
    <3> QED  BY <1>1, <3>1 DEF Numbered
  <2>6. since <= cursor' /\ highest <= cursor'
    BY <1>1, EventSeq DEF Numbered, StreamTyped
  <2> QED  BY <1>4, <1>6, <1>7, <1>9, <2>1, <2>3, <2>4, <2>5, <2>6 DEF Numbered
<1>12. UnderRequest'
  <2>1. /\ OneAnswer(wire)
        /\ asked => answer = Nothing /\ Answering(wire) = {}
        /\ asked \/ Held(wire, answer) # {} <=> step \in 1..Len(S!Script)
        /\ step = 0 => wire = <<>> /\ ~subscribed /\ ~timer
    BY <1>4 DEF UnderRequest
  <2>2. ~subscribed => wire' = wire
    BY <1>3 DEF sent
  <2> QED  BY <1>4, <1>5, <1>6, <1>7, <2>1, <2>2 DEF UnderRequest
<1>13. Owed'
  <2> SUFFICES ASSUME role \in S!EventRoles PROVE Owed'
    BY <1>4 DEF Owed
  <2>1. sent /\ k = "wanted" <=> subscribed /\ k = "wanted"
    BY DEF sent, S!Hears, S!AppKinds, S!EventRoles, S!SessionRoles
  <2>2. role # "events command" /\ (S!Waiting' <=> S!Waiting)
        /\ (S!AtRequest("since")' <=> S!AtRequest("since"))
    BY <1>4, <1>5 DEF S!EventRoles, S!Waiting, S!AtRequest
  <2>3. due' = due \union (IF sent /\ k = "wanted" THEN {x.seq} ELSE {})
    BY <1>2, <1>3, <2>1, <2>2
  <2>4. Wanted(Coming(wire')) = Wanted(Coming(wire)) \union (IF sent /\ k = "wanted" THEN {x.seq} ELSE {})
    <3>1. Wanted(Coming(wire')) = Wanted(Coming(wire)) \union Wanted(IF sent THEN {x} ELSE {})
      BY <1>6, WantedUnion
    <3>2. Wanted(IF sent THEN {x} ELSE {}) = IF sent /\ k = "wanted" THEN {x.seq} ELSE {}
      BY <1>2, WantedUnion
    <3> QED  BY <3>1, <3>2
  <2>5. \A T : Wanted(early \union Coming(wire') \union T)
                 = Wanted(early \union Coming(wire) \union T) \union (IF sent /\ k = "wanted" THEN {x.seq} ELSE {})
    <3> TAKE T
    <3>1. /\ Wanted(early \union Coming(wire') \union T)
               = Wanted(early) \union Wanted(Coming(wire')) \union Wanted(T)
          /\ Wanted(early \union Coming(wire) \union T)
               = Wanted(early) \union Wanted(Coming(wire)) \union Wanted(T)
      BY WantedUnion
    <3>2. \A W, X, Y, Z : (W \union (X \union Y)) \union Z = ((W \union X) \union Z) \union Y
      OBVIOUS
    <3> QED  BY <2>4, <3>1, <3>2, Zenon
  <2>6. S!Waiting => \A e \in Coming(wire') : e.seq > highest
    BY <1>1, <1>2, <1>4, <1>6, EventSeq DEF Owed, Numbered, StreamTyped
  <2> QED  BY <1>4, <1>7, <2>2, <2>3, <2>4, <2>5, <2>6 DEF Owed
<1>0. /\ (step' >= 2 <=> step >= 2) /\ (step' = 1 <=> step = 1) /\ (step' = 2 <=> step = 2)
      /\ (asked' <=> asked) /\ (subscribed' <=> subscribed)
  BY <1>4
<1>14. ClaimComing'
  <2> SUFFICES ASSUME role = "session tool" PROVE ClaimComing'
    BY <1>4 DEF ClaimComing
  <2>1. k = "claimed" => S!Hears(k)
    BY DEF S!Hears, S!EventRoles, S!SessionRoles
  <2>2. session = "pending" /\ subscribed => Coming(wire') # {}
    BY <1>6, <2>1 DEF sent
  <2>3. Coming(wire) \subseteq Coming(wire')
    BY <1>6
  <2>4. session \in {"pending", "live"}
    BY DEF StreamTyped
  <2>5. step >= 2 /\ Coming(wire') = {} =>
          session = "live" /\ step = 2 /\ (asked \/ \E a \in Held(wire, answer) : a.ok)
    BY <1>4, <2>2, <2>3, <2>4 DEF ClaimComing
  <2>6. (step >= 2 => subscribed) /\ (step = 1 => asked \/ subscribed)
    BY <1>4 DEF ClaimComing
  <2>7. (step' >= 2 => subscribed') /\ (step' = 1 => asked' \/ subscribed')
    BY <1>0, <2>6
  <2>8. step' >= 2 /\ Coming(wire') = {} =>
          step' = 2 /\ (asked' \/ \E a \in Held(wire', answer') : a.ok)
    BY <1>0, <1>7, <2>5
  <2> HIDE DEF StreamIInv
  <2> QED  BY <2>7, <2>8 DEF ClaimComing
<1>15. PageFollows'
  <2> SUFFICES ASSUME role = "pager",
                      NEW a \in Held(wire, answer), NEW e \in S!ToSet(ring'), a.ok, e.kind \in S!AppKinds,
                      since < e.seq, e.seq <= a.page.cursor
               PROVE  e \in a.page.events
    BY <1>4, <1>7 DEF PageFollows
  <2>1. a.page.cursor <= cursor /\ a.page.cursor \in Nat
    BY <1>1, <1>4, LineSets, EventSeq DEF Held, AnswerLines, Numbered
  <2>2. e # x
    BY <1>1, <1>2, <2>1
  <2> QED  BY <1>4, <1>9, <2>2 DEF PageFollows
<1>16. S!FirstDueWins' /\ S!PagerSkipsNothing'
  <2>1. since \in Nat /\ since <= cursor
    BY EventSeq DEF Numbered, StreamTyped
  <2>2. \A e \in S!ToSet(ring') : e.seq <= since => e \in S!ToSet(ring)
    BY <1>1, <1>2, <1>9, <2>1
  <2> QED  BY <1>4, <2>2, StreamConstants DEF S!FirstDueWins, S!PagerSkipsNothing
<1> QED  BY <1>10, <1>11, <1>12, <1>13, <1>14, <1>15, <1>16


LEMMA HappensIInv == \A k \in S!Kinds : StreamIInv /\ S!Happens(k) => StreamIInv'
<1> SUFFICES ASSUME NEW k \in S!Kinds, StreamIInv, S!Happens(k) PROVE StreamIInv'
  OBVIOUS
<1>1. S!Undisturbed /\ S!Emit(k) /\ session = "live" /\ session' = "live"
  BY DEF S!Happens
<1>2. /\ subscribed' = subscribed /\ asked' = asked /\ role' = role /\ since' = since
      /\ step' = step /\ answer' = answer /\ midChunk' = midChunk /\ early' = early
      /\ highest' = highest /\ timer' = timer /\ outcome' = outcome /\ got' = got
  BY DEF S!Happens, S!clientVars
<1> QED  BY <1>1, <1>2, EmitIInv

LEMMA ClaimedIInv == StreamIInv /\ S!Claimed => StreamIInv'
<1> SUFFICES ASSUME StreamIInv, S!Claimed PROVE StreamIInv'
  OBVIOUS
<1>1. S!Undisturbed /\ S!Emit("claimed") /\ session = "pending" /\ session' = "live"
  BY DEF S!Claimed
<1>2. /\ subscribed' = subscribed /\ asked' = asked /\ role' = role /\ since' = since
      /\ step' = step /\ answer' = answer /\ midChunk' = midChunk /\ early' = early
      /\ highest' = highest /\ timer' = timer /\ outcome' = outcome /\ got' = got
  BY DEF S!Claimed, S!clientVars
<1> QED  BY <1>1, <1>2, EmitIInv

LEMMA OverIInv == StreamIInv /\ S!Over => StreamIInv'
<1> SUFFICES ASSUME StreamIInv, S!Over PROVE StreamIInv'
  OBVIOUS
<1> USE DEF StreamIInv
<1> DEFINE x == [seq |-> cursor + 1, kind |-> "over"]
           sent == subscribed /\ S!Hears("over")
<1>1. /\ outcome = Nothing /\ answer = Nothing /\ outcome' = Nothing /\ answer' = Nothing
      /\ subscribed' = subscribed /\ asked' = asked /\ role' = role /\ since' = since /\ step' = step
      /\ midChunk' = midChunk /\ early' = early /\ highest' = highest /\ timer' = timer /\ got' = got
  BY DEF S!Over, S!Undisturbed, S!clientVars
<1>2. /\ session = "live" /\ session' = "over" /\ cursor' = 0 /\ ring' = <<>>
      /\ wire' = IF sent THEN Append(wire, [is |-> "event", event |-> x]) ELSE wire
      /\ due' = IF subscribed /\ role = "events command" THEN due \union {cursor + 1} ELSE due
  BY DEF S!Over
<1>3. cursor \in 0..MaxCursor /\ cursor + 1 \in 1..MaxCursor + 1 /\ wire \in Seq(StreamLines)
  BY StreamSizes DEF StreamTyped
<1>4. x \in S!Events /\ x.seq = cursor + 1
  BY <1>3 DEF S!Events
<1>5. S!Script' = S!Script
  BY <1>1, ScriptKept
<1> HIDE DEF x
<1>6. /\ wire' \in Seq(StreamLines) /\ LineInOrder(wire') /\ (OneAnswer(wire) => OneAnswer(wire'))
      /\ Coming(wire') = Coming(wire) \union (IF sent THEN {x} ELSE {})
      /\ Answering(wire') = Answering(wire)
  <2>1. CASE sent
    BY <1>2, <1>4, <2>1, EventSent
  <2>2. CASE ~sent
    BY <1>2, <1>3, <2>2 DEF Numbered
  <2> QED  BY <2>1, <2>2
<1>7. role \in S!EventRoles \union S!SessionRoles => ~sent /\ due' = due
  BY <1>2 DEF S!Hears, S!AppKinds, S!EventRoles, S!SessionRoles
<1> HIDE DEF sent
<1>8. Held(wire', answer') = Held(wire, answer) /\ Paged(wire', answer') = Paged(wire, answer)
  BY <1>1, <1>6 DEF Held, Paged
<1>9. S!ToSet(ring') = {} /\ RingInOrder(ring') /\ ring' \in Seq(S!Events) /\ Len(ring') = 0
  <2>1. S!ToSet(<<>>) = {} /\ RingInOrder(<<>>)
    BY LineEmpty
  <2>2. <<>> \in Seq(S!Events) /\ Len(<<>>) = 0
    OBVIOUS
  <2>3. ring' = <<>>
    BY <1>2
  <2> QED  BY <2>1, <2>2, <2>3
<1>10. StreamTyped'
  <2>1. cursor' \in 0..MaxCursor /\ Len(ring') <= RingSize
    <3>1. 0 \in 0..MaxCursor /\ 0 <= RingSize
      BY StreamSizes
    <3> QED  BY <1>2, <1>9, <3>1
  <2>2. due' \subseteq S!Numbers
    BY <1>2, <1>4, EventSeq DEF StreamTyped
  <2> QED  BY <1>1, <1>2, <1>5, <1>6, <1>9, <2>1, <2>2 DEF StreamTyped
<1>11. Numbered'
  <2>1. \A e \in early : e.seq <= cursor /\ e.seq \in Nat
    BY <1>2, EventSeq DEF Numbered, StreamTyped
  <2>2. \A e \in early, d \in Coming(wire') : e.seq < d.seq
    BY <1>3, <1>4, <1>6, <2>1 DEF Numbered
  <2> QED  BY <1>1, <1>2, <1>6, <1>9, <2>2 DEF Numbered
<1>12. UnderRequest'
  <2>1. /\ OneAnswer(wire)
        /\ asked => answer = Nothing /\ Answering(wire) = {}
        /\ asked \/ Held(wire, answer) # {} <=> step \in 1..Len(S!Script)
        /\ step = 0 => wire = <<>> /\ ~subscribed /\ ~timer
    BY <1>1 DEF UnderRequest
  <2>2. ~subscribed => wire' = wire
    BY <1>2 DEF sent
  <2> QED  BY <1>1, <1>5, <1>6, <1>8, <2>1, <2>2 DEF UnderRequest
<1>13. Owed'
  <2>1. role \in S!EventRoles => Coming(wire') = Coming(wire) /\ due' = due
    BY <1>6, <1>7
  <2>2. (S!Waiting' <=> S!Waiting) /\ (S!AtRequest("since")' <=> S!AtRequest("since"))
    BY <1>1, <1>5 DEF S!Waiting, S!AtRequest
  <2> QED  BY <1>1, <1>8, <2>1, <2>2 DEF Owed
<1>0. /\ (step' >= 2 <=> step >= 2) /\ (step' = 1 <=> step = 1)
      /\ (asked' <=> asked) /\ (subscribed' <=> subscribed) /\ role' = role /\ outcome = Nothing
  BY <1>1
<1>14. ClaimComing'
  BY <1>0, <1>2 DEF ClaimComing
<1>15. PageFollows' /\ S!FirstDueWins' /\ S!PagerSkipsNothing'
  BY <1>1, <1>9, StreamConstants DEF PageFollows, S!FirstDueWins, S!PagerSkipsNothing
<1> QED  BY <1>10, <1>11, <1>12, <1>13, <1>14, <1>15

\* An answer on its way, when there was a request.
LEMMA ServedIInv ==
    ASSUME StreamIInv, asked, outcome = Nothing, answer = Nothing, NEW m \in AnswerLines,
           wire' = Append(wire, m), asked' = FALSE,
           session # "over" => m.page.cursor <= cursor /\ \A e \in m.page.events : e.seq <= cursor,
           session' = session, cursor' = cursor, ring' = ring,
           role' = role, since' = since, step' = step, answer' = answer, midChunk' = midChunk,
           early' = early, highest' = highest, timer' = timer, outcome' = outcome, got' = got,
           subscribed' \in BOOLEAN, due' \subseteq S!Numbers
    PROVE  /\ StreamTyped' /\ Numbered' /\ UnderRequest' /\ S!FirstDueWins' /\ S!PagerSkipsNothing'
           /\ S!Script' = S!Script
           /\ Coming(wire') = Coming(wire) /\ Held(wire', answer') = {m} /\ Held(wire, answer) = {}
           /\ Paged(wire', answer') = m.page.events /\ Paged(wire, answer) = {}
<1> USE DEF StreamIInv
<1>1. m \in StreamLines /\ m.is = "answer" /\ wire \in Seq(StreamLines) /\ m # Nothing
  BY StreamConstants DEF StreamLines, AnswerLines, StreamTyped
<1>2. /\ Answering(wire) = {} /\ OneAnswer(wire) /\ LineInOrder(wire)
      /\ step \in 1..Len(S!Script)
  BY DEF UnderRequest, Numbered
<1>3. /\ LineInOrder(wire') /\ OneAnswer(wire') /\ Coming(wire') = Coming(wire)
      /\ Answering(wire') = {m} /\ wire' \in Seq(StreamLines)
  <2>1. wire' = Append(wire, m) /\ Append(wire, m) \in Seq(StreamLines)
    BY <1>1, Appended
  <2>2. /\ LineInOrder(Append(wire, m)) /\ OneAnswer(Append(wire, m))
        /\ Coming(Append(wire, m)) = Coming(wire) /\ Answering(Append(wire, m)) = {m}
    BY <1>1, <1>2, LineAppended
  <2> QED  BY <2>1, <2>2
<1>4. Held(wire', answer') = {m} /\ Held(wire, answer) = {}
  BY <1>1, <1>2, <1>3 DEF Held
<1>5. Paged(wire', answer') = m.page.events /\ Paged(wire, answer) = {}
  BY <1>4 DEF Paged
<1>6. S!Script' = S!Script
  BY ScriptKept
<1>7. StreamTyped'
  BY <1>3, <1>6 DEF StreamTyped
<1>8. Numbered'
  <2>1. /\ \A e \in early, d \in Coming(wire') : e.seq < d.seq
        /\ session # "over" => \A e \in Coming(wire') \union early : e.seq <= cursor
    BY <1>3 DEF Numbered
  <2>2. session # "over" => \A a \in Held(wire', answer') :
           a.page.cursor <= cursor /\ \A e \in a.page.events : e.seq <= cursor
    BY <1>4
  <2> QED  BY <1>3, <2>1, <2>2 DEF Numbered
<1>9. UnderRequest'
  BY <1>2, <1>3, <1>4, <1>6 DEF UnderRequest
<1>10. S!FirstDueWins' /\ S!PagerSkipsNothing'
  BY StreamConstants DEF S!FirstDueWins, S!PagerSkipsNothing
<1> QED  BY <1>3, <1>4, <1>5, <1>6, <1>7, <1>8, <1>9, <1>10


LEMMA ServeDescribeIInv == StreamIInv /\ S!ServeStream /\ S!ServeDescribe => StreamIInv'
<1> SUFFICES ASSUME StreamIInv, S!ServeStream, S!ServeDescribe PROVE StreamIInv'
  OBVIOUS
<1> DEFINE m == S!Reply(session = "live", S!NoPage)
<1> USE DEF StreamIInv
<1>1. /\ asked /\ outcome = Nothing /\ answer = Nothing /\ session' = session /\ cursor' = cursor
      /\ ring' = ring /\ role' = role /\ since' = since /\ step' = step /\ answer' = answer
      /\ midChunk' = midChunk /\ early' = early /\ highest' = highest /\ timer' = timer
      /\ outcome' = outcome /\ got' = got
  BY DEF S!ServeStream, S!Undisturbed, S!busVars, S!clientVars
<1>2. /\ S!AtRequest("describe") /\ wire' = Append(wire, m) /\ asked' = FALSE
      /\ subscribed' = subscribed /\ due' = due
  BY DEF S!ServeDescribe, S!Send
<1>3. /\ m \in AnswerLines /\ m.page.events = {} /\ m.page.cursor = 0
      /\ m.ok = (session = "live")
  BY EventSeq, StreamSizes DEF AnswerLines, S!Reply, S!NoPage
<1> HIDE DEF m
<1>4. /\ session # "over" => m.page.cursor <= cursor /\ \A e \in m.page.events : e.seq <= cursor
      /\ subscribed' \in BOOLEAN /\ due' \subseteq S!Numbers /\ step \in Nat /\ role \in Roles
  BY <1>2, <1>3, ScriptLength DEF StreamTyped
<1>5. /\ StreamTyped' /\ Numbered' /\ UnderRequest' /\ S!FirstDueWins' /\ S!PagerSkipsNothing'
      /\ S!Script' = S!Script
      /\ Coming(wire') = Coming(wire) /\ Held(wire', answer') = {m} /\ Held(wire, answer) = {}
      /\ Paged(wire', answer') = {} /\ Paged(wire, answer) = {}
  BY <1>1, <1>2, <1>3, <1>4, ServedIInv
<1>6. Owed'
  <2>1. (S!Waiting' <=> S!Waiting) /\ (S!AtRequest("since")' <=> S!AtRequest("since"))
    BY <1>1, <1>5 DEF S!Waiting, S!AtRequest
  <2> QED  BY <1>1, <1>2, <1>5, <2>1 DEF Owed
<1>7. ClaimComing'
  <2>1. role = "session tool" => step = 2
    BY <1>2, <1>4, Scripts
  <2>2. \E a \in Held(wire', answer') : a.ok = (session = "live")
    BY <1>3, <1>5
  <2>3. /\ step' = step /\ (step' = 2 => step' # 1) /\ (subscribed' <=> subscribed)
        /\ role' = role /\ session' = session /\ outcome = Nothing
    BY <1>1, <1>2
  <2>4. role = "session tool" => subscribed
    <3>1. step = 2 => step >= 2
      OBVIOUS
    <3>2. outcome = Nothing
      BY <1>1
    <3> QED  BY <2>1, <3>1, <3>2, Zenon DEF ClaimComing
  <2> HIDE DEF StreamIInv
  <2> QED  BY <2>1, <2>2, <2>3, <2>4 DEF ClaimComing
<1>8. PageFollows'
  <2>1. role # "pager"
    BY <1>2, <1>4, Scripts
  <2> QED  BY <1>1, <2>1 DEF PageFollows
<1> QED  BY <1>5, <1>6, <1>7, <1>8

LEMMA ServeSubscribeIInv == StreamIInv /\ S!ServeStream /\ S!ServeSubscribe => StreamIInv'
<1> SUFFICES ASSUME StreamIInv, S!ServeStream, S!ServeSubscribe PROVE StreamIInv'
  OBVIOUS
<1> DEFINE m == S!Reply(TRUE, S!NoPage)
<1> USE DEF StreamIInv
<1>1. /\ asked /\ outcome = Nothing /\ answer = Nothing /\ session' = session /\ cursor' = cursor
      /\ ring' = ring /\ role' = role /\ since' = since /\ step' = step /\ answer' = answer
      /\ midChunk' = midChunk /\ early' = early /\ highest' = highest /\ timer' = timer
      /\ outcome' = outcome /\ got' = got
  BY DEF S!ServeStream, S!Undisturbed, S!busVars, S!clientVars
<1>2. /\ S!AtRequest("subscribe") /\ wire' = Append(wire, m) /\ asked' = FALSE
      /\ subscribed' = TRUE /\ due' = due
  BY DEF S!ServeSubscribe, S!Send
<1>3. m \in AnswerLines /\ m.page.events = {} /\ m.page.cursor = 0
  BY EventSeq, StreamSizes DEF AnswerLines, S!Reply, S!NoPage
<1> HIDE DEF m
<1>4. /\ session # "over" => m.page.cursor <= cursor /\ \A e \in m.page.events : e.seq <= cursor
      /\ subscribed' \in BOOLEAN /\ due' \subseteq S!Numbers /\ step \in Nat /\ role \in Roles
  BY <1>2, <1>3, ScriptLength DEF StreamTyped
<1>5. /\ StreamTyped' /\ Numbered' /\ UnderRequest' /\ S!FirstDueWins' /\ S!PagerSkipsNothing'
      /\ S!Script' = S!Script
      /\ Coming(wire') = Coming(wire) /\ Held(wire', answer') = {m} /\ Held(wire, answer) = {}
      /\ Paged(wire', answer') = {} /\ Paged(wire, answer) = {}
  BY <1>1, <1>2, <1>3, <1>4, ServedIInv
<1>6. Owed'
  <2>1. (S!Waiting' <=> S!Waiting) /\ (S!AtRequest("since")' <=> S!AtRequest("since"))
    BY <1>1, <1>5 DEF S!Waiting, S!AtRequest
  <2> QED  BY <1>1, <1>2, <1>5, <2>1 DEF Owed
<1>7. ClaimComing'
  <2>1. role = "session tool" => step = 1
    BY <1>2, <1>4, Scripts
  <2>2. (role' = "session tool" => ~(step' >= 2)) /\ subscribed'
    <3>1. role' = "session tool" => step' = 1
      BY <1>1, <2>1
    <3>2. subscribed'
      BY <1>2
    <3>3. step' = 1 => ~(step' >= 2)
      OBVIOUS
    <3> QED  BY <3>1, <3>2, <3>3, Zenon
  <2> HIDE DEF StreamIInv
  <2> QED  BY <2>2 DEF ClaimComing
<1>8. PageFollows'
  <2>1. role # "pager"
    BY <1>2, <1>4, Scripts
  <2> QED  BY <1>1, <2>1 DEF PageFollows
<1> QED  BY <1>5, <1>6, <1>7, <1>8

\* What is answered to a question about the past, when it is of a session that is there.
LEMMA SinceIs ==
    ASSUME StreamIInv, session # "over", role \in S!EventRoles \union {"pager"}
    PROVE  LET page == S!Since(since)
               found == {e \in S!ToSet(ring) : e.seq > since /\ e.kind \in S!AppKinds}
           IN /\ page.events \subseteq found /\ page.cursor \in S!Numbers /\ page.cursor <= cursor
              /\ role # "pager" => page.events = found
              /\ \A e \in found : e.seq <= page.cursor => e \in page.events
<1> DEFINE page == S!Since(since)
           found == {e \in S!ToSet(ring) : e.seq > since /\ e.kind \in S!AppKinds}
           chosen == IF role = "pager" THEN S!OldestFirst(found, PageSize) ELSE found
<1>1. StreamTyped /\ cursor \in S!Numbers /\ cursor \in Nat /\ ring \in Seq(S!Events)
  BY EventSeq, StreamSizes DEF StreamIInv, StreamTyped
<1>2. page.events = chosen /\ page.cursor = IF chosen # {} THEN S!Newest(chosen).seq ELSE cursor
  BY DEF S!Since
<1>3. found \subseteq S!ToSet(ring) /\ \A e \in S!ToSet(ring) : e \in S!Events /\ e.seq <= cursor
  BY <1>1, ToSetIs DEF StreamIInv, Numbered
<1> HIDE DEF found
<1>4. /\ chosen \subseteq found /\ (found # {} => chosen # {})
      /\ \A e \in found, n \in chosen : e.seq <= n.seq => e \in chosen
  BY <1>1, <1>3, PageIsOldest
<1> HIDE DEF chosen, page
<1>5. CASE chosen # {}
  <2>1. S!Newest(chosen) \in chosen
    BY <1>3, <1>4, <1>5, NewestIs
  <2>2. page.cursor = S!Newest(chosen).seq /\ page.cursor <= cursor /\ page.cursor \in S!Numbers
    BY <1>2, <1>3, <1>4, <1>5, <2>1, EventSeq
  <2>3. \A e \in found : e.seq <= page.cursor => e \in chosen
    BY <1>4, <2>1, <2>2
  <2>4. role # "pager" => chosen = found
    BY DEF chosen
  <2> QED  BY <1>2, <1>4, <2>2, <2>3, <2>4 DEF page, found
<1>6. CASE chosen = {}
  <2>1. found = {} /\ page.cursor = cursor /\ page.events = {}
    BY <1>2, <1>4, <1>6
  <2> QED  BY <1>1, <2>1 DEF page, found
<1> QED  BY <1>5, <1>6

LEMMA ServeSinceIInv == StreamIInv /\ S!ServeStream /\ S!ServeSince => StreamIInv'
<1> SUFFICES ASSUME StreamIInv, S!ServeStream, S!ServeSince PROVE StreamIInv'
  OBVIOUS
<1> DEFINE found == {e \in S!ToSet(ring) : e.seq > since /\ e.kind \in S!AppKinds}
           retained == {e.seq : e \in {x \in S!ToSet(ring) : x.seq > since /\ x.kind = "wanted"}}
           m == IF session = "live" THEN S!Reply(TRUE, S!Since(since)) ELSE S!Reply(FALSE, S!NoPage)
<1> USE DEF StreamIInv
<1>1. /\ asked /\ outcome = Nothing /\ answer = Nothing /\ session' = session /\ cursor' = cursor
      /\ ring' = ring /\ role' = role /\ since' = since /\ step' = step /\ answer' = answer
      /\ midChunk' = midChunk /\ early' = early /\ highest' = highest /\ timer' = timer
      /\ outcome' = outcome /\ got' = got
  BY DEF S!ServeStream, S!Undisturbed, S!busVars, S!clientVars
<1>2. /\ S!AtRequest("since") /\ wire' = Append(wire, m) /\ asked' = FALSE /\ subscribed' = subscribed
      /\ due' = IF session = "live" THEN due \union retained ELSE due
  BY DEF S!ServeSince, S!Send
<1>3. ring \in Seq(S!Events) /\ S!ToSet(ring) \subseteq S!Events /\ step \in Nat /\ role \in Roles
      /\ due \subseteq S!Numbers /\ subscribed \in BOOLEAN /\ cursor \in Nat
  BY ToSetIs, ScriptLength, StreamSizes DEF StreamTyped
<1>4. role \in S!EventRoles \union {"pager"}
  BY <1>2, <1>3, Scripts, StreamConstants
<1>5. \A e \in S!ToSet(ring) : e.seq <= cursor
  BY DEF Numbered
<1> HIDE DEF retained
<1>6. /\ m \in AnswerLines /\ m.ok = (session = "live")
      /\ session # "live" => m.page.events = {} /\ m.page.cursor = 0
      /\ session = "live" => m.page = S!Since(since)
  <2>1. CASE session = "live"
    <3>1. S!Since(since) \in [events : SUBSET S!Events, cursor : S!Numbers]
      <4>1. S!Since(since).events \subseteq S!Events /\ S!Since(since).cursor \in S!Numbers
        BY <1>3, <1>4, <2>1, SinceIs
      <4> HIDE DEF StreamIInv
      <4> QED  BY <4>1 DEF S!Since
    <3> QED  BY <2>1, <3>1 DEF AnswerLines, S!Reply
  <2>2. CASE session # "live"
    <3>1. S!NoPage \in [events : SUBSET S!Events, cursor : S!Numbers]
      BY EventSeq, StreamSizes DEF S!NoPage
    <3>2. S!Reply(FALSE, S!NoPage) \in AnswerLines
      BY <3>1 DEF AnswerLines, S!Reply
    <3>3. S!Reply(FALSE, S!NoPage).page = S!NoPage /\ S!Reply(FALSE, S!NoPage).ok = FALSE
      BY DEF S!Reply
    <3>4. m = S!Reply(FALSE, S!NoPage)
      BY <2>2
    <3>5. S!NoPage.events = {} /\ S!NoPage.cursor = 0
      BY DEF S!NoPage
    <3> HIDE DEF m
    <3>6. m \in AnswerLines /\ m.ok = FALSE /\ m.page.events = {} /\ m.page.cursor = 0
      BY <3>2, <3>3, <3>4, <3>5
    <3> QED  BY <2>2, <3>6
  <2> QED  BY <2>1, <2>2
<1> HIDE DEF m
<1>7. session = "live" =>
        /\ m.page.events \subseteq found /\ m.page.cursor <= cursor
        /\ role # "pager" => m.page.events = found
        /\ \A e \in found : e.seq <= m.page.cursor => e \in m.page.events
  BY <1>4, <1>6, SinceIs
<1>8. /\ session # "over" => m.page.cursor <= cursor /\ \A e \in m.page.events : e.seq <= cursor
      /\ subscribed' \in BOOLEAN /\ due' \subseteq S!Numbers
  BY <1>2, <1>3, <1>5, <1>6, <1>7, EventSeq DEF retained
<1>9. /\ StreamTyped' /\ Numbered' /\ UnderRequest' /\ S!FirstDueWins' /\ S!PagerSkipsNothing'
      /\ S!Script' = S!Script
      /\ Coming(wire') = Coming(wire) /\ Held(wire', answer') = {m} /\ Held(wire, answer) = {}
      /\ Paged(wire', answer') = m.page.events /\ Paged(wire, answer) = {}
  BY <1>1, <1>2, <1>6, <1>8, ServedIInv
<1>10. Owed'
  <2> SUFFICES ASSUME role \in S!EventRoles PROVE Owed'
    BY <1>1 DEF Owed
  <2>1. S!AtRequest("since")' /\ ~S!Waiting' /\ ~S!Waiting
    <3>1. step \in 1..Len(S!Script) /\ Len(S!Script) \in Nat
      BY <1>2, <1>3, ScriptLength DEF S!AtRequest
    <3> QED  BY <1>1, <1>2, <1>9, <3>1 DEF S!Waiting, S!AtRequest
  <2>2. Wanted(m.page.events) = IF session = "live" THEN retained ELSE {}
    <3>1. CASE session = "live"
      <4>1. m.page.events = found
        BY <1>7, <3>1, <1>3, Scripts
      <4>2. Wanted(found) = retained
        BY DEF Wanted, retained, S!AppKinds
      <4> QED  BY <3>1, <4>1, <4>2
    <3>2. CASE session # "live"
      BY <1>6, <3>2, WantedUnion
    <3> QED  BY <3>1, <3>2
  <2>3. due = Wanted(early \union Coming(wire) \union {})
    BY <1>1, <1>9, <2>1 DEF Owed
  <2>4. due' = Wanted(early \union Coming(wire)) \union Wanted(m.page.events)
    BY <1>2, <2>2, <2>3
  <2>5. due' = Wanted(early \union Coming(wire) \union m.page.events)
    BY <2>4, WantedUnion
  <2> QED  BY <1>1, <1>9, <2>1, <2>5 DEF Owed
<1>11. ClaimComing'
  <2>1. role # "session tool"
    BY <1>4 DEF S!EventRoles
  <2> QED  BY <1>1, <2>1 DEF ClaimComing
<1>12. PageFollows'
  <2> SUFFICES ASSUME NEW a \in Held(wire', answer'), NEW e \in S!ToSet(ring), a.ok,
                      e.kind \in S!AppKinds, since < e.seq, e.seq <= a.page.cursor
               PROVE  e \in a.page.events
    BY <1>1 DEF PageFollows
  <2>1. a = m /\ session = "live"
    BY <1>6, <1>9
  <2>2. e \in found
    BY <1>3, EventSeq DEF StreamTyped
  <2> QED  BY <1>7, <2>1, <2>2
<1> QED  BY <1>9, <1>10, <1>11, <1>12

LEMMA BeginIInv == StreamIInv /\ S!Begin => StreamIInv'
<1> SUFFICES ASSUME StreamIInv, S!Begin PROVE StreamIInv'
  OBVIOUS
<1> USE DEF StreamIInv
<1>1. /\ step = 0 /\ step' = 1 /\ since' \in 0..cursor /\ asked' = TRUE /\ session' = session
      /\ cursor' = cursor /\ ring' = ring /\ role' = role /\ answer' = answer /\ wire' = wire
      /\ midChunk' = midChunk /\ early' = early /\ highest' = highest /\ outcome' = outcome
      /\ subscribed' = subscribed /\ due' = due
  BY DEF S!Begin, S!ClientAsks, S!busVars
<1>0. timer' \in BOOLEAN /\ got' = IF role = "pager" THEN 1..since' ELSE {}
  <2>1. timer' \in BOOLEAN
    <3> DEFINE needed == role \in {"event client", "session tool"}
    <3>1. timer' = needed
      BY DEF S!Begin
    <3>2. needed \in BOOLEAN
      OBVIOUS
    <3> HIDE DEF needed
    <3> QED  BY <3>1, <3>2
  <2>2. got' = IF role = "pager" THEN 1..since' ELSE {}
    BY DEF S!Begin
  <2> QED  BY <2>1, <2>2
<1>2. /\ outcome = Nothing /\ wire = <<>> /\ Answering(wire) = {} /\ OneAnswer(wire) /\ Coming(wire) = {}
  BY <1>1, LineEmpty DEF UnderRequest
<1>3. cursor \in Nat /\ cursor <= MaxCursor /\ MaxCursor \in Nat /\ role \in Roles
  BY StreamSizes DEF StreamTyped
<1>4. S!Script' = S!Script /\ Len(S!Script) \in 1..3
  BY <1>1, <1>3, ScriptKept, ScriptLength
<1>5. answer = Nothing
  <2>1. ~(step \in 1..Len(S!Script))
    BY <1>1, <1>4
  <2> QED  BY <2>1 DEF UnderRequest
<1>6. Held(wire, answer) = {} /\ Held(wire', answer') = {} /\ Paged(wire, answer) = {}
      /\ Paged(wire', answer') = {}
  BY <1>1, <1>2, <1>5 DEF Held, Paged
<1>7. since' \in Nat /\ since' <= cursor /\ since' \in S!Numbers
  BY <1>1, <1>3, EventSeq
<1>8. StreamTyped'
  <2>1. got' \subseteq S!Numbers
    BY <1>0, <1>3, <1>7, EventSeq
  <2>2. step' \in 0..Len(S!Script') + 1
    BY <1>1, <1>4
  <2> QED  BY <1>0, <1>1, <1>7, <2>1, <2>2 DEF StreamTyped
<1>9. Numbered'
  BY <1>1, <1>5, <1>6, <1>7 DEF Numbered
<1>10. UnderRequest'
  BY <1>1, <1>2, <1>4, <1>5, <1>6 DEF UnderRequest
<1>11. Owed'
  <2>1. ~S!Waiting /\ ~S!Waiting'
    BY <1>1, <1>4 DEF S!Waiting
  <2> QED  BY <1>1, <1>2, <1>5, <1>6, <2>1 DEF Owed
<1>12. ClaimComing'
  <2>1. ~(step' >= 2) /\ asked'
    BY <1>1
  <2> QED  BY <2>1 DEF ClaimComing
<1>13. PageFollows'
  BY <1>6 DEF PageFollows
<1>14. S!FirstDueWins' /\ S!PagerSkipsNothing'
  <2>1. \A e \in S!ToSet(ring) : e.seq \in Nat /\ 1 <= e.seq
    BY ToSetIs, EventSeq DEF StreamTyped
  <2>2. S!FirstDueWins'
    BY <1>1, <1>2, StreamConstants DEF S!FirstDueWins
  <2>3. \A e \in S!ToSet(ring) : e.seq <= since' => e.seq \in 1..since'
    BY <1>7, <2>1
  <2>4. role = "pager" => got' = 1..since'
    BY <1>0
  <2>5. S!ToSet(ring') = S!ToSet(ring) /\ role' = role
    BY <1>1
  <2>6. S!PagerSkipsNothing'
    BY <2>3, <2>4, <2>5 DEF S!PagerSkipsNothing
  <2> QED  BY <2>2, <2>6
<1> QED  BY <1>8, <1>9, <1>10, <1>11, <1>12, <1>13, <1>14


\* A wait that has ended, whatever else the step does to the line.
LEMMA EndedIInv ==
    ASSUME StreamIInv, outcome' \in {"event", "claimed", "timeout", "failed"},
           session' = session, cursor' = cursor, ring' = ring, role' = role, early' = early,
           highest' = highest, due' = due,
           step' \in 1..Len(S!Script) + 1, answer' # Nothing => step' \in 1..Len(S!Script),
           wire' \in Seq(StreamLines), LineInOrder(wire'), Coming(wire') \subseteq Coming(wire),
           Held(wire', answer') \subseteq Held(wire, answer), answer' \in {answer, Nothing},
           subscribed' \in BOOLEAN, asked' \in BOOLEAN, midChunk' \in BOOLEAN, timer' \in BOOLEAN,
           since' \in S!Numbers, session # "over" => since' <= cursor, got' \subseteq S!Numbers,
           role \in S!EventRoles => answer' = Nothing, S!FirstDueWins'
    PROVE  StreamIInv'
<1> USE DEF StreamIInv
<1>1. outcome' # Nothing
  BY StreamConstants
<1>2. S!Script' = S!Script /\ Len(S!Script) \in 1..3
  BY ScriptKept, ScriptLength DEF StreamTyped
<1>3. StreamTyped'
  <2>1. step' \in 0..Len(S!Script') + 1
    BY <1>2
  <2> QED  BY <1>2, <2>1 DEF StreamTyped
<1>4. Numbered'
  BY DEF Numbered
<1>5. UnderRequest'
  BY <1>1, <1>2 DEF UnderRequest
<1>6. Owed' /\ ClaimComing' /\ PageFollows'
  BY <1>1 DEF Owed, ClaimComing, PageFollows
<1>7. S!PagerSkipsNothing'
  BY <1>1 DEF S!PagerSkipsNothing
<1> QED  BY <1>3, <1>4, <1>5, <1>6, <1>7

LEMMA HearAnswerLineIInv == StreamIInv /\ S!HearAnswerLine => StreamIInv'
<1> SUFFICES ASSUME StreamIInv, S!HearAnswerLine PROVE StreamIInv'
  OBVIOUS
<1> USE DEF StreamIInv
<1> DEFINE t == Tail(wire)  h == Head(wire)
<1>1. /\ wire # <<>> /\ outcome = Nothing /\ h.is = "answer" /\ answer' = h /\ midChunk' = TRUE
      /\ wire' = t /\ session' = session /\ cursor' = cursor /\ ring' = ring
      /\ subscribed' = subscribed /\ asked' = asked /\ role' = role /\ since' = since /\ step' = step
      /\ early' = early /\ highest' = highest /\ timer' = timer /\ outcome' = outcome /\ got' = got
      /\ due' = due
  BY DEF S!HearAnswerLine, S!MayReadLine, S!busVars
<1>2. wire \in Seq(StreamLines) /\ LineInOrder(wire) /\ OneAnswer(wire)
  BY <1>1 DEF StreamTyped, Numbered, UnderRequest
<1>3. h \in StreamLines /\ t \in Seq(StreamLines)
  BY <1>1, <1>2, Taken
<1>4. /\ LineInOrder(t) /\ OneAnswer(t) /\ Answering(t) = {} /\ Coming(wire) = Coming(t)
      /\ Answering(wire) = {h} /\ \A e \in Coming(t) : Before(h, e)
  <2>1. /\ Coming(wire) = Coming(t) \union (IF h.is = "event" THEN {h.event} ELSE {})
        /\ Answering(wire) = Answering(t) \union (IF h.is = "answer" THEN {h} ELSE {})
        /\ LineInOrder(t) /\ OneAnswer(t) /\ (h.is = "answer" => Answering(t) = {})
        /\ \A e \in Coming(t) : Before(h, e)
    BY <1>1, <1>2, LineTaken
  <2>2. h.is = "answer" /\ h.is # "event"
    BY <1>1
  <2> HIDE DEF t, h
  <2> QED  BY <2>1, <2>2
<1> HIDE DEF t, h
<1>5. h \in AnswerLines /\ h # Nothing
  BY <1>1, <1>3, StreamConstants DEF StreamLines, EventLines
<1>6. answer = Nothing /\ ~asked
  BY <1>1, <1>4 DEF UnderRequest
<1>7. Held(wire, answer) = {h} /\ Held(wire', answer') = {h}
  BY <1>1, <1>4, <1>5, <1>6 DEF Held
<1>8. Paged(wire', answer') = Paged(wire, answer) /\ Coming(wire') = Coming(wire)
  BY <1>1, <1>4, <1>7 DEF Paged
<1>9. S!Script' = S!Script
  BY <1>1, ScriptKept
<1>10. step \in 1..Len(S!Script)
  BY <1>1, <1>7 DEF UnderRequest
<1>11. StreamTyped'
  BY <1>1, <1>3, <1>5, <1>9 DEF StreamTyped
<1>12. Numbered'
  <2>1. \A e \in Coming(wire') : Precede(answer'.page, e)
    BY <1>1, <1>4 DEF Before
  <2> QED  BY <1>1, <1>4, <1>7, <1>8, <2>1 DEF Numbered
<1>13. UnderRequest'
  BY <1>1, <1>2, <1>4, <1>6, <1>7, <1>9, <1>10 DEF UnderRequest
<1>14. Owed'
  <2>1. (S!Waiting' <=> S!Waiting) /\ (S!AtRequest("since")' <=> S!AtRequest("since"))
    BY <1>1, <1>9 DEF S!Waiting, S!AtRequest
  <2> QED  BY <1>1, <1>8, <2>1 DEF Owed
<1>15. ClaimComing'
  <2>1. /\ (step' >= 2 <=> step >= 2) /\ (step' = 1 <=> step = 1) /\ (step' = 2 <=> step = 2)
        /\ (asked' <=> asked) /\ (subscribed' <=> subscribed) /\ session' = session /\ role' = role
        /\ outcome = Nothing
    BY <1>1
  <2> QED  BY <1>7, <1>8, <2>1 DEF ClaimComing
<1>16. PageFollows' /\ S!FirstDueWins' /\ S!PagerSkipsNothing'
  BY <1>1, <1>7 DEF PageFollows, S!FirstDueWins, S!PagerSkipsNothing
<1> QED  BY <1>11, <1>12, <1>13, <1>14, <1>15, <1>16

\* An event is taken from the line: it is the oldest of those that come.
LEMMA EventTaken ==
    ASSUME StreamIInv, wire # <<>>, outcome = Nothing, Head(wire).is = "event"
    PROVE  LET e == Head(wire).event  t == Tail(wire) IN
           /\ e \in S!Events /\ t \in Seq(StreamLines) /\ LineInOrder(t) /\ OneAnswer(t)
           /\ Coming(wire) = Coming(t) \union {e} /\ Answering(t) = Answering(wire)
           /\ Coming(t) \subseteq S!Events /\ \A d \in Coming(t) : e.seq < d.seq
           /\ step # 0
<1> USE DEF StreamIInv
<1> DEFINE t == Tail(wire)  h == Head(wire)
<1>1. wire \in Seq(StreamLines) /\ LineInOrder(wire) /\ OneAnswer(wire) /\ step # 0
  BY DEF StreamTyped, Numbered, UnderRequest
<1>2. h \in StreamLines /\ t \in Seq(StreamLines)
  BY <1>1, Taken
<1>3. /\ LineInOrder(t) /\ OneAnswer(t) /\ Coming(wire) = Coming(t) \union {h.event}
      /\ Answering(wire) = Answering(t) /\ \A d \in Coming(t) : Before(h, d)
  <2>1. /\ Coming(wire) = Coming(t) \union (IF h.is = "event" THEN {h.event} ELSE {})
        /\ Answering(wire) = Answering(t) \union (IF h.is = "answer" THEN {h} ELSE {})
        /\ LineInOrder(t) /\ OneAnswer(t) /\ \A d \in Coming(t) : Before(h, d)
    BY <1>1, LineTaken
  <2>2. h.is = "event" /\ h.is # "answer"
    OBVIOUS
  <2> HIDE DEF t, h
  <2> QED  BY <2>1, <2>2
<1>4. h.event \in S!Events /\ Coming(t) \subseteq S!Events
  BY <1>1, <1>2, <1>3, LineSets
<1>5. \A d \in Coming(t) : h.event.seq < d.seq
  BY <1>3 DEF Before
<1> QED  BY <1>1, <1>2, <1>3, <1>4, <1>5

\* It is read, and the client goes on as before, but for what it keeps and is given.
LEMMA ReadOnIInv ==
    ASSUME StreamIInv, wire # <<>>, outcome = Nothing, Head(wire).is = "event", wire' = Tail(wire),
           session' = session, cursor' = cursor, ring' = ring, subscribed' = subscribed,
           asked' = asked, role' = role, since' = since, step' = step, answer' = answer,
           midChunk' = midChunk, highest' = highest, timer' = timer, outcome' = outcome, due' = due,
           early' \subseteq early \union {Head(wire).event}, got' \subseteq S!Numbers,
           role = "pager" => got' = got, role \notin S!SessionRoles, Owed'
    PROVE  StreamIInv'
<1> USE DEF StreamIInv
<1> DEFINE t == Tail(wire)  x == Head(wire).event
<1>1. /\ x \in S!Events /\ t \in Seq(StreamLines) /\ LineInOrder(t) /\ OneAnswer(t)
      /\ Coming(wire) = Coming(t) \union {x} /\ Answering(t) = Answering(wire)
      /\ \A d \in Coming(t) : x.seq < d.seq
      /\ step # 0
  BY EventTaken
<1>2. wire' = t /\ early' \subseteq early \union {x}
  OBVIOUS
<1> HIDE DEF t, x
<1>3. Held(wire', answer') = Held(wire, answer)
  BY <1>1, <1>2 DEF Held
<1>4. S!Script' = S!Script
  BY ScriptKept
<1>5. StreamTyped'
  BY <1>1, <1>2, <1>4 DEF StreamTyped
<1>6. Numbered'
  <2>1. \A e \in early', d \in Coming(wire') : e.seq < d.seq
    BY <1>1, <1>2 DEF Numbered
  <2>2. session # "over" => \A e \in Coming(wire') \union early' : e.seq <= cursor
    BY <1>1, <1>2 DEF Numbered
  <2>3. answer # Nothing => \A e \in Coming(wire') : Precede(answer.page, e)
    BY <1>1, <1>2 DEF Numbered
  <2> QED  BY <1>1, <1>2, <1>3, <2>1, <2>2, <2>3 DEF Numbered
<1>7. UnderRequest'
  BY <1>1, <1>2, <1>3, <1>4 DEF UnderRequest
<1>8. ClaimComing'
  <2>1. role' # "session tool"
    BY DEF S!SessionRoles
  <2> QED  BY <2>1 DEF ClaimComing
<1>9. PageFollows' /\ S!FirstDueWins' /\ S!PagerSkipsNothing'
  BY <1>3, StreamConstants DEF PageFollows, S!FirstDueWins, S!PagerSkipsNothing
<1> QED  BY <1>5, <1>6, <1>7, <1>8, <1>9

LEMMA HearLineIInv == StreamIInv /\ S!HearLine => StreamIInv'
<1> SUFFICES ASSUME StreamIInv, S!HearLine PROVE StreamIInv'
  OBVIOUS
<1> USE DEF StreamIInv
<1> DEFINE t == Tail(wire)  x == Head(wire).event
<1>1. /\ wire # <<>> /\ outcome = Nothing /\ Head(wire).is = "event" /\ wire' = t
      /\ session' = session /\ cursor' = cursor /\ ring' = ring
      /\ subscribed' = subscribed /\ asked' = asked /\ role' = role /\ since' = since /\ step' = step
      /\ answer' = answer /\ midChunk' = midChunk /\ highest' = highest /\ due' = due
  BY DEF S!HearLine, S!MayReadLine, S!busVars
<1>2. /\ x \in S!Events /\ t \in Seq(StreamLines) /\ LineInOrder(t) /\ OneAnswer(t)
      /\ Coming(wire) = Coming(t) \union {x} /\ Answering(t) = Answering(wire)
      /\ Coming(t) \subseteq S!Events /\ \A d \in Coming(t) : x.seq < d.seq
      /\ step # 0
  BY <1>1, EventTaken
<1>3. role \in Roles /\ step \in Nat /\ Len(S!Script) \in 1..3 /\ got \subseteq S!Numbers /\ x.seq \in S!Numbers
      /\ answer \in AnswerLines \union {Nothing}
  BY <1>2, ScriptLength, EventSeq DEF StreamTyped
<1>4. S!Script' = S!Script
  BY <1>1, ScriptKept
<1>5. Held(wire', answer') = Held(wire, answer) /\ Paged(wire', answer') = Paged(wire, answer)
  BY <1>1, <1>2 DEF Held, Paged
<1>6. (S!Waiting' <=> S!Waiting) /\ (S!AtRequest("since")' <=> S!AtRequest("since"))
  BY <1>1, <1>4 DEF S!Waiting, S!AtRequest
<1>7. step \in 1..Len(S!Script) + 1 /\ since \in S!Numbers /\ (session # "over" => since <= cursor)
      /\ subscribed \in BOOLEAN /\ asked \in BOOLEAN /\ midChunk \in BOOLEAN
      /\ (answer # Nothing => step \in 1..Len(S!Script))
  BY <1>2, <1>3 DEF StreamTyped, Numbered, UnderRequest
<1>8. CASE (~S!Listening \/ role = "pager") /\ early' = early /\ timer' = timer
           /\ outcome' = outcome /\ got' = got
  <2>1. role \notin S!EventRoles \union S!SessionRoles
    BY <1>8 DEF S!Listening, S!EventRoles, S!SessionRoles
  <2>2. Owed'
    BY <1>1, <2>1 DEF Owed
  <2> QED  BY <1>1, <1>3, <1>8, <2>1, <2>2, ReadOnIInv
<1>9. CASE role = "events command" /\ early' = early /\ timer' = timer
           /\ outcome' = outcome /\ got' = got \union {x.seq}
  <2>1. role \notin S!EventRoles \union S!SessionRoles /\ role # "pager"
    BY <1>9 DEF S!EventRoles, S!SessionRoles
  <2>2. Owed'
    BY <1>1, <2>1 DEF Owed
  <2> QED  BY <1>1, <1>3, <1>9, <2>1, <2>2, ReadOnIInv
<1>10. CASE role \in S!SessionRoles /\ outcome' = "claimed" /\ timer' = FALSE
            /\ early' = early /\ got' = got
  <2>1. role \notin S!EventRoles
    BY <1>10 DEF S!EventRoles, S!SessionRoles
  <2>2. S!FirstDueWins'
    BY <1>10 DEF S!FirstDueWins
  <2> QED  BY <1>1, <1>2, <1>3, <1>4, <1>5, <1>7, <1>10, <2>1, <2>2, EndedIInv
<1>11. CASE role \in S!EventRoles /\ ~S!Waiting /\ early' = early \union {x} /\ timer' = timer
            /\ outcome' = outcome /\ got' = got
  <2>1. early' \union Coming(wire') = early \union Coming(wire)
    BY <1>1, <1>2, <1>11
  <2>2. Owed'
    BY <1>1, <1>5, <1>6, <1>11, <2>1 DEF Owed
  <2>3. role \notin S!SessionRoles
    BY <1>11 DEF S!EventRoles, S!SessionRoles
  <2> QED  BY <1>1, <1>3, <1>11, <2>2, <2>3, ReadOnIInv
<1>12. ASSUME role \in S!EventRoles, S!Waiting, early' = early
       PROVE  /\ x.kind # "wanted" => due = Wanted(Coming(t))
              /\ x.kind = "wanted" => due = Wanted(Coming(t)) \union {x.seq}
              /\ x.seq > highest /\ (\A d \in Coming(t) : d.seq > highest)
              /\ answer = Nothing
  <2>1. due = Wanted(Coming(wire)) /\ \A d \in Coming(wire) : d.seq > highest
    BY <1>1, <1>12 DEF Owed
  <2>2. Wanted(Coming(wire)) = Wanted(Coming(t)) \union Wanted({x})
    BY <1>2, WantedUnion
  <2>3. ~(step \in 1..Len(S!Script))
    BY <1>3, <1>12 DEF S!Waiting
  <2>4. answer = Nothing
    BY <2>3 DEF UnderRequest
  <2> QED  BY <1>2, <2>1, <2>2, <2>4, WantedUnion
<1>13. CASE role \in S!EventRoles /\ S!Waiting /\ early' = early /\ x.kind = "wanted"
            /\ outcome' = "event" /\ timer' = FALSE /\ got' = {x.seq}
  <2>1. due = Wanted(Coming(t)) \union {x.seq} /\ answer = Nothing
    BY <1>12, <1>13
  <2>2. x.seq \in Nat /\ \A d \in Coming(t) : d.seq \in Nat
    BY <1>2, EventSeq
  <2>3. x.seq \in due /\ due \in SUBSET Nat /\ \A j \in due : x.seq <= j
    BY <1>2, <2>1, <2>2 DEF Wanted
  <2>4. S!Min(due) = x.seq
    BY <2>3, LeastIsMin
  <2>5. S!FirstDueWins'
    BY <1>1, <1>13, <2>4 DEF S!FirstDueWins
  <2> QED  BY <1>1, <1>2, <1>3, <1>5, <1>7, <1>13, <2>1, <2>5, EndedIInv
<1>14. CASE role \in S!EventRoles /\ S!Waiting /\ early' = early /\ x.kind # "wanted"
            /\ outcome' = outcome /\ timer' = timer /\ got' = got
  <2>1. due = Wanted(Coming(t)) /\ (\A d \in Coming(t) : d.seq > highest) /\ answer = Nothing
    BY <1>12, <1>14
  <2>2. Paged(wire', answer') = {} \/ S!AtRequest("since")
    BY <1>1, <1>5, <1>14 DEF Owed
  <2>3. Owed'
    BY <1>1, <1>6, <1>14, <2>1, <2>2 DEF Owed
  <2>4. role \notin S!SessionRoles /\ role # "pager"
    BY <1>14 DEF S!EventRoles, S!SessionRoles
  <2> QED  BY <1>1, <1>3, <1>14, <2>3, <2>4, ReadOnIInv
<1>15. \/ (~S!Listening \/ role = "pager") /\ early' = early /\ timer' = timer
           /\ outcome' = outcome /\ got' = got
       \/ role = "events command" /\ early' = early /\ timer' = timer
           /\ outcome' = outcome /\ got' = got \union {x.seq}
       \/ role \in S!SessionRoles /\ outcome' = "claimed" /\ timer' = FALSE
            /\ early' = early /\ got' = got
       \/ role \in S!EventRoles /\ ~S!Waiting /\ early' = early \union {x} /\ timer' = timer
            /\ outcome' = outcome /\ got' = got
       \/ role \in S!EventRoles /\ S!Waiting /\ early' = early /\ x.seq > highest /\ x.kind = "wanted"
            /\ outcome' = "event" /\ timer' = FALSE /\ got' = {x.seq}
       \/ role \in S!EventRoles /\ S!Waiting /\ early' = early /\ ~(x.seq > highest /\ x.kind = "wanted")
            /\ outcome' = outcome /\ timer' = timer /\ got' = got
  BY DEF S!HearLine, S!KeepEarly, S!Settle
<1> HIDE DEF t, x
<1> QED  BY <1>8, <1>9, <1>10, <1>11, <1>12, <1>13, <1>14, <1>15


\* An answer that is read, of a wait that goes on.
LEMMA AnswerRead ==
    ASSUME StreamIInv, answer # Nothing, outcome = Nothing
    PROVE  /\ answer \in AnswerLines /\ ~asked /\ Answering(wire) = {}
           /\ Held(wire, answer) = {answer} /\ Paged(wire, answer) = answer.page.events
           /\ Held(wire, Nothing) = {} /\ Paged(wire, Nothing) = {}
           /\ step \in 1..Len(S!Script)
<1>1. answer \in AnswerLines /\ ~asked /\ Answering(wire) = {} /\ step \in 1..Len(S!Script)
  BY DEF StreamIInv, StreamTyped, UnderRequest
<1>2. Held(wire, answer) = {answer} /\ Held(wire, Nothing) = {}
  BY <1>1 DEF Held
<1>3. Paged(wire, answer) = answer.page.events /\ Paged(wire, Nothing) = {}
  BY <1>2 DEF Paged
<1> QED  BY <1>1, <1>2, <1>3

\* Its continuation, when the wait still goes on.
LEMMA WentOnIInv ==
    ASSUME StreamIInv, answer # Nothing, outcome = Nothing, answer' = Nothing,
           session' = session, cursor' = cursor, ring' = ring, role' = role, early' = early,
           wire' = wire, subscribed' = subscribed, due' = due, outcome' = outcome,
           step' \in 1..Len(S!Script) + 1, asked' \in BOOLEAN, asked' <=> step' \in 1..Len(S!Script),
           midChunk' \in BOOLEAN, timer' \in BOOLEAN,
           since' \in S!Numbers, session # "over" => since' <= cursor,
           highest' \in S!Numbers, session # "over" => highest' <= cursor,
           got' \subseteq S!Numbers, Owed', ClaimComing', S!PagerSkipsNothing'
    PROVE  StreamIInv'
<1> USE DEF StreamIInv
<1>1. /\ Answering(wire) = {} /\ Held(wire', answer') = {} /\ OneAnswer(wire)
  BY AnswerRead DEF UnderRequest
<1>2. S!Script' = S!Script /\ Len(S!Script) \in 1..3
  BY ScriptKept, ScriptLength DEF StreamTyped
<1>3. StreamTyped'
  <2>1. step' \in 0..Len(S!Script') + 1
    BY <1>2
  <2> QED  BY <1>2, <2>1 DEF StreamTyped
<1>4. Numbered'
  BY <1>1 DEF Numbered
<1>5. UnderRequest'
  <2>1. step' # 0
    BY <1>2
  <2> QED  BY <1>1, <1>2, <2>1 DEF UnderRequest
<1>6. PageFollows' /\ S!FirstDueWins'
  BY <1>1, StreamConstants DEF PageFollows, S!FirstDueWins
<1> QED  BY <1>3, <1>4, <1>5, <1>6

LEMMA UnclaimedIInv == StreamIInv /\ S!Unclaimed => StreamIInv'
<1> SUFFICES ASSUME StreamIInv, S!Unclaimed PROVE StreamIInv'
  OBVIOUS
<1> USE DEF StreamIInv
<1>1. /\ answer # Nothing /\ ~answer.ok /\ role \in S!SessionRoles /\ answer' = Nothing
      /\ midChunk' = FALSE /\ step' = step + 1 /\ timer' = TRUE /\ session' = session
      /\ cursor' = cursor /\ ring' = ring /\ subscribed' = subscribed /\ wire' = wire
      /\ role' = role /\ since' = since /\ early' = early /\ highest' = highest
      /\ outcome' = outcome /\ got' = got /\ due' = due
  BY DEF S!Unclaimed, S!busVars
<1>2. asked' = (step < Len(S!Script))
  BY DEF S!Unclaimed
<1>3. /\ role \in Roles /\ step \in 1..Len(S!Script) /\ Len(S!Script) = 2 /\ step \in Nat
      /\ role \notin S!EventRoles /\ role # "pager"
      /\ role = "session tool" => ~S!AtRequest("since")
  <2>1. role \in Roles /\ step \in 1..Len(S!Script) /\ Len(S!Script) \in 1..3
    BY <1>1, ScriptLength DEF StreamTyped, UnderRequest
  <2>2. step \in Nat
    BY <2>1
  <2>3. role \notin S!EventRoles
    BY <1>1 DEF S!EventRoles, S!SessionRoles
  <2> QED  BY <1>1, <2>1, <2>2, <2>3, Scripts
<1>9. (step = 1 \/ step = 2) /\ Len(S!Script) = 2 /\ step' = step + 1
  <2>1. step \in 1..Len(S!Script) /\ Len(S!Script) = 2
    BY <1>3
  <2>2. step' = step + 1
    BY <1>1
  <2> HIDE DEF StreamIInv
  <2> QED  BY <2>1, <2>2
<1>4. /\ asked' \in BOOLEAN /\ (asked' <=> step' \in 1..Len(S!Script))
      /\ step' # 1 /\ (step' = 2 <=> step = 1) /\ (step = 1 => asked')
  <2> DEFINE more == step < Len(S!Script)
  <2>1. more \in BOOLEAN
    OBVIOUS
  <2>2. more <=> step = 1
    BY <1>9
  <2>3. step' \in 1..Len(S!Script) <=> step = 1
    BY <1>9
  <2>4. asked' = more
    BY <1>2
  <2> HIDE DEF more
  <2>5. asked' \in BOOLEAN /\ (asked' <=> step = 1)
    BY <2>1, <2>2, <2>4
  <2>6. step' # 1 /\ (step' = 2 <=> step = 1)
    BY <1>9
  <2> QED  BY <2>3, <2>5, <2>6
<1>5. step' \in 1..Len(S!Script) + 1
  BY <1>9
<1>11. (step >= 2 \/ step = 1) /\ (step = 2 => step >= 2)
  BY <1>9
<1>12. /\ session' = session /\ cursor' = cursor /\ ring' = ring /\ role' = role /\ early' = early
       /\ highest' = highest /\ due' = due /\ wire' = wire /\ since' = since /\ got' = got
  BY <1>1
<1>10. subscribed' \in BOOLEAN /\ midChunk' \in BOOLEAN /\ timer' \in BOOLEAN
      /\ answer' \in {answer, Nothing} /\ answer' = Nothing
  BY <1>1 DEF StreamTyped
<1>6. /\ since \in S!Numbers /\ highest \in S!Numbers /\ got \subseteq S!Numbers
      /\ wire \in Seq(StreamLines) /\ LineInOrder(wire) /\ subscribed \in BOOLEAN
      /\ session # "over" => since <= cursor /\ highest <= cursor
  BY DEF StreamTyped, Numbered
<1>7. CASE outcome # Nothing
  <2>1. outcome' \in {"event", "claimed", "timeout", "failed"}
    BY <1>1, <1>7 DEF StreamTyped
  <2>2. Held(wire', answer') \subseteq Held(wire, answer)
    BY <1>1 DEF Held
  <2>3. S!FirstDueWins'
    BY <1>1, <1>3 DEF S!FirstDueWins
  <2>4. /\ wire' \in Seq(StreamLines) /\ LineInOrder(wire') /\ Coming(wire') \subseteq Coming(wire)
        /\ since' \in S!Numbers /\ (session # "over" => since' <= cursor) /\ got' \subseteq S!Numbers
    BY <1>6, <1>12
  <2>5. /\ session' = session /\ cursor' = cursor /\ ring' = ring /\ role' = role /\ early' = early
        /\ highest' = highest /\ due' = due
    BY <1>1
  <2> QED  BY <1>4, <1>5, <1>10, <2>1, <2>2, <2>3, <2>4, <2>5, EndedIInv
<1>8. CASE outcome = Nothing
  <2>1. /\ Held(wire, answer) = {answer} /\ Held(wire', answer') = {} /\ ~asked
    BY <1>1, <1>8, AnswerRead
  <2>2. Owed' /\ S!PagerSkipsNothing'
    BY <1>1, <1>3 DEF Owed, S!PagerSkipsNothing
  <2>3. ClaimComing'
    <3>1. role = "session tool" => subscribed /\ (session = "live" /\ step = 2 => Coming(wire) # {})
      <4> SUFFICES ASSUME role = "session tool"
                   PROVE  subscribed /\ (session = "live" /\ step = 2 => Coming(wire) # {})
        OBVIOUS
      <4>2. (step >= 2 => subscribed) /\ (step = 1 => subscribed)
        BY <1>8, <2>1 DEF ClaimComing
      <4>3. session = "live" /\ step >= 2 => Coming(wire) # {}
        BY <1>1, <1>8, <2>1 DEF ClaimComing
      <4> QED  BY <1>11, <4>2, <4>3, Zenon
    <3>2. step' # 1 /\ (step' = 2 <=> step = 1) /\ (step = 1 => asked')
          /\ (step = 1 \/ step = 2)
      BY <1>4, <1>9
    <3>3. role' = role /\ session' = session /\ wire' = wire /\ (subscribed' <=> subscribed)
      BY <1>1
    <3> HIDE DEF StreamIInv
    <3> QED  BY <3>1, <3>2, <3>3 DEF ClaimComing
  <2>4. /\ since' \in S!Numbers /\ (session # "over" => since' <= cursor) /\ got' \subseteq S!Numbers
        /\ highest' \in S!Numbers /\ (session # "over" => highest' <= cursor)
    BY <1>6, <1>12
  <2>5. /\ session' = session /\ cursor' = cursor /\ ring' = ring /\ role' = role /\ early' = early
        /\ wire' = wire /\ subscribed' = subscribed /\ due' = due /\ outcome' = outcome
        /\ answer # Nothing
    BY <1>1
  <2> QED  BY <1>4, <1>5, <1>8, <1>10, <2>2, <2>3, <2>4, <2>5, WentOnIInv
<1> QED  BY <1>7, <1>8

\* The end of a wait by anything but what was waited for.
LEMMA GivenUpIInv ==
    ASSUME StreamIInv, S!Refused \/ S!TimesOut \/ S!RequestTimesOut \/ S!StreamLost
    PROVE  StreamIInv'
<1> USE DEF StreamIInv
<1>1. /\ session' = session /\ cursor' = cursor /\ ring' = ring /\ role' = role /\ early' = early
      /\ highest' = highest /\ due' = due /\ step' = step /\ since' = since /\ got' = got
      /\ outcome' \in {"timeout", "failed"} /\ timer' = FALSE
  BY DEF S!Refused, S!TimesOut, S!RequestTimesOut, S!StreamLost, S!Settle, S!busVars, S!lineVars
<1>2. \/ wire' = wire /\ subscribed' = subscribed /\ asked' = asked
      \/ wire' = <<>> /\ subscribed' = FALSE /\ asked' = FALSE
  BY DEF S!Refused, S!TimesOut, S!RequestTimesOut, S!StreamLost, S!lineVars
<1>3. /\ answer' \in {answer, Nothing} /\ midChunk' \in {midChunk, FALSE}
      /\ role \in S!EventRoles => answer' = Nothing
      /\ step # 0
  <2>1. CASE S!Refused
    <3>1. answer # Nothing /\ answer' = Nothing /\ midChunk' = FALSE
      BY <2>1 DEF S!Refused
    <3>2. step # 0
      <4>1. step \in 1..Len(S!Script) /\ Len(S!Script) \in 1..3
        BY <3>1, ScriptLength DEF UnderRequest, StreamTyped
      <4> QED  BY <4>1
    <3> QED  BY <3>1, <3>2
  <2>2. CASE S!TimesOut
    <3>1. answer = Nothing /\ answer' = answer /\ midChunk' = midChunk /\ timer
      BY <2>2 DEF S!TimesOut, S!Undisturbed
    <3> QED  BY <3>1 DEF UnderRequest
  <2>3. CASE S!RequestTimesOut
    <3>1. answer = Nothing /\ answer' = answer /\ midChunk' = midChunk
          /\ step \in 1..Len(S!Script) /\ Len(S!Script) \in 1..3
      BY <2>3, ScriptLength DEF S!RequestTimesOut, S!Undisturbed, StreamTyped
    <3> QED  BY <3>1
  <2>4. CASE S!StreamLost
    <3>1. answer = Nothing /\ answer' = answer /\ midChunk' = midChunk /\ step > 0
      BY <2>4 DEF S!StreamLost, S!Undisturbed
    <3> QED  BY <3>1
  <2> QED  BY <2>1, <2>2, <2>3, <2>4
<1>4. /\ wire' \in Seq(StreamLines) /\ LineInOrder(wire') /\ Coming(wire') \subseteq Coming(wire)
      /\ Answering(wire') \subseteq Answering(wire)
  <2>1. <<>> \in Seq(StreamLines)
    OBVIOUS
  <2>2. LineInOrder(wire) /\ wire \in Seq(StreamLines)
    BY DEF Numbered, StreamTyped
  <2>3. CASE wire' = wire
    BY <2>2, <2>3
  <2>4. CASE wire' = <<>>
    BY <2>1, <2>4, LineEmpty
  <2> QED  BY <1>2, <2>3, <2>4
<1>5. Held(wire', answer') \subseteq Held(wire, answer)
  BY <1>3, <1>4 DEF Held
<1>6. subscribed' \in BOOLEAN /\ asked' \in BOOLEAN /\ midChunk' \in BOOLEAN
  BY <1>2, <1>3 DEF StreamTyped
<1>7. /\ step' \in 1..Len(S!Script) + 1 /\ (answer' # Nothing => step' \in 1..Len(S!Script))
      /\ since' \in S!Numbers /\ (session # "over" => since' <= cursor) /\ got' \subseteq S!Numbers
      /\ timer' \in BOOLEAN
  <2>1. step \in 0..Len(S!Script) + 1 /\ Len(S!Script) \in 1..3
    BY ScriptLength DEF StreamTyped
  <2>2. step' = step /\ since' = since /\ got' = got /\ timer' = FALSE /\ step # 0
    BY <1>1, <1>3
  <2>3. step' \in 1..Len(S!Script) + 1
    BY <2>1, <2>2
  <2>4. answer' # Nothing => step' \in 1..Len(S!Script)
    BY <1>3, <2>2 DEF UnderRequest
  <2>5. since \in S!Numbers /\ (session # "over" => since <= cursor) /\ got \subseteq S!Numbers
    BY DEF StreamTyped, Numbered
  <2> QED  BY <2>2, <2>3, <2>4, <2>5
<1>8. S!FirstDueWins'
  BY <1>1 DEF S!FirstDueWins
<1>9. outcome' \in {"event", "claimed", "timeout", "failed"}
  BY <1>1
<1> QED  BY <1>1, <1>3, <1>4, <1>5, <1>6, <1>7, <1>8, <1>9, EndedIInv


LEMMA GoOnIInv == StreamIInv /\ S!GoOn => StreamIInv'
<1> SUFFICES ASSUME StreamIInv, S!GoOn PROVE StreamIInv'
  OBVIOUS
<1> USE DEF StreamIInv
<1>1. /\ answer # Nothing /\ answer.ok /\ answer' = Nothing
      /\ session' = session /\ cursor' = cursor /\ ring' = ring /\ role' = role /\ early' = early
      /\ wire' = wire /\ subscribed' = subscribed /\ due' = due
  BY DEF S!GoOn, S!busVars
<1>2. midChunk' \in BOOLEAN
  BY DEF S!GoOn
<1>3. /\ role \in Roles /\ step \in 1..Len(S!Script) /\ Len(S!Script) \in 1..3 /\ step \in Nat
      /\ answer \in AnswerLines
  <2>1. role \in Roles /\ step \in 1..Len(S!Script) /\ Len(S!Script) \in 1..3
    BY <1>1, ScriptLength DEF StreamTyped, UnderRequest
  <2> QED  BY <1>1, <2>1 DEF StreamTyped
<1>4. /\ subscribed \in BOOLEAN /\ asked \in BOOLEAN /\ timer \in BOOLEAN
      /\ since \in S!Numbers /\ highest \in S!Numbers /\ got \subseteq S!Numbers
      /\ wire \in Seq(StreamLines) /\ LineInOrder(wire)
      /\ session # "over" => since <= cursor /\ highest <= cursor
  BY DEF StreamTyped, Numbered
<1>5. /\ answer.page.cursor \in S!Numbers /\ answer.page.events \subseteq S!Events
      /\ session # "over" => answer.page.cursor <= cursor /\ \A e \in answer.page.events : e.seq <= cursor
  BY <1>1, <1>3 DEF AnswerLines, Held, Numbered
<1>6. S!Script' = S!Script /\ Held(wire', answer') \subseteq Held(wire, answer)
  BY <1>1, ScriptKept DEF Held
<1>7. outcome = Nothing =>
        /\ ~asked /\ Held(wire, answer) = {answer} /\ Held(wire', answer') = {}
        /\ Paged(wire, answer) = answer.page.events /\ Paged(wire', answer') = {}
  BY <1>1, AnswerRead
<1>8. role \in S!EventRoles => outcome = Nothing
  BY <1>1 DEF Owed
\* What has been answered decides a wait for a session.
<1>9. CASE /\ role \in S!SessionRoles /\ outcome' = "claimed" /\ timer' = FALSE
           /\ asked' = asked /\ since' = since /\ step' = step /\ highest' = highest /\ got' = got
  <2>1. step' \in 1..Len(S!Script) + 1 /\ timer' \in BOOLEAN /\ asked' \in BOOLEAN
    <3>1. step' = step /\ timer' = FALSE /\ asked' = asked
      BY <1>9
    <3>2. step' \in 1..Len(S!Script) + 1
      BY <1>3, <3>1
    <3> QED  BY <1>4, <3>1, <3>2
  <2>2. since' \in S!Numbers /\ (session # "over" => since' <= cursor) /\ got' \subseteq S!Numbers
    BY <1>1, <1>4, <1>9
  <2>3. S!FirstDueWins'
    BY <1>9 DEF S!FirstDueWins
  <2>4. wire' \in Seq(StreamLines) /\ LineInOrder(wire') /\ Coming(wire') \subseteq Coming(wire)
    BY <1>1, <1>4
  <2>5. subscribed' \in BOOLEAN
    BY <1>1, <1>4
  <2> QED  BY <1>1, <1>2, <1>6, <1>9, <2>1, <2>2, <2>3, <2>4, <2>5, EndedIInv
\* A wait that had ended already: nothing of it matters any more.
<1>10. ASSUME outcome # Nothing, outcome' = outcome, step' \in 1..Len(S!Script) + 1,
              asked' \in BOOLEAN, timer' \in BOOLEAN, since' \in S!Numbers,
              session # "over" => since' <= cursor, highest' = highest, got' \subseteq S!Numbers
       PROVE  StreamIInv'
  <2>1. outcome' \in {"event", "claimed", "timeout", "failed"}
    BY <1>10 DEF StreamTyped
  <2>2. S!FirstDueWins'
    BY <1>1, <1>8, <1>10 DEF S!FirstDueWins
  <2>3. wire' \in Seq(StreamLines) /\ LineInOrder(wire') /\ Coming(wire') \subseteq Coming(wire)
    BY <1>1, <1>4
  <2>4. subscribed' \in BOOLEAN
    BY <1>1, <1>4
  <2> QED  BY <1>1, <1>2, <1>6, <1>10, <2>1, <2>2, <2>3, <2>4, EndedIInv
\* The next request.
<1>11. CASE /\ ~(role \in S!SessionRoles /\ S!AtRequest("describe")) /\ step < Len(S!Script)
            /\ step' = step + 1 /\ asked' = TRUE /\ since' = since /\ highest' = highest
            /\ timer' = timer /\ outcome' = outcome /\ got' = got
  <2>1. step' \in 1..Len(S!Script) + 1 /\ asked' \in BOOLEAN /\ (asked' <=> step' \in 1..Len(S!Script))
        /\ timer' \in BOOLEAN
    BY <1>3, <1>4, <1>11
  <2>2. since' \in S!Numbers /\ (session # "over" => since' <= cursor) /\ got' \subseteq S!Numbers
        /\ highest' \in S!Numbers /\ (session # "over" => highest' <= cursor)
    BY <1>1, <1>4, <1>11
  <2>3. CASE outcome # Nothing
    BY <1>10, <1>11, <2>1, <2>2, <2>3
  <2>4. CASE outcome = Nothing
    <3>1. Owed'
      <4> SUFFICES ASSUME role \in S!EventRoles PROVE Owed'
        BY <1>1 DEF Owed
      <4>1. ~S!AtRequest("since") /\ ~S!Waiting /\ ~S!Waiting'
        <5>1. step # Len(S!Script) /\ ~(step > Len(S!Script)) /\ ~(step' > Len(S!Script))
          BY <1>3, <1>11
        <5> QED  BY <1>3, <1>6, <5>1, Scripts DEF S!Waiting
      <4> QED  BY <1>1, <1>7, <1>11, <2>4, <4>1 DEF Owed
    <3>2. ClaimComing'
      <4>1. role = "session tool" => subscribed
        <5>1. role = "session tool" => step = 1
          <6>1. role = "session tool" => (S!AtRequest("describe") <=> step = 2) /\ Len(S!Script) = 2
            BY <1>3, Scripts
          <6>2. role = "session tool" => role \in S!SessionRoles
            BY DEF S!SessionRoles
          <6>3. step \in 1..2 /\ step # 2 => step = 1
            OBVIOUS
          <6> QED  BY <1>3, <1>11, <6>1, <6>2, <6>3
        <5> QED  BY <1>7, <2>4, <5>1 DEF ClaimComing
      <4>2. role = "session tool" => Len(S!Script) = 2
        BY <1>3, Scripts
      <4>3. Len(S!Script) = 2 => step' = 2
        BY <1>3, <1>11
      <4>4. asked' /\ role' = role /\ (subscribed' <=> subscribed)
        BY <1>1, <1>11
      <4> HIDE DEF StreamIInv
      <4> QED  BY <4>1, <4>2, <4>3, <4>4 DEF ClaimComing
    <3>3. S!PagerSkipsNothing'
      BY <1>1, <1>11 DEF S!PagerSkipsNothing
    <3> QED  BY <1>1, <1>2, <1>11, <2>1, <2>2, <2>4, <3>1, <3>2, <3>3, WentOnIInv
  <2> QED  BY <2>3, <2>4
\* What has happened already decides a wait for an event, or it goes on.
<1>12. ASSUME role \in S!EventRoles, S!AtRequest("since"), step' = step + 1, S!Scan,
              asked' = asked, since' = since
       PROVE  StreamIInv'
  <2> DEFINE B == S!Backlog
             W == {e \in B : e.kind = "wanted"}
  <2>1. outcome = Nothing /\ ~asked /\ B = answer.page.events \union early /\ B \in SUBSET S!Events
        /\ Coming(wire) \subseteq S!Events
    BY <1>4, <1>5, <1>7, <1>8, <1>12, LineSets DEF S!Backlog, StreamTyped
  <2>2. step = Len(S!Script) /\ step' = Len(S!Script) + 1
    BY <1>3, <1>12, Scripts
  <2>3. ~S!Waiting /\ S!Waiting' /\ ~S!AtRequest("since")'
    BY <1>3, <1>6, <2>2 DEF S!Waiting, S!AtRequest
  <2>4. due = Wanted(B) \union Wanted(Coming(wire))
    <3>1. due = Wanted(early \union Coming(wire) \union answer.page.events)
      BY <1>7, <1>12, <2>1, <2>3 DEF Owed
    <3> QED  BY <2>1, <3>1, WantedUnion
  <2>5. \A e \in B, d \in Coming(wire) : e.seq < d.seq
    BY <1>1, <2>1 DEF Numbered, Precede
  <2>6. step' \in 1..Len(S!Script) + 1 /\ asked' \in BOOLEAN /\ ~(step' \in 1..Len(S!Script)) /\ ~asked'
    BY <1>3, <1>4, <1>12, <2>1, <2>2
  <2>7. since' \in S!Numbers /\ (session # "over" => since' <= cursor)
    BY <1>4, <1>12
  <2>8. Wanted(B) = {e.seq : e \in W}
    BY DEF Wanted
  <2>9. /\ W # {} => outcome' = "event" /\ timer' = FALSE /\ got' = {S!Oldest(W).seq} /\ highest' = highest
        /\ W = {} => /\ highest' = IF B # {} THEN S!Newest(B).seq ELSE answer.page.cursor
                     /\ timer' = TRUE /\ outcome' = outcome /\ got' = got
    BY <1>12 DEF S!Scan, S!Settle
  <2>10. CASE W # {}
    <3>1. W \in SUBSET S!Events
      BY <2>1
    <3> HIDE DEF W
    <3>2. S!Oldest(W) \in W /\ \A d \in W : S!Oldest(W).seq <= d.seq
      BY <2>10, <3>1, OldestIs
    <3> DEFINE n == S!Oldest(W).seq
    <3>3. n \in Nat /\ n \in S!Numbers
      BY <3>1, <3>2, EventSeq
    <3>4. \A j \in due : j \in Nat /\ n <= j
      <4>1. \A j \in Wanted(B) : j \in Nat /\ n <= j
        BY <2>8, <3>1, <3>2, EventSeq
      <4>2. \A d \in Coming(wire) : d.seq \in Nat /\ n <= d.seq
        <5>1. S!Oldest(W) \in B
          BY <3>2 DEF W
        <5> QED  BY <2>1, <2>5, <3>3, <5>1, EventSeq
      <4>3. \A j \in Wanted(Coming(wire)) : j \in Nat /\ n <= j
        BY <4>2 DEF Wanted
      <4> QED  BY <2>4, <4>1, <4>3
    <3>5. n \in due
      BY <2>4, <2>8, <3>2
    <3> HIDE DEF n
    <3>6. S!Min(due) = n
      BY <3>4, <3>5, LeastIsMin
    <3>7. got' = {n} /\ outcome' = "event" /\ timer' \in BOOLEAN /\ highest' = highest
      BY <2>9, <2>10 DEF n
    <3>8. S!FirstDueWins'
      BY <1>1, <3>6, <3>7 DEF S!FirstDueWins
    <3>9. got' \subseteq S!Numbers
      BY <3>3, <3>7
    <3>10. /\ wire' \in Seq(StreamLines) /\ LineInOrder(wire') /\ Coming(wire') \subseteq Coming(wire)
           /\ subscribed' \in BOOLEAN
      BY <1>1, <1>4
    <3> QED  BY <1>1, <1>2, <1>6, <2>6, <2>7, <3>7, <3>8, <3>9, <3>10, EndedIInv
  <2>11. CASE W = {}
    <3>1. Wanted(B) = {}
      BY <2>8, <2>11
    <3>2. due = Wanted(Coming(wire))
      BY <2>4, <3>1
    <3> HIDE DEF W
    <3>3. highest' = (IF B # {} THEN S!Newest(B).seq ELSE answer.page.cursor)
          /\ timer' = TRUE /\ outcome' = outcome /\ got' = got
      BY <2>9, <2>11
    <3>4. /\ highest' \in S!Numbers /\ (session # "over" => highest' <= cursor)
          /\ \A d \in Coming(wire) : d.seq > highest'
      <4>1. CASE B # {}
        <5>1. S!Newest(B) \in B
          BY <2>1, <4>1, NewestIs
        <5>2. highest' = S!Newest(B).seq
          BY <3>3, <4>1
        <5>3. session # "over" => S!Newest(B).seq <= cursor
          BY <1>5, <2>1, <5>1 DEF Numbered
        <5>4. S!Newest(B).seq \in S!Numbers /\ S!Newest(B).seq \in Nat
          BY <2>1, <5>1, EventSeq
        <5>5. \A d \in Coming(wire) : d.seq \in Nat /\ S!Newest(B).seq < d.seq
          BY <2>1, <2>5, <5>1, EventSeq
        <5> QED  BY <5>2, <5>3, <5>4, <5>5
      <4>2. CASE B = {}
        <5>1. highest' = answer.page.cursor
          BY <3>3, <4>2
        <5>2. \A d \in Coming(wire) : d.seq \in Nat /\ answer.page.cursor < d.seq
          BY <1>1, <2>1, EventSeq DEF Numbered, Precede
        <5>3. answer.page.cursor \in Nat
          BY <1>5, EventSeq
        <5> QED  BY <1>5, <5>1, <5>2, <5>3
      <4> QED  BY <4>1, <4>2
    <3>5. Owed'
      BY <1>1, <1>7, <2>1, <2>3, <3>2, <3>3, <3>4 DEF Owed
    <3>6. role \notin S!SessionRoles /\ role # "pager"
      BY <1>12 DEF S!EventRoles, S!SessionRoles
    <3>7. ClaimComing' /\ S!PagerSkipsNothing'
      BY <1>1, <3>6 DEF ClaimComing, S!PagerSkipsNothing, S!SessionRoles
    <3>8. timer' \in BOOLEAN /\ got' \subseteq S!Numbers
      BY <1>4, <3>3
    <3>9. outcome' = outcome /\ (asked' <=> step' \in 1..Len(S!Script))
      BY <2>6, <3>3
    <3> QED  BY <1>1, <1>2, <2>1, <2>6, <2>7, <3>4, <3>5, <3>7, <3>8, <3>9, WentOnIInv
  <2> QED  BY <2>10, <2>11
\* The last request of those that wait for a claim, or write events.
<1>13. CASE /\ step = Len(S!Script) /\ S!AtRequest("subscribe") /\ step' = step + 1
            /\ asked' = asked /\ since' = since /\ highest' = highest /\ timer' = timer
            /\ outcome' = outcome /\ got' = got
  <2>1. step' \in 1..Len(S!Script) + 1 /\ asked' \in BOOLEAN /\ ~(step' \in 1..Len(S!Script))
        /\ timer' \in BOOLEAN
    BY <1>3, <1>4, <1>13
  <2>2. since' \in S!Numbers /\ (session # "over" => since' <= cursor) /\ got' \subseteq S!Numbers
        /\ highest' \in S!Numbers /\ (session # "over" => highest' <= cursor)
    BY <1>1, <1>4, <1>13
  <2>3. role \notin S!EventRoles /\ role # "session tool"
    <3>1. S!Script[step] = "subscribe"
      BY <1>13 DEF S!AtRequest
    <3>2. ~S!AtRequest("since")
      BY <3>1 DEF S!AtRequest
    <3>3. role \notin S!EventRoles
      BY <1>3, <1>13, <3>2, Scripts
    <3>4. role = "session tool" => step = 1 /\ Len(S!Script) = 2
      BY <1>3, <1>13, Scripts
    <3>5. ~(step = 1 /\ Len(S!Script) = 2)
      BY <1>13
    <3> QED  BY <3>3, <3>4, <3>5
  <2>4. CASE outcome # Nothing
    BY <1>10, <1>13, <2>1, <2>2, <2>4
  <2>5. CASE outcome = Nothing
    <3>1. Owed' /\ ClaimComing'
      BY <1>1, <2>3 DEF Owed, ClaimComing
    <3>2. S!PagerSkipsNothing'
      BY <1>1, <1>13 DEF S!PagerSkipsNothing
    <3>3. asked' <=> step' \in 1..Len(S!Script)
      BY <1>7, <1>13, <2>1, <2>5
    <3> QED  BY <1>1, <1>2, <1>13, <2>1, <2>2, <2>5, <3>1, <3>2, <3>3, WentOnIInv
  <2> QED  BY <2>4, <2>5
\* The next page.
<1>14. CASE /\ role = "pager" /\ got' = got \union {e.seq : e \in answer.page.events}
            /\ since' = answer.page.cursor /\ asked' = TRUE /\ step' = step /\ highest' = highest
            /\ timer' = timer /\ outcome' = outcome
  <2>1. step' \in 1..Len(S!Script) + 1 /\ asked' \in BOOLEAN /\ (asked' <=> step' \in 1..Len(S!Script))
        /\ timer' \in BOOLEAN
    BY <1>3, <1>4, <1>14
  <2>2. since' \in S!Numbers /\ (session # "over" => since' <= cursor)
        /\ highest' \in S!Numbers /\ (session # "over" => highest' <= cursor)
    BY <1>1, <1>4, <1>5, <1>14
  <2>3. got' \subseteq S!Numbers
    BY <1>4, <1>5, <1>14, EventSeq
  <2>4. CASE outcome # Nothing
    BY <1>10, <1>14, <2>1, <2>2, <2>3, <2>4
  <2>5. CASE outcome = Nothing
    <3>1. role \notin S!EventRoles /\ role # "session tool"
      BY <1>14 DEF S!EventRoles
    <3>2. Owed' /\ ClaimComing'
      BY <1>1, <3>1 DEF Owed, ClaimComing
    <3>3. S!PagerSkipsNothing'
      <4> SUFFICES ASSUME NEW e \in S!ToSet(ring), e.kind \in S!AppKinds, e.seq <= since'
                   PROVE  e.seq \in got'
        BY <1>1 DEF S!PagerSkipsNothing
      <4>1. e.seq \in Nat /\ since \in Nat
        BY <1>4, ToSetIs, EventSeq DEF StreamTyped
      <4>2. CASE e.seq <= since
        BY <1>14, <2>5, <4>2 DEF S!PagerSkipsNothing
      <4>3. CASE since < e.seq
        <5>1. e \in answer.page.events
          BY <1>1, <1>7, <1>14, <2>5, <4>3 DEF PageFollows
        <5> QED  BY <1>14, <5>1
      <4> QED  BY <4>1, <4>2, <4>3
    <3> QED  BY <1>1, <1>2, <1>14, <2>1, <2>2, <2>3, <2>5, <3>2, <3>3, WentOnIInv
  <2> QED  BY <2>4, <2>5
<1>15. \/ /\ role \in S!SessionRoles /\ outcome' = "claimed" /\ timer' = FALSE
          /\ asked' = asked /\ since' = since /\ step' = step /\ highest' = highest /\ got' = got
       \/ /\ ~(role \in S!SessionRoles /\ S!AtRequest("describe")) /\ step < Len(S!Script)
          /\ step' = step + 1 /\ asked' = TRUE /\ since' = since /\ highest' = highest
          /\ timer' = timer /\ outcome' = outcome /\ got' = got
       \/ /\ role \in S!EventRoles /\ S!AtRequest("since") /\ step' = step + 1 /\ S!Scan
          /\ asked' = asked /\ since' = since
       \/ /\ step = Len(S!Script) /\ S!AtRequest("subscribe") /\ step' = step + 1
          /\ asked' = asked /\ since' = since /\ highest' = highest /\ timer' = timer
          /\ outcome' = outcome /\ got' = got
       \/ /\ role = "pager" /\ got' = got \union {e.seq : e \in answer.page.events}
          /\ since' = answer.page.cursor /\ asked' = TRUE /\ step' = step /\ highest' = highest
          /\ timer' = timer /\ outcome' = outcome
  BY DEF S!GoOn, S!Settle, S!ClientAsks
<1> QED  BY <1>9, <1>11, <1>12, <1>13, <1>14, <1>15


LEMMA StreamStep == StreamIInv /\ [S!StreamNext]_S!streamVars => StreamIInv'
<1> SUFFICES ASSUME StreamIInv, [S!StreamNext]_S!streamVars PROVE StreamIInv'
  OBVIOUS
<1>1. CASE UNCHANGED S!streamVars
  <2>1. /\ session' = session /\ cursor' = cursor /\ ring' = ring /\ subscribed' = subscribed
        /\ asked' = asked /\ wire' = wire /\ role' = role /\ since' = since /\ step' = step
        /\ answer' = answer /\ midChunk' = midChunk /\ early' = early /\ highest' = highest
        /\ timer' = timer /\ outcome' = outcome /\ got' = got /\ due' = due
    BY <1>1 DEF S!streamVars, S!busVars, S!lineVars, S!clientVars
  <2>2. S!Script' = S!Script
    BY <2>1, ScriptKept
  <2>3. (S!Waiting' <=> S!Waiting) /\ (S!AtRequest("since")' <=> S!AtRequest("since"))
    BY <2>1, <2>2 DEF S!Waiting, S!AtRequest
  <2>4. StreamTyped' /\ Numbered' /\ UnderRequest'
    BY <2>1, <2>2 DEF StreamIInv, StreamTyped, Numbered, UnderRequest
  <2>5. Owed'
    BY <2>1, <2>3 DEF StreamIInv, Owed
  <2>6. ClaimComing' /\ PageFollows' /\ S!FirstDueWins' /\ S!PagerSkipsNothing'
    BY <2>1 DEF StreamIInv, ClaimComing, PageFollows, S!FirstDueWins, S!PagerSkipsNothing
  <2> QED  BY <2>4, <2>5, <2>6 DEF StreamIInv
<1>2. CASE \E k \in S!Kinds : S!Happens(k)
  BY <1>2, HappensIInv
<1>3. CASE S!Claimed \/ S!Over \/ S!Begin
  BY <1>3, ClaimedIInv, OverIInv, BeginIInv
<1>4. CASE S!ServeStream
  <2>1. S!ServeDescribe \/ S!ServeSubscribe \/ S!ServeSince
    BY <1>4 DEF S!ServeStream
  <2> QED  BY <1>4, <2>1, ServeDescribeIInv, ServeSubscribeIInv, ServeSinceIInv
<1>5. CASE S!HearAnswerLine \/ S!HearLine \/ S!GoOn \/ S!Unclaimed
  BY <1>5, HearAnswerLineIInv, HearLineIInv, GoOnIInv, UnclaimedIInv
<1>6. CASE S!Refused \/ S!TimesOut \/ S!RequestTimesOut \/ S!StreamLost
  BY <1>6, GivenUpIInv
<1> QED  BY <1>1, <1>2, <1>3, <1>4, <1>5, <1>6 DEF S!StreamNext, S!ClientSteps

LEMMA StreamIsSound == StreamIInv => S!StreamsSound
<1> SUFFICES ASSUME StreamIInv PROVE S!StreamsSound
  OBVIOUS
<1> USE DEF StreamIInv
<1>1. S!StreamTypeOK
  <2>1. ring \in Seq(S!Events) /\ wire \in Seq(StreamLines) /\ Len(ring) \in Nat
    BY DEF StreamTyped
  <2>2. \A i \in 1..Len(ring) : ring[i] \in S!Events /\ ring[i].seq <= cursor
    BY <2>1, ToSetIs DEF Numbered
  <2>3. \A i, k \in 1..Len(ring) : i < k => ring[i].seq < ring[k].seq
    BY DEF Numbered, RingInOrder
  <2> DEFINE At == {i \in 1..Len(wire) : wire[i].is = "answer"}
  <2>4. ASSUME outcome = Nothing
        PROVE  S!Cardinality(At) + (IF asked THEN 1 ELSE 0) + (IF answer # Nothing THEN 1 ELSE 0)
                 = IF step \in 1..Len(S!Script) THEN 1 ELSE 0
    <3>1. Answering(wire) = {wire[i] : i \in At}
      BY <2>1, ToSetIs DEF Answering
    <3>2. \A i, j \in At : i = j
      BY <2>4 DEF UnderRequest, OneAnswer
    <3>3. /\ asked => answer = Nothing /\ Answering(wire) = {}
          /\ answer # Nothing => Answering(wire) = {}
          /\ asked \/ Held(wire, answer) # {} <=> step \in 1..Len(S!Script)
      BY <2>4 DEF UnderRequest
    <3>4. Held(wire, answer) # {} <=> Answering(wire) # {} \/ answer # Nothing
      BY DEF Held
    <3> HIDE DEF At
    <3> DEFINE Count == S!Cardinality(At)
               Asked1 == IF asked THEN 1 ELSE 0
               Read1 == IF answer # Nothing THEN 1 ELSE 0
               Owing == IF step \in 1..Len(S!Script) THEN 1 ELSE 0
    <3>5. Answering(wire) = {} => Count = 0
      <4>1. Answering(wire) = {} => At = {}
        BY <3>1
      <4> QED  BY <4>1, SameCardinality, FS_EmptySet
    <3>6. Answering(wire) # {} => Count = 1
      <4> SUFFICES ASSUME NEW i \in At PROVE Count = 1
        BY <3>1
      <4>1. At = {i}
        BY <3>2
      <4> QED  BY <4>1, SameCardinality, FS_Singleton
    <3> HIDE DEF Count
    <3>7. CASE Answering(wire) # {}
      <4>1. ~asked /\ answer = Nothing /\ step \in 1..Len(S!Script)
        BY <3>3, <3>4, <3>7
      <4>2. Asked1 = 0 /\ Read1 = 0 /\ Owing = 1
        BY <4>1
      <4> HIDE DEF Asked1, Read1, Owing
      <4>3. Count + Asked1 + Read1 = Owing
        BY <3>6, <3>7, <4>2
      <4> QED  BY <4>3 DEF Count, Asked1, Read1, Owing
    <3>8. CASE Answering(wire) = {}
      <4>1. (asked \/ answer # Nothing <=> step \in 1..Len(S!Script)) /\ ~(asked /\ answer # Nothing)
        BY <3>3, <3>4, <3>8
      <4>2. Asked1 \in Nat /\ Read1 \in Nat /\ Asked1 + Read1 = Owing
        BY <4>1
      <4> HIDE DEF Asked1, Read1, Owing
      <4>3. Count + Asked1 + Read1 = Owing
        BY <3>5, <3>8, <4>2
      <4> QED  BY <4>3 DEF Count, Asked1, Read1, Owing
    <3> QED  BY <3>7, <3>8
  <2>5. outcome = Nothing =>
          S!Cardinality({i \in 1..Len(wire) : wire[i].is = "answer"})
          + (IF asked THEN 1 ELSE 0) + (IF answer # Nothing THEN 1 ELSE 0)
            = IF step \in 1..Len(S!Script) THEN 1 ELSE 0
    <3> HIDE DEF At
    <3> SUFFICES ASSUME outcome = Nothing
                 PROVE  S!Cardinality(At) + (IF asked THEN 1 ELSE 0) + (IF answer # Nothing THEN 1 ELSE 0)
                          = IF step \in 1..Len(S!Script) THEN 1 ELSE 0
      BY DEF At
    <3> QED  BY <2>4
  <2> QED  BY <2>2, <2>3, <2>5 DEF S!StreamTypeOK, StreamTyped
<1>2. ASSUME S!Quiescent, S!Waiting
      PROVE  outcome = Nothing /\ Coming(wire) = {} /\ Held(wire, answer) = {} /\ step > Len(S!Script)
  BY <1>2, LineEmpty DEF S!Quiescent, S!Waiting, Held
<1>3. S!NoEventMissed
  <2> SUFFICES ASSUME role \in S!EventRoles, S!Quiescent, S!Waiting PROVE due = {}
    BY DEF S!NoEventMissed
  <2> QED  BY <1>2, WantedUnion DEF Owed
<1>4. step \in Nat /\ (Len(S!Script) = 2 /\ step > Len(S!Script) => step >= 2 /\ step # 2)
  <2>1. step \in 0..Len(S!Script) + 1 /\ Len(S!Script) \in 1..3
    BY ScriptLength DEF StreamTyped
  <2> HIDE DEF StreamIInv
  <2> DEFINE n == Len(S!Script)
  <2> HIDE DEF n
  <2>2. step \in 0..n + 1 /\ n \in 1..3
    BY <2>1 DEF n
  <2>3. step \in Nat /\ (n = 2 /\ step > n => step >= 2 /\ step # 2)
    BY <2>2
  <2> QED  BY <2>3 DEF n
<1>5. S!ToolSeesClaim
  <2> SUFFICES ASSUME role = "session tool", S!Quiescent, S!Waiting PROVE session # "live"
    BY DEF S!ToolSeesClaim, S!ClaimNoticedBy
  <2>1. Len(S!Script) = 2
    BY <1>4, Scripts DEF StreamTyped
  <2>2. step >= 2 /\ step # 2
    BY <1>2, <1>4, <2>1
  <2> QED  BY <1>2, <2>2 DEF ClaimComing
<1> QED  BY <1>1, <1>3, <1>5 DEF S!StreamsSound

\* A client that waits for an event is given the first that was due to it, none is lost while it
\* subscribes or reads what is retained, and a claim that precedes its question is noticed: of a
\* client of any kind, whatever the sizes of the ring and of a page.
THEOREM StreamSpecSound == S!StreamSpec => []S!StreamsSound
<1>1. S!StreamSpec => []StreamIInv
  BY StreamInitIInv, StreamStep, PTL DEF S!StreamSpec
<1> QED  BY <1>1, StreamIsSound, PTL

\* The invariant of the run's behaviours: of the scene of the streams, and of any other.
LEMMA SpecStreamIInv == Spec => []StreamIInv
<1>1. Init => StreamIInv
  BY StreamInitIInv DEF Init
<1>2. StreamIInv /\ [Next]_vars => StreamIInv'
  <2> SUFFICES ASSUME StreamIInv, [Next]_vars PROVE StreamIInv'
    OBVIOUS
  <2>1. [S!StreamNext]_S!streamVars
    BY DEF Next, vars, InStreams, InProgress, InInvocation, OnConnection, streamVars,
           S!streamVars, S!busVars, S!lineVars, S!clientVars
  <2> QED  BY <2>1, StreamStep
<1> QED  BY <1>1, <1>2, PTL DEF Spec

\* The same of the run's behaviours: StreamsSound.
THEOREM SpecStreamsSound == Spec => []StreamsSound
<1>1. StreamIInv => StreamsSound
  BY StreamIsSound DEF StreamsSound
<1> QED  BY <1>1, SpecStreamIInv, PTL

\* Whoever pages with since, limit and the cursor that is returned is given every event of the
\* kinds it asked for that is still retained, whatever the sizes of the ring and of a page.
THEOREM SpecPagerSkipsNothing == Spec => []PagerSkipsNothing
<1>1. StreamIInv => PagerSkipsNothing
  BY DEF StreamIInv, PagerSkipsNothing
<1> QED  BY <1>1, SpecStreamIInv, PTL

-------------------------------------------------------------------------------
(***************************************************************************)
(* A connection of the control plane, for any numbers of calls and events, *)
(* any caps on a line and on what a reader has not read.                   *)
(***************************************************************************)
Chars == {"plain", "wide", "rest", "garbled", R!NewLine}
QueuedLines == [what : {"answer", "event"}, of : Nat, size : Nat]

\* The first l bytes of a request, as the l characters of the text that follow the first a of it:
\* of a wide character the server reads both halves at once, or each by itself.
Halves(text, p, l, i) ==
    \/ text[p] = "garbled" /\ (i < l => text[p + 1] = "garbled")
    \/ i < l /\ text[p] = "wide" /\ text[p + 1] = "rest"
ReadsAs(text, a, l, line) ==
    /\ \A i \in 1..l : line[i] = "plain" => text[a + i] = "plain"
    /\ \A i \in 1..l : line[i] = "lead" => Halves(text, a + i, l, i)

\* What the server has buffered and what is on its way are the requests that it has not
\* handled: e[c] is where the line of call c ends, after the end of the one before.
Ends(e) ==
    /\ e \in [Len(handled)..Len(request) -> Nat]
    /\ e[Len(handled)] = 0 /\ e[Len(request)] = Len(buffer) + Len(bytes)
    /\ \A c, d \in Len(handled)..Len(request) : c < d => e[c] < e[d]
    /\ \A c \in Len(handled) + 1..Len(request) :
         /\ e[c] = e[c - 1] + Len(request[c]) + 1
         /\ e[c] > Len(buffer)
         /\ bytes[e[c] - Len(buffer)] = R!NewLine
         /\ \A i \in 1..Len(request[c]) :
              e[c - 1] + i > Len(buffer) => bytes[e[c - 1] + i - Len(buffer)] = request[c][i]
    /\ Len(handled) < Len(request) =>
         ReadsAs(buffer, 0, Len(buffer), request[Len(handled) + 1])

BytesInLine == conn = "open" => ~refused /\ \E e : Ends(e)

\* The sizes of what is queued, summed up.
Sums(q, s) ==
    /\ s \in [0..Len(q) -> Int] /\ s[0] = 0
    /\ \A n \in 1..Len(q) : s[n] = s[n - 1] + q[n].size
AnswersOnlyBeyond == \E s : /\ Sums(out, s)
                            /\ \A n \in 1..Len(out) :
                                 out[n].what = "event" => s[n] <= MaxNotifyBuffered + 1

\* The events that are queued follow those that were heard, one by one.
NumbersIn(q) == {q[i].of : i \in {j \in 1..Len(q) : q[j].what = "event"}}
Ascending(q) ==
    \A i, j \in 1..Len(q) : i < j /\ q[i].what = "event" /\ q[j].what = "event" => q[i].of < q[j].of
NothingSkipped ==
    /\ Ascending(out) /\ Ascending(flushed)
    /\ \E mid \in Nat : /\ Len(heard) <= mid /\ mid <= occurred
                        /\ NumbersIn(flushed) = Len(heard) + 1..mid
                        /\ conn = "open" => NumbersIn(out) = mid + 1..occurred

CallsTyped ==
    /\ made \in 0..MaxCalls
    /\ ended \in [R!Ids -> {R!Unsettled, R!Outcome("timeout", 0), R!Outcome("closed", 0)}
                           \union {R!Outcome("answer", c) : c \in R!Ids}]
    /\ unanswered = {c \in 1..made : ended[c] = R!Unsettled}
    /\ \A c \in R!Ids : c > made => ended[c] = R!Unsettled

RpcTyped ==
    /\ CallsTyped /\ request \in Seq(R!Requests) /\ Len(request) <= made
    /\ heard \in Seq(Nat)
    /\ sock \in {"open", "destroyed", "closed"} /\ conn \in {"open", "destroyed"}
    /\ bytes \in Seq({"plain", "lead", "tail", R!NewLine}) /\ buffer \in Seq(Chars)
    /\ handled \in Seq(Seq(Chars)) /\ handlers \subseteq 1..Len(handled)
    /\ Len(handled) <= Len(request)
    /\ refused \in BOOLEAN
    /\ out \in Seq(QueuedLines) /\ flushed \in Seq(QueuedLines)
    /\ occurred \in 0..MaxEvents

RpcIInv ==
    /\ RpcTyped /\ BytesInLine /\ AnswersOnlyBeyond /\ NothingSkipped
    /\ R!LinesAsSent /\ R!CapIsOnLines /\ R!OwnAnswer /\ R!NoGap /\ R!NoneLeftWaiting

LEMMA RpcConstants ==
    /\ MaxCalls \in Nat /\ MaxLineBytes \in Nat /\ MaxLineBytes >= 2
    /\ MaxNotifyBuffered \in Nat /\ MaxEvents \in Nat
  BY ClientsConstants DEF R!RpcAssumption

-------------------------------------------------------------------------------
(* Sums: a recursive function is what satisfies its equations.              *)

LEMMA TotalIs ==
    ASSUME NEW z \in Seq(Int), NEW s \in [0..Len(z) -> Int], s[0] = 0,
           \A n \in 1..Len(z) : s[n] = s[n - 1] + z[n]
    PROVE  R!Total(z) = s[Len(z)]
<1> DEFINE l == Len(z)
           Eq(f) == f = [n \in 0..l |-> IF n = 0 THEN 0 ELSE f[n - 1] + z[n]]
           g == CHOOSE f : Eq(f)
<1>1. l \in Nat
  OBVIOUS
<1> HIDE DEF l
<1>2. Eq(s)
  <2> DEFINE h == [n \in 0..l |-> IF n = 0 THEN 0 ELSE s[n - 1] + z[n]]
  <2>1. \A n \in 0..l : h[n] = s[n]
    BY <1>1 DEF l
  <2>2. s = h
    BY <2>1 DEF l
  <2> QED  BY <2>2
<1>3. Eq(g)
  <2> HIDE DEF Eq
  <2> QED  BY <1>2
<1>4. \A n \in 0..l : g[n] = IF n = 0 THEN 0 ELSE g[n - 1] + z[n]
  <2> HIDE DEF g
  <2> QED  BY <1>3
<1> HIDE DEF g
<1> DEFINE Wrong == {n \in 0..l : g[n] # s[n]}
<1>5. Wrong = {}
  <2> SUFFICES ASSUME Wrong # {} PROVE FALSE
    OBVIOUS
  <2>1. PICK n \in Wrong : \A k \in Wrong : n <= k
    <3>1. Wrong \in SUBSET Nat /\ Wrong # {}
      BY <1>1
    <3> HIDE DEF Wrong
    <3> QED  BY <3>1, LeastIsIn
  <2>2. n # 0
    BY <1>4, <2>1
  <2>3. n - 1 \in 0..l /\ n - 1 \notin Wrong
    BY <1>1, <2>1, <2>2
  <2>4. g[n - 1] = s[n - 1]
    BY <2>3
  <2>5. n \in 1..l /\ g[n] = g[n - 1] + z[n] /\ s[n] = s[n - 1] + z[n]
    BY <1>1, <1>4, <2>1, <2>2 DEF l
  <2> QED  BY <2>1, <2>4, <2>5
<1>6. g[l] = s[l]
  BY <1>1, <1>5
<1>7. R!Total(z) = g[l]
  BY DEF R!Total, g, l
<1> QED  BY <1>6, <1>7 DEF l

-------------------------------------------------------------------------------
(* Lines.                                                                   *)

LEMMA SameCount == \A T : R!Cardinality(T) = Cardinality(T)
  BY DEF R!Cardinality, Cardinality, R!IsFiniteSet, IsFiniteSet

\* What ascends from 1 to n has as many values as there are up to each.
LEMMA CountUpTo ==
    ASSUME NEW n \in Nat, NEW f \in [0..n -> Nat], \A i, j \in 0..n : i < j => f[i] < f[j],
           NEW i \in 0..n
    PROVE  R!Cardinality({x \in {f[k] : k \in 1..n} : x <= f[i]}) = i
<1> DEFINE T == {x \in {f[k] : k \in 1..n} : x <= f[i]}
           g == [k \in 1..i |-> f[k]]
<1>1. T = {f[k] : k \in 1..i}
  <2>1. \A k \in 1..n : f[k] <= f[i] <=> k <= i
    <3> SUFFICES ASSUME NEW k \in 1..n PROVE f[k] <= f[i] <=> k <= i
      OBVIOUS
    <3>1. f[k] \in Nat /\ f[i] \in Nat /\ (i < k => f[i] < f[k]) /\ (k < i => f[k] < f[i])
      OBVIOUS
    <3> QED  BY <3>1
  <2> QED  BY <2>1
<1>2. g \in Bijection(1..i, T)
  <2>1. \A k, l \in 1..i : k # l => g[k] # g[l]
    <3> SUFFICES ASSUME NEW k \in 1..i, NEW l \in 1..i, k < l PROVE g[k] # g[l]
      OBVIOUS
    <3> QED  OBVIOUS
  <2>2. T = {g[k] : k \in 1..i}
    BY <1>1
  <2>3. g \in [1..i -> T]
    BY <2>2
  <2> HIDE DEF T, g
  <2>4. g \in Injection(1..i, T) /\ g \in Surjection(1..i, T)
    BY <2>1, <2>2, <2>3 DEF Injection, Surjection, IsInjective
  <2> QED  BY <2>4 DEF Bijection
<1>3. ExistsBijection(1..i, T)
  BY <1>2 DEF ExistsBijection
<1>4. IsFiniteSet(1..i) /\ Cardinality(1..i) = i
  <2>1. 1 \in Int /\ i \in Int /\ i \in Nat
    OBVIOUS
  <2>2. IsFiniteSet(1..i) /\ Cardinality(1..i) = IF 1 > i THEN 0 ELSE i - 1 + 1
    BY <2>1, FS_Interval, Zenon
  <2> QED  BY <2>1, <2>2
<1> HIDE DEF T
<1> QED  BY <1>3, <1>4, FS_Bijection, SameCount DEF T

\* The breaks of a text, if what ascends gives them.
BreaksAt(text, n, f) ==
    /\ text \in Seq(Chars) /\ n \in Nat /\ f \in [0..n -> Nat] /\ f[0] = 0
    /\ \A i, j \in 0..n : i < j => f[i] < f[j]
    /\ \A p : p \in R!Breaks(text) <=> \E i \in 1..n : p = f[i]
LinesBetween(text, n, f) ==
    /\ R!Lines(text) \in Seq(Seq(Chars)) /\ Len(R!Lines(text)) = n
    /\ \A i \in 1..n : R!Lines(text)[i] = SubSeq(text, f[i - 1] + 1, f[i] - 1)
    /\ R!Rest(text) = SubSeq(text, f[n] + 1, Len(text))

LEMMA BreaksAre ==
    ASSUME NEW text, NEW n, NEW f, BreaksAt(text, n, f)
    PROVE  LinesBetween(text, n, f)
<1> SUFFICES ASSUME text \in Seq(Chars), n \in Nat, f \in [0..n -> Nat], f[0] = 0,
                    \A i, j \in 0..n : i < j => f[i] < f[j],
                    \A p : p \in R!Breaks(text) <=> \E i \in 1..n : p = f[i]
             PROVE  LinesBetween(text, n, f)
  BY Zenon DEF BreaksAt
<1> DEFINE B == {f[k] : k \in 1..n}
           UpTo(x) == R!Cardinality({y \in B : y <= x})
<1>0. R!Breaks(text) = B
  OBVIOUS
<1>1. \A i \in 0..n : UpTo(f[i]) = i
  BY CountUpTo
<1>2. UpTo(f[n]) = n /\ {y \in B : y <= f[n]} = B
  <2>1. \A k \in 1..n : f[k] <= f[n]
    <3> SUFFICES ASSUME NEW k \in 1..n PROVE f[k] <= f[n]
      OBVIOUS
    <3>1. f[k] \in Nat /\ f[n] \in Nat /\ (k < n => f[k] < f[n])
      OBVIOUS
    <3> QED  BY <3>1
  <2> QED  BY <1>1, <2>1
<1>3. R!Cardinality(B) = n
  BY <1>2
<1>4. ASSUME NEW i \in 0..n PROVE R!Break(text, i) = f[i]
  <2>1. f[i] \in B \union {0}
    OBVIOUS
  <2>2. \A b \in B \union {0} : UpTo(b) = i => b = f[i]
    <3> SUFFICES ASSUME NEW b \in B \union {0}, UpTo(b) = i PROVE b = f[i]
      OBVIOUS
    <3>1. PICK k \in 0..n : b = f[k]
      OBVIOUS
    <3> QED  BY <1>1, <3>1
  <2>3. UpTo(f[i]) = i
    BY <1>1
  <2>4. R!Break(text, i) = CHOOSE b \in B \union {0} : UpTo(b) = i
    BY <1>0 DEF R!Break
  <2> HIDE DEF UpTo, B
  <2> QED  BY <2>1, <2>2, <2>3, <2>4
<1>5. /\ R!Lines(text) \in Seq(Seq(Chars)) /\ Len(R!Lines(text)) = n
      /\ \A i \in 1..n : R!Lines(text)[i] = SubSeq(text, f[i - 1] + 1, f[i] - 1)
  <2> DEFINE L(i) == SubSeq(text, R!Break(text, i - 1) + 1, R!Break(text, i) - 1)
  <2>1. R!Lines(text) = [i \in 1..n |-> L(i)]
    BY <1>0, <1>3 DEF R!Lines
  <2>2. \A i \in 1..n : R!Break(text, i - 1) = f[i - 1] /\ R!Break(text, i) = f[i]
    BY <1>4
  <2>3. \A i \in 1..n : L(i) = SubSeq(text, f[i - 1] + 1, f[i] - 1)
    BY <2>2
  <2>4. ASSUME NEW i \in 1..n PROVE SubSeq(text, f[i - 1] + 1, f[i] - 1) \in Seq(Chars)
    <3>1. f[i] \in {f[k] : k \in 1..n} /\ f[i] \in Nat /\ f[i - 1] \in Nat
      OBVIOUS
    <3>2. f[i] <= Len(text)
      BY <1>0, <3>1 DEF R!Breaks
    <3>3. \A q \in f[i - 1] + 1..f[i] - 1 : text[q] \in Chars
      BY <3>1, <3>2
    <3> HIDE DEF Chars
    <3> QED  BY <3>1, <3>3, SubSeqProperties
  <2>5. \A i \in 1..n : L(i) \in Seq(Chars)
    BY <2>3, <2>4
  <2> HIDE DEF L, Chars
  <2>6. R!Lines(text) \in [1..n -> Seq(Chars)]
    BY <2>1, <2>5
  <2>7. \A i \in 1..n : R!Lines(text)[i] = L(i)
    BY <2>1
  <2> QED  BY <2>3, <2>6, <2>7
<1>6. R!Rest(text) = SubSeq(text, f[n] + 1, Len(text))
  <2>1. R!Break(text, n) = f[n]
    BY <1>4
  <2> QED  BY <1>0, <1>3, <2>1 DEF R!Rest
<1> QED  BY <1>5, <1>6, Zenon DEF LinesBetween

\* Requests: plain ones, and those that end in a wide character.
IsPlain(line) == \A i \in 1..Len(line) : line[i] = "plain"
IsWide(line, p) ==
    /\ p \in Nat /\ Len(line) = p + 2
    /\ \A i \in 1..p : line[i] = "plain"
    /\ line[p + 1] = "lead" /\ line[p + 2] = "tail"

LEMMA RequestIs ==
    ASSUME NEW line \in R!Requests
    PROVE  /\ Len(line) \in Nat /\ Len(line) >= 1
           /\ line \in Seq({"plain", "lead", "tail"})
           /\ IsPlain(line) \/ \E p \in Nat : IsWide(line, p)
           /\ \A i \in 1..Len(line) :
                /\ line[i] \in {"plain", "lead", "tail"}
                /\ line[i] = "lead" => i < Len(line) /\ line[i + 1] = "tail"
                /\ line[i] = "tail" => i > 1 /\ line[i - 1] = "lead"
<1>1. ASSUME NEW n \in Nat, n >= 1, line = R!Plain(n)
      PROVE  Len(line) = n /\ line \in Seq({"plain", "lead", "tail"}) /\ IsPlain(line)
  BY <1>1 DEF R!Plain, IsPlain
<1>2. ASSUME NEW n \in Nat, line = R!Wide(n)
      PROVE  Len(line) = n + 2 /\ line \in Seq({"plain", "lead", "tail"}) /\ IsWide(line, n)
  <2>1. Len(line) = n + 2 /\ line \in Seq({"plain", "lead", "tail"})
    BY <1>2 DEF R!Wide
  <2>2. \A i \in 1..n + 2 : line[i] = IF i <= n THEN "plain" ELSE IF i = n + 1 THEN "lead" ELSE "tail"
    BY <1>2 DEF R!Wide
  <2>3. IsWide(line, n)
    BY <2>1, <2>2 DEF IsWide
  <2> QED  BY <2>1, <2>3
<1>3. \/ \E n \in Nat : n >= 1 /\ line = R!Plain(n)
      \/ \E n \in Nat : line = R!Wide(n)
  <2>1. MaxLineBytes - 2 \in Nat /\ MaxLineBytes + 1 \in Nat /\ MaxLineBytes + 1 >= 1
    BY RpcConstants
  <2> QED  BY <2>1 DEF R!Requests
<1>4. /\ Len(line) \in Nat /\ Len(line) >= 1 /\ line \in Seq({"plain", "lead", "tail"})
      /\ IsPlain(line) \/ \E p \in Nat : IsWide(line, p)
  <2>1. CASE \E n \in Nat : n >= 1 /\ line = R!Plain(n)
    BY <1>1, <2>1
  <2>2. CASE \E n \in Nat : line = R!Wide(n)
    BY <1>2, <2>2
  <2> QED  BY <1>3, <2>1, <2>2
<1>5. ASSUME NEW i \in 1..Len(line)
      PROVE  /\ line[i] \in {"plain", "lead", "tail"}
             /\ line[i] = "lead" => i < Len(line) /\ line[i + 1] = "tail"
             /\ line[i] = "tail" => i > 1 /\ line[i - 1] = "lead"
  <2>1. CASE IsPlain(line)
    BY <2>1 DEF IsPlain
  <2>2. ASSUME NEW p \in Nat, IsWide(line, p)
        PROVE  /\ line[i] \in {"plain", "lead", "tail"}
               /\ line[i] = "lead" => i < Len(line) /\ line[i + 1] = "tail"
               /\ line[i] = "tail" => i > 1 /\ line[i - 1] = "lead"
    <3>1. i \in 1..p \/ i = p + 1 \/ i = p + 2
      BY <2>2 DEF IsWide
    <3>2. (p + 1) + 1 = p + 2 /\ (p + 2) - 1 = p + 1 /\ p + 2 > 1 /\ p + 1 < p + 2
      OBVIOUS
    <3> QED  BY <2>2, <3>1, <3>2 DEF IsWide
  <2> QED  BY <1>4, <2>1, <2>2
<1> QED  BY <1>4, <1>5

-------------------------------------------------------------------------------
(* What the server reads.                                                   *)

LEMMA DecodeIs ==
    ASSUME NEW z \in Seq({"plain", "lead", "tail", R!NewLine})
    PROVE  /\ R!Decode(z) \in Seq(Chars) /\ Len(R!Decode(z)) = Len(z)
           /\ \A q \in 1..Len(z) :
                /\ z[q] \in {"plain", R!NewLine} => R!Decode(z)[q] = z[q]
                /\ z[q] \in {"lead", "tail"} => R!Decode(z)[q] \in {"wide", "rest", "garbled"}
                /\ q < Len(z) /\ z[q] = "lead" /\ z[q + 1] = "tail" =>
                     R!Decode(z)[q] = "wide" /\ R!Decode(z)[q + 1] = "rest"
                /\ q = Len(z) /\ z[q] = "lead" => R!Decode(z)[q] = "garbled"
                /\ q = 1 /\ z[q] = "tail" => R!Decode(z)[q] = "garbled"
<1> DEFINE Pair(i) == i \in 1..(Len(z) - 1) /\ z[i] = "lead" /\ z[i + 1] = "tail"
           Char(i) == CASE z[i] \in {"plain", R!NewLine} -> z[i]
                        [] Pair(i) -> "wide"
                        [] Pair(i - 1) -> "rest"
                        [] OTHER -> "garbled"
<1>1. R!Decode(z) = [i \in 1..Len(z) |-> Char(i)]
  BY DEF R!Decode
<1>2. ASSUME NEW q \in 1..Len(z)
      PROVE  /\ z[q] \in {"plain", R!NewLine} => Char(q) = z[q]
             /\ z[q] = "lead" => Char(q) = IF Pair(q) THEN "wide" ELSE "garbled"
             /\ z[q] = "tail" => Char(q) = IF Pair(q - 1) THEN "rest" ELSE "garbled"
  <2>1. z[q] \in {"plain", R!NewLine} => Char(q) = z[q]
    BY DEF R!NewLine
  <2>2. z[q] = "lead" => ~Pair(q - 1)
    <3>1. Pair(q - 1) => z[q - 1 + 1] = "tail" /\ q - 1 + 1 = q
      OBVIOUS
    <3> QED  BY <3>1
  <2>3. z[q] = "tail" => ~Pair(q)
    OBVIOUS
  <2> HIDE DEF Pair
  <2>4. z[q] = "lead" => Char(q) = IF Pair(q) THEN "wide" ELSE "garbled"
    BY <2>2 DEF R!NewLine
  <2>5. z[q] = "tail" => Char(q) = IF Pair(q - 1) THEN "rest" ELSE "garbled"
    BY <2>3 DEF R!NewLine
  <2> QED  BY <2>1, <2>4, <2>5
<1>3. \A q \in 1..Len(z) : z[q] \in {"plain", "lead", "tail", R!NewLine}
  OBVIOUS
<1> HIDE DEF Char
<1>4. \A q \in 1..Len(z) : Char(q) \in Chars
  BY <1>2, <1>3 DEF Chars
<1>5. /\ R!Decode(z) \in Seq(Chars) /\ Len(R!Decode(z)) = Len(z)
      /\ \A q \in 1..Len(z) : R!Decode(z)[q] = Char(q)
  BY <1>1, <1>4
<1>6. ASSUME NEW q \in 1..Len(z)
      PROVE  /\ z[q] \in {"plain", R!NewLine} => R!Decode(z)[q] = z[q]
             /\ z[q] \in {"lead", "tail"} => R!Decode(z)[q] \in {"wide", "rest", "garbled"}
             /\ q = Len(z) /\ z[q] = "lead" => R!Decode(z)[q] = "garbled"
             /\ q = 1 /\ z[q] = "tail" => R!Decode(z)[q] = "garbled"
  <2>1. (q = Len(z) => ~Pair(q)) /\ (q = 1 => ~Pair(q - 1))
    OBVIOUS
  <2> HIDE DEF Pair
  <2> QED  BY <1>2, <1>5, <2>1
<1>7. ASSUME NEW q \in 1..Len(z), q < Len(z), z[q] = "lead", z[q + 1] = "tail"
      PROVE  R!Decode(z)[q] = "wide" /\ R!Decode(z)[q + 1] = "rest"
  <2>1. Pair(q) /\ q + 1 \in 1..Len(z) /\ q + 1 - 1 = q
    BY <1>7
  <2> HIDE DEF Pair
  <2> QED  BY <1>2, <1>5, <1>7, <2>1
<1> QED  BY <1>5, <1>6, <1>7

\* The text that the server has when it has read k more bytes.
TextAfter(k) == buffer \o R!Decode(SubSeq(bytes, 1, k))

LEMMA TextIs ==
    ASSUME RpcTyped, NEW k \in 1..Len(bytes)
    PROVE  /\ TextAfter(k) \in Seq(Chars) /\ Len(TextAfter(k)) = Len(buffer) + k
           /\ \A p \in 1..Len(buffer) : TextAfter(k)[p] = buffer[p]
           /\ \A q \in 1..k :
                /\ bytes[q] \in {"plain", R!NewLine} => TextAfter(k)[Len(buffer) + q] = bytes[q]
                /\ bytes[q] \in {"lead", "tail"} =>
                     TextAfter(k)[Len(buffer) + q] \in {"wide", "rest", "garbled"}
                /\ q < k /\ bytes[q] = "lead" /\ bytes[q + 1] = "tail" =>
                     /\ TextAfter(k)[Len(buffer) + q] = "wide"
                     /\ TextAfter(k)[Len(buffer) + q + 1] = "rest"
                /\ q = k /\ bytes[q] = "lead" => TextAfter(k)[Len(buffer) + q] = "garbled"
                /\ q = 1 /\ bytes[q] = "tail" => TextAfter(k)[Len(buffer) + q] = "garbled"
<1> DEFINE B4 == {"plain", "lead", "tail", R!NewLine}
           z == SubSeq(bytes, 1, k)
<1>0. PICK b \in Nat : b = Len(buffer)
  <2>1. buffer \in Seq(Chars)
    BY DEF RpcTyped
  <2> QED  BY <2>1
<1>1. bytes \in Seq(B4) /\ buffer \in Seq(Chars) /\ b = Len(buffer)
  BY <1>0 DEF RpcTyped
<1>2. z \in Seq(B4) /\ Len(z) = k /\ \A q \in 1..k : z[q] = bytes[q]
  <2> HIDE DEF B4
  <2> QED  BY <1>1
<1>3. PICK d : d = R!Decode(z) /\ d \in Seq(Chars) /\ Len(d) = k
  BY <1>2, DecodeIs
<1>4. \A q \in 1..k :
        /\ bytes[q] \in {"plain", R!NewLine} => d[q] = bytes[q]
        /\ bytes[q] \in {"lead", "tail"} => d[q] \in {"wide", "rest", "garbled"}
        /\ q < k /\ bytes[q] = "lead" /\ bytes[q + 1] = "tail" => d[q] = "wide" /\ d[q + 1] = "rest"
        /\ q = k /\ bytes[q] = "lead" => d[q] = "garbled"
        /\ q = 1 /\ bytes[q] = "tail" => d[q] = "garbled"
  <2> SUFFICES ASSUME NEW q \in 1..k
               PROVE  /\ bytes[q] \in {"plain", R!NewLine} => d[q] = bytes[q]
                      /\ bytes[q] \in {"lead", "tail"} => d[q] \in {"wide", "rest", "garbled"}
                      /\ q < k /\ bytes[q] = "lead" /\ bytes[q + 1] = "tail" => d[q] = "wide" /\ d[q + 1] = "rest"
                      /\ q = k /\ bytes[q] = "lead" => d[q] = "garbled"
                      /\ q = 1 /\ bytes[q] = "tail" => d[q] = "garbled"
    OBVIOUS
  <2>1. z[q] = bytes[q] /\ (q < k => z[q + 1] = bytes[q + 1])
    BY <1>2
  <2>2. /\ z[q] \in {"plain", R!NewLine} => d[q] = z[q]
        /\ z[q] \in {"lead", "tail"} => d[q] \in {"wide", "rest", "garbled"}
        /\ q < Len(z) /\ z[q] = "lead" /\ z[q + 1] = "tail" => d[q] = "wide" /\ d[q + 1] = "rest"
        /\ q = Len(z) /\ z[q] = "lead" => d[q] = "garbled"
        /\ q = 1 /\ z[q] = "tail" => d[q] = "garbled"
    <3> HIDE DEF z
    <3> QED  BY <1>2, <1>3, DecodeIs
  <2> HIDE DEF z
  <2> QED  BY <1>2, <2>1, <2>2
<1>5. /\ TextAfter(k) \in Seq(Chars) /\ Len(TextAfter(k)) = b + k
      /\ \A p \in 1..b : TextAfter(k)[p] = buffer[p]
      /\ \A q \in 1..k : TextAfter(k)[b + q] = d[q]
  <2>1. TextAfter(k) = buffer \o d
    BY <1>3 DEF TextAfter
  <2>2. \A i \in 1..b + k : TextAfter(k)[i] = IF i <= b THEN buffer[i] ELSE d[i - b]
    BY <1>1, <1>3, <2>1, ConcatProperties
  <2>3. TextAfter(k) \in Seq(Chars) /\ Len(TextAfter(k)) = b + k
    BY <1>1, <1>3, <2>1, ConcatProperties
  <2>4. ASSUME NEW p \in 1..b PROVE TextAfter(k)[p] = buffer[p]
    <3>1. p \in 1..b + k /\ p <= b
      BY <1>1
    <3> QED  BY <2>2, <3>1
  <2>5. ASSUME NEW q \in 1..k PROVE TextAfter(k)[b + q] = d[q]
    <3>1. b + q \in 1..b + k /\ ~(b + q <= b) /\ b + q - b = q
      BY <1>1
    <3>2. TextAfter(k)[b + q] = d[b + q - b]
      BY <1>1, <2>2, <3>1
    <3> QED  BY <3>1, <3>2
  <2> QED  BY <2>3, <2>4, <2>5
<1>6. \A q \in 1..k : q < k => q + 1 \in 1..k /\ b + (q + 1) = b + q + 1
  BY <1>1
<1>7. ASSUME NEW q \in 1..k
      PROVE  /\ bytes[q] \in {"plain", R!NewLine} => TextAfter(k)[b + q] = bytes[q]
             /\ bytes[q] \in {"lead", "tail"} => TextAfter(k)[b + q] \in {"wide", "rest", "garbled"}
             /\ q < k /\ bytes[q] = "lead" /\ bytes[q + 1] = "tail" =>
                  TextAfter(k)[b + q] = "wide" /\ TextAfter(k)[b + q + 1] = "rest"
             /\ q = k /\ bytes[q] = "lead" => TextAfter(k)[b + q] = "garbled"
             /\ q = 1 /\ bytes[q] = "tail" => TextAfter(k)[b + q] = "garbled"
  <2>1. TextAfter(k)[b + q] = d[q] /\ (q < k => TextAfter(k)[b + q + 1] = d[q + 1])
    <3>1. ASSUME q < k PROVE TextAfter(k)[b + q + 1] = d[q + 1]
      <4>1. q + 1 \in 1..k /\ b + (q + 1) = b + q + 1
        BY <1>6, <3>1
      <4>2. TextAfter(k)[b + (q + 1)] = d[q + 1]
        BY <1>5, <4>1
      <4> QED  BY <4>1, <4>2
    <3> QED  BY <1>5, <3>1
  <2> QED  BY <1>4, <2>1
<1> QED  BY <1>0, <1>5, <1>7

\* What Ends says of one line, n lines having been handled and b characters being buffered.
LineEnds(e, n, m, b, c) ==
    /\ c \in n..m /\ c - 1 \in n..m /\ request[c] \in R!Requests
    /\ e[c] = e[c - 1] + Len(request[c]) + 1
    /\ e[c] > b
    /\ bytes[e[c] - b] = R!NewLine
    /\ \A i \in 1..Len(request[c]) : e[c - 1] + i > b => bytes[e[c - 1] + i - b] = request[c][i]
    /\ c = n + 1 => e[c - 1] = 0 /\ b <= Len(request[c]) /\ ReadsAs(buffer, 0, b, request[c])
    /\ c # n + 1 => e[c - 1] > b

LEMMA EndsSay ==
    ASSUME RpcTyped, NEW e, Ends(e),
           NEW n, NEW m, NEW b, n = Len(handled), m = Len(request), b = Len(buffer)
    PROVE  /\ n \in Nat /\ m \in Nat /\ b \in Nat /\ n <= m /\ Len(bytes) \in Nat
           /\ e \in [n..m -> Nat] /\ e[n] = 0 /\ e[m] = b + Len(bytes)
           /\ \A c, d \in n..m : c < d => e[c] < e[d]
           /\ \A c \in n + 1..m : LineEnds(e, n, m, b, c)
<1>1. /\ handled \in Seq(Seq(Chars)) /\ request \in Seq(R!Requests) /\ buffer \in Seq(Chars)
      /\ bytes \in Seq({"plain", "lead", "tail", R!NewLine}) /\ n <= m
  BY DEF RpcTyped
<1>2. n \in Nat /\ m \in Nat /\ b \in Nat /\ Len(bytes) \in Nat
  BY <1>1
<1>3. /\ e \in [n..m -> Nat] /\ e[n] = 0 /\ e[m] = b + Len(bytes)
      /\ \A c, d \in n..m : c < d => e[c] < e[d]
      /\ \A c \in n + 1..m :
           /\ e[c] = e[c - 1] + Len(request[c]) + 1
           /\ e[c] > b
           /\ bytes[e[c] - b] = R!NewLine
           /\ \A i \in 1..Len(request[c]) : e[c - 1] + i > b => bytes[e[c - 1] + i - b] = request[c][i]
      /\ n < m => ReadsAs(buffer, 0, b, request[n + 1])
  BY DEF Ends
<1>4. ASSUME NEW c \in n + 1..m PROVE LineEnds(e, n, m, b, c)
  <2>1. /\ c \in n..m /\ c - 1 \in n..m /\ c \in 1..m /\ (c # n + 1 => c - 1 \in n + 1..m)
        /\ c = n + 1 => c - 1 = n /\ n < m
    BY <1>2
  <2>2. request[c] \in R!Requests
    BY <1>1, <2>1
  <2>3. c # n + 1 => e[c - 1] > b
    BY <1>3, <2>1
  <2>4. ASSUME c = n + 1 PROVE e[c - 1] = 0 /\ b <= Len(request[c]) /\ ReadsAs(buffer, 0, b, request[c])
    <3>1. e[c - 1] = 0 /\ ReadsAs(buffer, 0, b, request[c])
      BY <1>3, <2>1, <2>4
    <3>2. Len(request[c]) \in Nat
      BY <2>2, RequestIs
    <3>3. e[c] = Len(request[c]) + 1 /\ e[c] > b
      BY <1>3, <3>1, <3>2
    <3> QED  BY <1>2, <3>1, <3>2, <3>3
  <2>5. /\ e[c] = e[c - 1] + Len(request[c]) + 1
        /\ e[c] > b
        /\ bytes[e[c] - b] = R!NewLine
        /\ \A i \in 1..Len(request[c]) : e[c - 1] + i > b => bytes[e[c - 1] + i - b] = request[c][i]
    BY <1>3, Zenon
  <2> QED  BY <2>1, <2>2, <2>3, <2>4, <2>5 DEF LineEnds
<1> QED  BY <1>1, <1>2, <1>3, <1>4

\* Of each line the text after k more bytes has a reading, of all of it or of what was read.
LEMMA LineRead ==
    ASSUME RpcTyped, NEW e, Ends(e), NEW k \in 1..Len(bytes),
           NEW c \in Len(handled) + 1..Len(request), NEW l \in 0..Len(request[c]),
           e[c - 1] + l <= Len(buffer) + k,
           l = Len(request[c]) \/ e[c - 1] + l = Len(buffer) + k
    PROVE  ReadsAs(TextAfter(k), e[c - 1], l, request[c])
<1>1. PICK n, m, b : n = Len(handled) /\ m = Len(request) /\ b = Len(buffer)
  OBVIOUS
<1> DEFINE t == TextAfter(k)  r == request[c]
<1>2. /\ n \in Nat /\ m \in Nat /\ b \in Nat /\ n <= m /\ Len(bytes) \in Nat
      /\ e \in [n..m -> Nat] /\ LineEnds(e, n, m, b, c)
  BY <1>1, EndsSay
<1>3. PICK a \in Nat : a = e[c - 1]
  BY <1>2 DEF LineEnds
<1>4. /\ r \in R!Requests
      /\ \A i \in 1..Len(r) : a + i > b => bytes[a + i - b] = r[i]
      /\ c = n + 1 => a = 0 /\ b <= Len(r) /\ ReadsAs(buffer, 0, b, r)
      /\ c # n + 1 => a > b
  BY <1>2, <1>3 DEF LineEnds
<1>5. /\ \A p \in 1..b : t[p] = buffer[p]
      /\ \A q \in 1..k :
           /\ bytes[q] \in {"plain", R!NewLine} => t[b + q] = bytes[q]
           /\ q < k /\ bytes[q] = "lead" /\ bytes[q + 1] = "tail" =>
                t[b + q] = "wide" /\ t[b + q + 1] = "rest"
           /\ q = k /\ bytes[q] = "lead" => t[b + q] = "garbled"
           /\ q = 1 /\ bytes[q] = "tail" => t[b + q] = "garbled"
  BY <1>1, TextIs
<1>6. /\ l \in Nat /\ l <= Len(r) /\ a + l <= b + k /\ (l = Len(r) \/ a + l = b + k) /\ k \in Nat /\ k >= 1
      /\ Len(r) \in Nat
  BY <1>1, <1>2, <1>3, <1>4, RequestIs
<1> HIDE DEF t, r
<1>7. (c = n + 1 => a = 0 /\ b <= Len(r)) /\ (c # n + 1 => a > b)
  BY <1>4
<1>10. ASSUME NEW i \in 1..l, r[i] = "plain" PROVE t[a + i] = "plain"
  <2>1. CASE a + i <= b
    <3>1. c = n + 1 /\ a = 0 /\ i \in 1..b
      BY <1>2, <1>4, <1>6, <2>1
    <3>2. buffer[0 + i] = "plain" /\ 0 + i = i /\ a + i = i
      BY <1>4, <1>10, <3>1 DEF ReadsAs
    <3> QED  BY <1>5, <3>1, <3>2
  <2>2. CASE a + i > b
    <3>1. PICK q \in 1..k : q = a + i - b /\ a + i = b + q
      BY <1>2, <1>6, <2>2
    <3>2. i \in 1..Len(r)
      BY <1>6
    <3>3. bytes[q] = "plain"
      BY <1>4, <1>10, <2>2, <3>1, <3>2
    <3>4. t[b + q] = "plain"
      BY <1>5, <3>3
    <3> QED  BY <3>1, <3>4
  <2> QED  BY <1>2, <2>1, <2>2
<1>11. ASSUME NEW i \in 1..l, r[i] = "lead" PROVE Halves(t, a + i, l, i)
  <2>1. /\ i \in Nat /\ i >= 1 /\ i <= l /\ i \in 1..Len(r) /\ i < Len(r)
        /\ i + 1 \in 1..Len(r) /\ r[i + 1] = "tail"
    BY <1>4, <1>6, <1>11, RequestIs
  <2>2. CASE i = l
    <3>1. a + i = b + k /\ a + i > b /\ k \in 1..k /\ a + i - b = k
      BY <1>2, <1>6, <2>1, <2>2
    <3>2. bytes[k] = "lead"
      BY <1>4, <1>11, <2>1, <3>1
    <3>3. t[b + k] = "garbled"
      BY <1>5, <3>1, <3>2
    <3> QED  BY <2>1, <2>2, <3>1, <3>3 DEF Halves
  <2>3. CASE i < l /\ a + i + 1 <= b
    <3>1. c = n + 1 /\ a = 0 /\ i \in 1..b /\ i + 1 \in 1..b /\ i < b /\ 0 + i = i /\ a + i = i
      BY <1>2, <1>7, <2>1, <2>3
    <3>2. Halves(buffer, 0 + i, b, i)
      BY <1>4, <1>11, <3>1 DEF ReadsAs
    <3>3. t[i] = buffer[i] /\ t[i + 1] = buffer[i + 1]
      BY <1>5, <3>1
    <3> QED  BY <2>3, <3>1, <3>2, <3>3 DEF Halves
  <2>4. CASE i < l /\ a + i = b
    <3>1. c = n + 1 /\ a = 0 /\ i = b /\ i \in 1..b /\ ~(i < b) /\ 0 + i = i
      BY <1>2, <1>7, <2>1, <2>4
    <3>2. buffer[b] = "garbled"
      <4>1. Halves(buffer, 0 + i, b, i)
        BY <1>4, <1>11, <3>1 DEF ReadsAs
      <4> QED  BY <3>1, <4>1 DEF Halves
    <3>3. t[b] = "garbled"
      BY <1>5, <3>1, <3>2
    <3>4. 1 \in 1..k /\ a + (i + 1) > b /\ a + (i + 1) - b = 1
      BY <1>2, <1>6, <3>1
    <3>5. bytes[1] = "tail"
      BY <1>4, <2>1, <3>4
    <3>6. t[b + 1] = "garbled"
      BY <1>5, <3>4, <3>5
    <3> QED  BY <2>4, <3>3, <3>6 DEF Halves
  <2>5. CASE i < l /\ a + i > b
    <3>1. PICK q \in 1..k : q = a + i - b /\ q + 1 = a + (i + 1) - b /\ q < k /\ a + i = b + q
                           /\ a + (i + 1) > b
      BY <1>2, <1>6, <2>1, <2>5
    <3>2. bytes[q] = "lead" /\ bytes[q + 1] = "tail"
      BY <1>4, <1>11, <2>1, <2>5, <3>1
    <3>3. t[b + q] = "wide" /\ t[b + q + 1] = "rest"
      BY <1>5, <3>1, <3>2
    <3>4. a + i + 1 = b + q + 1
      BY <3>1
    <3> QED  BY <2>5, <3>1, <3>3, <3>4 DEF Halves
  <2> QED  BY <1>2, <2>1, <2>2, <2>3, <2>4, <2>5
<1>14. ReadsAs(t, a, l, r)
  BY <1>10, <1>11 DEF ReadsAs
<1> QED  BY <1>3, <1>14 DEF t, r

\* A character of the text is a line break exactly where a request's line ends.
LEMMA BreakAt ==
    ASSUME RpcTyped, NEW e, Ends(e), NEW k \in 1..Len(bytes), NEW p \in 1..Len(buffer) + k
    PROVE  TextAfter(k)[p] = R!NewLine <=> \E c \in Len(handled) + 1..Len(request) : p = e[c]
<1>1. PICK n, m, b : n = Len(handled) /\ m = Len(request) /\ b = Len(buffer)
  OBVIOUS
<1> DEFINE t == TextAfter(k)
<1>2. /\ n \in Nat /\ m \in Nat /\ b \in Nat /\ n <= m /\ Len(bytes) \in Nat
      /\ e \in [n..m -> Nat] /\ e[n] = 0 /\ e[m] = b + Len(bytes)
      /\ \A c \in n + 1..m : LineEnds(e, n, m, b, c)
  BY <1>1, EndsSay
<1>3. /\ \A i \in 1..b : t[i] = buffer[i]
      /\ \A q \in 1..k :
           /\ bytes[q] \in {"plain", R!NewLine} => t[b + q] = bytes[q]
           /\ bytes[q] \in {"lead", "tail"} => t[b + q] \in {"wide", "rest", "garbled"}
  BY <1>1, TextIs
<1>4. k \in Nat /\ k >= 1 /\ k <= Len(bytes) /\ p \in Nat /\ p >= 1 /\ p <= b + k
  BY <1>1, <1>2
<1> HIDE DEF t
<1>5. ASSUME NEW c \in n + 1..m, p = e[c] PROVE t[p] = R!NewLine
  <2>1. e[c] > b /\ bytes[e[c] - b] = R!NewLine
    BY <1>2 DEF LineEnds
  <2>2. PICK q \in 1..k : q = e[c] - b /\ p = b + q
    BY <1>2, <1>4, <1>5, <2>1
  <2>3. t[b + q] = R!NewLine
    BY <1>3, <2>1, <2>2
  <2> QED  BY <2>2, <2>3
<1>6. ASSUME \A c \in n + 1..m : p # e[c] PROVE t[p] # R!NewLine
  <2> DEFINE Later == {c \in n..m : p <= e[c]}
  <2>1. PICK c \in Later : \A d \in Later : c <= d
    <3>1. m \in Later
      BY <1>2, <1>4
    <3>2. Later \in SUBSET Nat /\ Later # {}
      BY <1>2, <3>1
    <3> HIDE DEF Later
    <3> QED  BY <3>2, LeastIsIn
  <2>2. c \in n + 1..m /\ c - 1 \in n..m
    <3>1. c # n
      BY <1>2, <1>4, <2>1
    <3> QED  BY <1>2, <2>1, <3>1
  <2>3. e[c - 1] < p /\ p < e[c]
    <3>1. c - 1 \notin Later
      BY <2>1, <2>2
    <3>2. e[c - 1] \in Nat /\ e[c] \in Nat /\ p <= e[c] /\ p # e[c]
      BY <1>2, <1>6, <2>1, <2>2
    <3> QED  BY <1>4, <2>2, <3>1, <3>2
  <2>4. PICK a \in Nat : a = e[c - 1]
    BY <1>2, <2>2
  <2> DEFINE r == request[c]
  <2>5. /\ r \in R!Requests /\ e[c] = a + Len(r) + 1
        /\ \A i \in 1..Len(r) : a + i > b => bytes[a + i - b] = r[i]
        /\ c = n + 1 => a = 0 /\ b <= Len(r) /\ ReadsAs(buffer, 0, b, r)
        /\ c # n + 1 => a > b
    BY <1>2, <2>2, <2>4 DEF LineEnds
  <2> HIDE DEF r
  <2>6. Len(r) \in Nat /\ r \in Seq({"plain", "lead", "tail"})
    BY <2>5, RequestIs
  <2>7. PICK i \in 1..Len(r) : p = a + i
    <3>1. p - a \in 1..Len(r) /\ p = a + (p - a)
      BY <1>4, <2>3, <2>4, <2>5, <2>6
    <3> QED  BY <3>1
  <2>8. r[i] \in {"plain", "lead", "tail"}
    BY <2>6, <2>7
  <2>9. CASE p <= b
    <3>1. c = n + 1 /\ a = 0 /\ p = i /\ p \in 1..b /\ b <= Len(r)
      BY <1>2, <1>4, <2>5, <2>7, <2>9
    <3>2. ReadsAs(buffer, 0, b, r)
      BY <2>5, <3>1
    <3>3. 0 + p = p /\ p \in 1..b /\ r[p] = r[i]
      BY <3>1
    <3>4. r[i] = "plain" => buffer[p] = "plain"
      BY <3>2, <3>3 DEF ReadsAs
    <3>5. r[i] = "lead" => buffer[p] \in {"wide", "garbled"}
      BY <3>2, <3>3 DEF ReadsAs, Halves
    <3>6. ASSUME r[i] = "tail" PROVE buffer[p] \in {"rest", "garbled"}
      <4>1. i > 1 /\ r[i - 1] = "lead"
        BY <2>5, <2>7, <3>6, RequestIs
      <4>2. p - 1 \in 1..b /\ p - 1 < b /\ 0 + (p - 1) = p - 1 /\ (p - 1) + 1 = p /\ p - 1 = i - 1
        BY <1>2, <3>1, <4>1
      <4>3. Halves(buffer, p - 1, b, p - 1)
        BY <3>2, <4>1, <4>2 DEF ReadsAs
      <4> QED  BY <4>2, <4>3 DEF Halves
    <3>7. buffer[p] # R!NewLine
      BY <2>8, <3>4, <3>5, <3>6 DEF R!NewLine
    <3> QED  BY <1>3, <3>1, <3>7
  <2>10. CASE p > b
    <3>1. PICK q \in 1..k : q = a + i - b /\ p = b + q
      <4>1. p - b \in 1..k /\ p - b = a + i - b /\ p = b + (p - b)
        BY <1>2, <1>4, <2>6, <2>7, <2>10
      <4> QED  BY <4>1
    <3>2. bytes[q] = r[i]
      BY <2>5, <2>7, <2>10, <3>1
    <3>3. t[b + q] \in {"plain", "wide", "rest", "garbled"}
      BY <1>3, <2>8, <3>2
    <3> QED  BY <3>1, <3>3 DEF R!NewLine
  <2> QED  BY <1>2, <1>4, <2>9, <2>10
<1> QED  BY <1>1, <1>5, <1>6 DEF t

\* The lines that the text has whole, k more bytes having been read, are those up to g.
WholeUpTo(e, k, n, m, g) ==
    /\ e[g] <= Len(buffer) + k
    /\ g < m => e[g + 1] > Len(buffer) + k
    /\ R!Breaks(TextAfter(k)) = {} <=> g = n
    /\ R!Lines(TextAfter(k)) \in Seq(Seq(Chars)) /\ Len(R!Lines(TextAfter(k))) = g - n
    /\ \A i \in 1..g - n :
         R!Lines(TextAfter(k))[i] = SubSeq(TextAfter(k), e[n + i - 1] + 1, e[n + i] - 1)
    /\ R!Rest(TextAfter(k)) = SubSeq(TextAfter(k), e[g] + 1, Len(buffer) + k)

LEMMA LinesAre ==
    ASSUME RpcTyped, NEW e, Ends(e), NEW k \in 1..Len(bytes),
           NEW n, NEW m, n = Len(handled), m = Len(request)
    PROVE  \E g \in n..m : WholeUpTo(e, k, n, m, g)
<1>1. PICK b, t : b = Len(buffer) /\ t = TextAfter(k)
  OBVIOUS
<1> DEFINE T == b + k
<1>2. /\ n \in Nat /\ m \in Nat /\ b \in Nat /\ n <= m /\ Len(bytes) \in Nat
      /\ e \in [n..m -> Nat] /\ e[n] = 0
      /\ \A c, d \in n..m : c < d => e[c] < e[d]
      /\ \A c \in n + 1..m : LineEnds(e, n, m, b, c)
  BY <1>1, EndsSay
<1>3. T \in Nat /\ T >= 1 /\ t \in Seq(Chars) /\ Len(t) = T
  BY <1>1, <1>2, TextIs
<1>4. PICK g \in n..m : e[g] <= T /\ (g < m => e[g + 1] > T)
  <2> DEFINE Beyond == {c \in n..m : e[c] > T}
  <2>1. CASE Beyond = {}
    <3>1. m \in n..m /\ e[m] <= T
      BY <1>2, <1>3, <2>1
    <3> QED  BY <1>2, <3>1
  <2>2. CASE Beyond # {}
    <3>1. PICK c \in Beyond : \A d \in Beyond : c <= d
      <4>1. Beyond \in SUBSET Nat
        BY <1>2
      <4> HIDE DEF Beyond
      <4> QED  BY <2>2, <4>1, LeastIsIn
    <3>2. c # n
      BY <1>2, <1>3, <3>1
    <3>3. c - 1 \in n..m /\ c - 1 \notin Beyond /\ c - 1 + 1 = c
      BY <1>2, <3>1, <3>2
    <3>4. e[c - 1] <= T
      <4>1. e[c - 1] \in Nat /\ ~(e[c - 1] > T)
        BY <1>2, <3>3
      <4> HIDE DEF T
      <4> QED  BY <1>3, <4>1
    <3> QED  BY <3>1, <3>3, <3>4
  <2> QED  BY <2>1, <2>2
<1>5. PICK j, f : /\ j = g - n /\ j \in Nat
                  /\ f \in [0..j -> Nat] /\ f[0] = 0 /\ \A i \in 0..j : f[i] = e[n + i]
  <2> DEFINE h == [i \in 0..g - n |-> e[n + i]]
  <2>1. /\ g - n \in Nat /\ h \in [0..g - n -> Nat] /\ h[0] = 0
        /\ \A i \in 0..g - n : h[i] = e[n + i]
    BY <1>2, <1>4
  <2> QED  BY <2>1
<1>6. \A i, l \in 0..j : i < l => f[i] < f[l]
  <2> SUFFICES ASSUME NEW i \in 0..j, NEW l \in 0..j, i < l PROVE f[i] < f[l]
    OBVIOUS
  <2>1. n + i \in n..m /\ n + l \in n..m /\ n + i < n + l
    BY <1>2, <1>4, <1>5
  <2>2. e[n + i] < e[n + l]
    BY <1>2, <2>1
  <2> QED  BY <1>5, <2>2
<1>7. \A c \in n..m : e[c] <= T <=> c <= g
  <2> SUFFICES ASSUME NEW c \in n..m PROVE e[c] <= T <=> c <= g
    OBVIOUS
  <2>1. ASSUME c < g PROVE e[c] <= T
    <3>1. e[c] < e[g] /\ e[c] \in Nat /\ e[g] \in Nat
      BY <1>2, <2>1
    <3> QED  BY <1>3, <1>4, <3>1
  <2>2. ASSUME c > g PROVE e[c] > T
    <3>1. g + 1 \in n..m /\ g < m /\ (c # g + 1 => g + 1 < c)
      BY <1>2, <2>2
    <3>2. e[g + 1] > T /\ e[g + 1] \in Nat /\ e[c] \in Nat /\ (c # g + 1 => e[g + 1] < e[c])
      BY <1>2, <1>4, <3>1
    <3> QED  BY <1>3, <3>2
  <2>3. e[c] \in Nat
    BY <1>2
  <2> QED  BY <1>2, <1>3, <1>4, <2>1, <2>2, <2>3
<1>8. \A p : p \in R!Breaks(t) <=> \E i \in 1..j : p = f[i]
  <2>1. R!Breaks(t) = {p \in 1..T : \E c \in n + 1..m : p = e[c]}
    <3>1. R!Breaks(t) = {p \in 1..T : t[p] = R!NewLine}
      BY <1>3 DEF R!Breaks
    <3>2. \A p \in 1..T : t[p] = R!NewLine <=> \E c \in n + 1..m : p = e[c]
      BY <1>1, BreakAt
    <3> HIDE DEF T
    <3> QED  BY <3>1, <3>2
  <2>2. \A c \in n + 1..m : e[c] \in Nat /\ e[c] >= 1 /\ c \in n..m
    BY <1>2 DEF LineEnds
  <2>3. \A p : p \in R!Breaks(t) <=> \E c \in n + 1..g : p = e[c]
    <3> SUFFICES ASSUME NEW p
                 PROVE  p \in R!Breaks(t) <=> \E c \in n + 1..g : p = e[c]
      OBVIOUS
    <3>1. ASSUME p \in R!Breaks(t) PROVE \E c \in n + 1..g : p = e[c]
      <4>1. PICK c \in n + 1..m : p = e[c] /\ p \in 1..T
        BY <2>1, <3>1
      <4>2. c <= g
        BY <1>3, <1>7, <2>2, <4>1
      <4>3. c \in n + 1..g
        BY <1>2, <4>1, <4>2
      <4> QED  BY <4>1, <4>3
    <3>2. ASSUME NEW c \in n + 1..g, p = e[c] PROVE p \in R!Breaks(t)
      <4>1. c \in n + 1..m /\ c \in n..m /\ c <= g
        BY <1>2, <1>4
      <4>2. e[c] \in Nat /\ e[c] >= 1 /\ e[c] <= T
        BY <1>7, <2>2, <4>1
      <4>3. p \in 1..T
        BY <1>3, <3>2, <4>2
      <4> QED  BY <2>1, <3>2, <4>1, <4>3
    <3> QED  BY <3>1, <3>2
  <2>4. ASSUME NEW c \in n + 1..g PROVE c - n \in 1..j /\ f[c - n] = e[c]
    <3>1. c - n \in 1..j /\ c - n \in 0..j /\ n + (c - n) = c
      BY <1>2, <1>4, <1>5
    <3>2. f[c - n] = e[n + (c - n)]
      BY <1>5, <3>1
    <3> QED  BY <3>1, <3>2
  <2>5. \A i \in 1..j : n + i \in n + 1..g /\ f[i] = e[n + i]
    BY <1>2, <1>4, <1>5
  <2>6. ASSUME NEW p, p \in R!Breaks(t) PROVE \E i \in 1..j : p = f[i]
    <3>1. PICK c \in n + 1..g : p = e[c]
      BY <2>3, <2>6, Zenon
    <3>2. c - n \in 1..j /\ p = f[c - n]
      BY <2>4, <3>1, Zenon
    <3> QED  BY <3>2, Zenon
  <2>7. ASSUME NEW p, NEW i \in 1..j, p = f[i] PROVE p \in R!Breaks(t)
    <3>1. n + i \in n + 1..g /\ p = e[n + i]
      BY <2>5, <2>7, Zenon
    <3> QED  BY <2>3, <3>1, Zenon
  <2> QED  BY <2>6, <2>7, Zenon
<1>9. /\ R!Lines(t) \in Seq(Seq(Chars)) /\ Len(R!Lines(t)) = j
      /\ \A i \in 1..j : R!Lines(t)[i] = SubSeq(t, f[i - 1] + 1, f[i] - 1)
      /\ R!Rest(t) = SubSeq(t, f[j] + 1, Len(t))
  <2>1. j \in Nat /\ f \in [0..j -> Nat] /\ f[0] = 0
    BY <1>5
  <2>2. t \in Seq(Chars)
    BY <1>3
  <2>3. BreaksAt(t, j, f)
    BY <1>6, <1>8, <2>1, <2>2, Zenon DEF BreaksAt
  <2>4. LinesBetween(t, j, f)
    BY <2>3, BreaksAre, Zenon
  <2> QED  BY <2>4, Zenon DEF LinesBetween
<1>10. \A i \in 1..g - n : R!Lines(t)[i] = SubSeq(t, e[n + i - 1] + 1, e[n + i] - 1)
  <2> SUFFICES ASSUME NEW i \in 1..j
               PROVE  R!Lines(t)[i] = SubSeq(t, e[n + i - 1] + 1, e[n + i] - 1)
    BY <1>5
  <2>1. i - 1 \in 0..j /\ i \in 0..j /\ n + (i - 1) = n + i - 1
    BY <1>2, <1>5
  <2>2. f[i - 1] = e[n + (i - 1)] /\ f[i] = e[n + i]
    BY <1>5, <2>1
  <2> QED  BY <1>9, <2>1, <2>2
<1>11. R!Rest(t) = SubSeq(t, e[g] + 1, T)
  <2>1. j \in 0..j /\ n + j = g
    BY <1>2, <1>4, <1>5
  <2>2. f[j] = e[g]
    BY <1>5, <2>1
  <2> QED  BY <1>3, <1>9, <2>2
<1>12. R!Breaks(t) = {} <=> g = n
  <2>1. (g = n => 1..j = {}) /\ (g # n => 1 \in 1..j)
    BY <1>2, <1>4, <1>5
  <2>2. R!Breaks(t) = {} <=> 1..j = {}
    <3> QED  BY <1>8
  <2> QED  BY <2>1, <2>2
<1>13. TextAfter(k) = t /\ Len(buffer) + k = T
  BY <1>1
<1>14. Len(R!Lines(t)) = g - n
  BY <1>5, <1>9
<1> WITNESS g \in n..m
<1> HIDE DEF T
<1> QED  BY <1>4, <1>9, <1>10, <1>11, <1>12, <1>13, <1>14, Zenon DEF WholeUpTo

\* The readings of a request: in one piece, or with its wide character cut in two.
Uncut(r, x) ==
    /\ \A i \in 1..Len(r) : r[i] = "plain" => x[i] = "plain"
    /\ \A i \in 1..Len(r) : r[i] # "plain" => x[i] \in {"wide", "rest"}
    /\ \A i \in 1..Len(r) : r[i] = "lead" => x[i] = "wide" /\ x[i + 1] = "rest"

LEMMA ReadWhole ==
    ASSUME NEW r \in R!Requests
    PROVE  \E x \in R!Readings(r) : x \in Seq(Chars) /\ Len(x) = Len(r) /\ Uncut(r, x)
<1> DEFINE A3 == {"plain", "lead", "tail"}  A4 == {"plain", "lead", "tail", R!NewLine}
<1>1. r \in Seq(A3) /\ r \in Seq(A4) /\ Len(r) \in Nat /\ Len(r) >= 1
  <2>1. r \in Seq(A3) /\ Len(r) \in Nat /\ Len(r) >= 1
    BY RequestIs
  <2> QED  BY <2>1
<1>2. R!Decode(r) \in Seq(Chars) /\ Len(R!Decode(r)) = Len(r)
  BY <1>1, DecodeIs
<1>3. R!Decode(SubSeq(r, 1, Len(r))) \o R!Decode(SubSeq(r, Len(r) + 1, Len(r))) = R!Decode(r)
  <2>1. SubSeq(r, 1, Len(r)) = r /\ SubSeq(r, Len(r) + 1, Len(r)) = <<>>
    BY <1>1
  <2>2. R!Decode(<<>>) = <<>>
    <3>1. <<>> \in Seq(A4)
      OBVIOUS
    <3>2. R!Decode(<<>>) \in Seq(Chars) /\ Len(R!Decode(<<>>)) = 0
      BY <3>1, DecodeIs
    <3> QED  BY <3>2, EmptySeq
  <2>3. R!Decode(r) \o <<>> = R!Decode(r)
    BY <1>2, ConcatEmptySeq
  <2> QED  BY <2>1, <2>2, <2>3
<1>4. R!Decode(r) \in R!Readings(r)
  <2>1. Len(r) \in 0..Len(r)
    BY <1>1
  <2> QED  BY <1>3, <2>1 DEF R!Readings
<1>5. Uncut(r, R!Decode(r))
  <2>1. ASSUME NEW i \in 1..Len(r), r[i] = "lead"
        PROVE  R!Decode(r)[i] = "wide" /\ R!Decode(r)[i + 1] = "rest"
    <3>1. i < Len(r) /\ r[i + 1] = "tail"
      BY <2>1, RequestIs
    <3> QED  BY <1>1, <2>1, <3>1, DecodeIs, Zenon
  <2>2. ASSUME NEW i \in 1..Len(r), r[i] = "plain" PROVE R!Decode(r)[i] = "plain"
    BY <1>1, <2>2, DecodeIs
  <2>3. ASSUME NEW i \in 1..Len(r), r[i] # "plain" PROVE R!Decode(r)[i] \in {"wide", "rest"}
    <3>1. CASE r[i] = "lead"
      BY <2>1, <3>1
    <3>2. CASE r[i] = "tail"
      <4>1. i > 1 /\ r[i - 1] = "lead" /\ i - 1 \in 1..Len(r) /\ (i - 1) + 1 = i
        BY <1>1, <3>2, RequestIs
      <4>2. R!Decode(r)[(i - 1) + 1] = "rest"
        BY <2>1, <4>1
      <4> QED  BY <4>1, <4>2
    <3> QED  BY <2>3, <3>1, <3>2, RequestIs
  <2> QED  BY <2>1, <2>2, <2>3 DEF Uncut
<1> QED  BY <1>2, <1>4, <1>5

LEMMA ReadCut ==
    ASSUME NEW r \in R!Requests, NEW p \in Nat, IsWide(r, p)
    PROVE  \E x \in R!Readings(r) :
             /\ x \in Seq(Chars) /\ Len(x) = p + 2
             /\ \A i \in 1..p : x[i] = "plain"
             /\ x[p + 1] = "garbled" /\ x[p + 2] = "garbled"
<1> DEFINE A4 == {"plain", "lead", "tail", R!NewLine}
           y == SubSeq(r, 1, p + 1)  w == SubSeq(r, p + 2, p + 2)
<1>1. r \in Seq(A4) /\ Len(r) = p + 2
  <2>1. r \in Seq({"plain", "lead", "tail"})
    BY RequestIs
  <2> QED  BY <2>1 DEF IsWide
<1>2. /\ y \in Seq(A4) /\ Len(y) = p + 1 /\ \A i \in 1..p + 1 : y[i] = r[i]
      /\ w \in Seq(A4) /\ Len(w) = 1 /\ w[1] = r[p + 2]
  BY <1>1
<1>3. R!Decode(y) \o R!Decode(w) \in R!Readings(r)
  <2>1. p + 1 \in 0..Len(r) /\ (p + 1) + 1 = p + 2
    BY <1>1
  <2> QED  BY <1>1, <2>1 DEF R!Readings
<1> HIDE DEF y, w
<1>4. PICK u, v : u = R!Decode(y) /\ v = R!Decode(w)
  OBVIOUS
<1>5. u \in Seq(Chars) /\ Len(u) = p + 1 /\ v \in Seq(Chars) /\ Len(v) = 1
  BY <1>2, <1>4, DecodeIs, Zenon
<1>6. \A i \in 1..p : u[i] = "plain"
  <2> SUFFICES ASSUME NEW i \in 1..p PROVE u[i] = "plain"
    OBVIOUS
  <2>1. i \in 1..p + 1 /\ r[i] = "plain"
    BY DEF IsWide
  <2>2. i \in 1..Len(y) /\ y[i] = "plain"
    BY <1>2, <2>1
  <2> QED  BY <1>2, <1>4, <2>2, DecodeIs
<1>7. u[p + 1] = "garbled" /\ v[1] = "garbled"
  <2>1. /\ p + 1 \in 1..Len(y) /\ p + 1 = Len(y) /\ y[p + 1] = "lead"
        /\ 1 \in 1..Len(w) /\ w[1] = "tail"
    BY <1>2 DEF IsWide
  <2> QED  BY <1>2, <1>4, <2>1, DecodeIs, Zenon
<1>8. PICK x : x = u \o v
  OBVIOUS
<1>9. /\ x \in Seq(Chars) /\ Len(x) = (p + 1) + 1
      /\ \A i \in 1..(p + 1) : x[i] = u[i]
      /\ x[(p + 1) + 1] = v[1]
  <2>1. PICK N : N = p + 1
    OBVIOUS
  <2>2. N \in Nat /\ Len(u) = N /\ u \in Seq(Chars) /\ v \in Seq(Chars) /\ Len(v) = 1
    BY <1>5, <2>1
  <2>3. /\ u \o v \in Seq(Chars) /\ Len(u \o v) = Len(u) + Len(v)
        /\ \A i \in 1..Len(u) + Len(v) : (u \o v)[i] = IF i <= Len(u) THEN u[i] ELSE v[i - Len(u)]
    BY <2>2, ConcatProperties
  <2>4. /\ x \in Seq(Chars) /\ Len(x) = N + 1
        /\ (\A i \in 1..N : x[i] = u[i]) /\ x[N + 1] = v[1]
    BY <1>8, <2>2, <2>3
  <2> QED  BY <2>1, <2>4
<1>10. /\ Len(x) = p + 2 /\ \A i \in 1..p : x[i] = "plain"
       /\ x[p + 1] = "garbled" /\ x[p + 2] = "garbled"
  <2>1. \A i \in 1..p : i \in 1..(p + 1)
    OBVIOUS
  <2>2. p + 1 \in 1..(p + 1) /\ (p + 1) + 1 = p + 2
    OBVIOUS
  <2> QED  BY <1>6, <1>7, <1>9, <2>1, <2>2
<1> QED  BY <1>3, <1>4, <1>8, <1>9, <1>10

\* A whole line that was read is a reading of the request.
LEMMA ReadingIs ==
    ASSUME NEW r \in R!Requests, NEW x \in Seq(Chars), Len(x) = Len(r), ReadsAs(x, 0, Len(r), r)
    PROVE  x \in R!Readings(r)
<1>1. Len(r) \in Nat
  BY RequestIs
<1>2. /\ \A i \in 1..Len(r) : r[i] = "plain" => x[i] = "plain"
      /\ \A i \in 1..Len(r) : r[i] = "lead" => Halves(x, i, Len(r), i)
  <2>1. \A i \in 1..Len(r) : 0 + i = i
    OBVIOUS
  <2> QED  BY <2>1 DEF ReadsAs
<1>3. PICK w \in R!Readings(r) : w \in Seq(Chars) /\ Len(w) = Len(r) /\ Uncut(r, w)
  BY ReadWhole
<1>4. CASE IsPlain(r)
  <2>1. \A i \in 1..Len(r) : w[i] = x[i]
    BY <1>2, <1>3, <1>4 DEF IsPlain, Uncut
  <2>2. w = x
    BY <1>1, <1>3, <2>1, SeqEqual
  <2> QED  BY <1>3, <2>2
<1>5. ASSUME NEW p \in Nat, IsWide(r, p) PROVE x \in R!Readings(r)
  <2>1. /\ Len(r) = p + 2 /\ p + 1 \in 1..Len(r) /\ r[p + 1] = "lead" /\ p + 1 < Len(r) /\ (p + 1) + 1 = p + 2
        /\ \A i \in 1..p : i \in 1..Len(r) /\ r[i] = "plain"
        /\ \A i \in 1..Len(r) : i \in 1..p \/ i = p + 1 \/ i = p + 2
    BY <1>5 DEF IsWide
  <2>2. \A i \in 1..p : x[i] = "plain"
    BY <1>2, <2>1
  <2>3. \/ x[p + 1] = "garbled" /\ x[p + 2] = "garbled"
        \/ x[p + 1] = "wide" /\ x[p + 2] = "rest"
    BY <1>2, <2>1 DEF Halves
  <2>4. CASE x[p + 1] = "garbled" /\ x[p + 2] = "garbled"
    <3>1. PICK z \in R!Readings(r) :
             /\ z \in Seq(Chars) /\ Len(z) = p + 2
             /\ \A i \in 1..p : z[i] = "plain"
             /\ z[p + 1] = "garbled" /\ z[p + 2] = "garbled"
      BY <1>5, ReadCut
    <3>2. \A i \in 1..Len(r) : z[i] = x[i]
      BY <2>1, <2>2, <2>4, <3>1
    <3>3. z = x
      BY <2>1, <3>1, <3>2, SeqEqual
    <3> QED  BY <3>1, <3>3
  <2>5. CASE x[p + 1] = "wide" /\ x[p + 2] = "rest"
    <3>1. /\ \A i \in 1..p : w[i] = "plain"
          /\ w[p + 1] = "wide" /\ w[p + 2] = "rest"
      BY <1>3, <2>1 DEF Uncut
    <3>2. \A i \in 1..Len(r) : w[i] = x[i]
      BY <2>1, <2>2, <2>5, <3>1
    <3>3. w = x
      BY <1>3, <2>1, <3>2, SeqEqual
    <3> QED  BY <1>3, <3>3
  <2> QED  BY <2>3, <2>4, <2>5
<1> QED  BY <1>4, <1>5, RequestIs

LEMMA PieceRead ==
    ASSUME NEW t \in Seq(Chars), NEW a \in Nat, NEW l \in Nat, a + l <= Len(t), NEW r, ReadsAs(t, a, l, r)
    PROVE  /\ SubSeq(t, a + 1, a + l) \in Seq(Chars) /\ Len(SubSeq(t, a + 1, a + l)) = l
           /\ \A i \in 1..l : SubSeq(t, a + 1, a + l)[i] = t[a + i]
           /\ ReadsAs(SubSeq(t, a + 1, a + l), 0, l, r)
<1> DEFINE x == SubSeq(t, a + 1, a + l)
<1>1. \A i \in a + 1..a + l : t[i] \in Chars
  OBVIOUS
<1>2. x \in Seq(Chars) /\ Len(x) = l
  <2>1. Len(x) = IF a + 1 <= a + l THEN a + l - (a + 1) + 1 ELSE 0
    BY <1>1, SubSeqProperties
  <2> HIDE DEF Chars
  <2> QED  BY <1>1, <2>1, SubSeqProperties
<1>3. \A i \in 1..l : x[i] = t[a + i]
  OBVIOUS
<1> HIDE DEF x
<1>4. ReadsAs(x, 0, l, r)
  <2>1. ASSUME NEW i \in 1..l, r[i] = "plain" PROVE x[0 + i] = "plain"
    <3>1. 0 + i = i /\ t[a + i] = "plain"
      BY <2>1 DEF ReadsAs
    <3> QED  BY <1>3, <3>1
  <2>2. ASSUME NEW i \in 1..l, r[i] = "lead" PROVE Halves(x, 0 + i, l, i)
    <3>1. 0 + i = i /\ Halves(t, a + i, l, i) /\ x[i] = t[a + i]
      BY <1>3, <2>2 DEF ReadsAs
    <3>2. i < l => x[i + 1] = t[a + i + 1]
      <4>1. i < l => i + 1 \in 1..l /\ a + (i + 1) = a + i + 1
        OBVIOUS
      <4> QED  BY <1>3, <4>1
    <3> QED  BY <3>1, <3>2 DEF Halves
  <2> QED  BY <2>1, <2>2 DEF ReadsAs
<1> QED  BY <1>2, <1>3, <1>4 DEF x

\* A text of which all from some place on, and no other, is garbled: three bytes for one.
LEMMA ByteLengthIs ==
    ASSUME NEW x \in Seq(Chars), NEW p \in Nat, p <= Len(x),
           \A i \in 1..Len(x) : x[i] = "garbled" <=> i > p
    PROVE  R!ByteLength(x) = Len(x) + 2 * (Len(x) - p)
<1> DEFINE z == [i \in 1..Len(x) |-> R!Width(x[i])]
           s == [n \in 0..Len(x) |-> IF n <= p THEN n ELSE n + 2 * (n - p)]
<1>1. Len(x) \in Nat
  OBVIOUS
<1>2. z \in Seq(Int) /\ Len(z) = Len(x) /\ \A i \in 1..Len(x) : z[i] = IF i > p THEN 3 ELSE 1
  BY DEF R!Width
<1>3. R!ByteLength(x) = R!Total(z)
  BY DEF R!ByteLength
<1> HIDE DEF z
<1>4. s \in [0..Len(x) -> Int] /\ s[0] = 0 /\ \A n \in 1..Len(x) : s[n] = s[n - 1] + z[n]
  <2>1. \A n \in 1..Len(x) : n - 1 \in 0..Len(x) /\ n \in 0..Len(x)
    BY <1>1
  <2>2. s \in [0..Len(x) -> Int] /\ s[0] = 0
    BY <1>1
  <2>3. ASSUME NEW n \in 1..Len(x) PROVE s[n] = s[n - 1] + z[n]
    <3>1. /\ s[n] = IF n <= p THEN n ELSE n + 2 * (n - p)
          /\ s[n - 1] = IF n - 1 <= p THEN n - 1 ELSE (n - 1) + 2 * ((n - 1) - p)
      BY <2>1
    <3> HIDE DEF s
    <3> QED  BY <1>1, <1>2, <3>1
  <2> HIDE DEF s
  <2> QED  BY <2>2, <2>3
<1>5. s[Len(x)] = Len(x) + 2 * (Len(x) - p)
  BY <1>1
<1> HIDE DEF s
<1>6. R!Total(z) = s[Len(z)]
  BY <1>2, <1>4, TotalIs
<1> QED  BY <1>2, <1>3, <1>5, <1>6

\* If what was read of a request is too long, then so is a reading of all of it.
LEMMA TooLongRead ==
    ASSUME NEW r \in R!Requests, NEW x \in Seq(Chars), Len(x) <= Len(r), ReadsAs(x, 0, Len(x), r),
           R!TooLong(x)
    PROVE  R!MayBeTooLong(r)
<1>1. Len(r) \in Nat /\ Len(x) \in Nat /\ MaxLineBytes \in Nat
  BY RequestIs, RpcConstants
<1>2. /\ \A i \in 1..Len(x) : r[i] = "plain" => x[i] = "plain"
      /\ \A i \in 1..Len(x) : r[i] = "lead" => Halves(x, i, Len(x), i)
  <2>1. \A i \in 1..Len(x) : 0 + i = i
    OBVIOUS
  <2> QED  BY <2>1 DEF ReadsAs
<1>3. ASSUME \A i \in 1..Len(x) : x[i] = "plain" PROVE R!MayBeTooLong(r)
  <2>1. R!ByteLength(x) = Len(x) + 2 * (Len(x) - Len(x))
    BY <1>1, <1>3, ByteLengthIs
  <2>2. PICK w \in R!Readings(r) : w \in Seq(Chars) /\ Len(w) = Len(r) /\ Uncut(r, w)
    BY ReadWhole
  <2>3. \A i \in 1..Len(w) : w[i] # "garbled" /\ ~(i > Len(w))
    BY <1>1, <2>2 DEF Uncut
  <2>4. R!ByteLength(w) = Len(w) + 2 * (Len(w) - Len(w))
    BY <1>1, <2>2, <2>3, ByteLengthIs
  <2>5. R!TooLong(w)
    BY <1>1, <2>1, <2>2, <2>4 DEF R!TooLong
  <2> QED  BY <2>2, <2>5 DEF R!MayBeTooLong
<1>4. CASE IsPlain(r)
  <2>1. \A i \in 1..Len(x) : i \in 1..Len(r)
    BY <1>1
  <2> QED  BY <1>2, <1>3, <1>4, <2>1 DEF IsPlain
<1>5. ASSUME NEW p \in Nat, IsWide(r, p) PROVE R!MayBeTooLong(r)
  <2>1. Len(r) = p + 2 /\ r[p + 1] = "lead" /\ \A i \in 1..p : r[i] = "plain"
    BY <1>5 DEF IsWide
  <2>2. CASE Len(x) <= p
    <3>1. \A i \in 1..Len(x) : i \in 1..p
      BY <1>1, <2>2
    <3> QED  BY <1>2, <1>3, <2>1, <3>1
  <2>3. CASE Len(x) = p + 1
    <3>1. p + 1 \in 1..Len(x) /\ ~(p + 1 < Len(x)) /\ \A i \in 1..p : i \in 1..Len(x)
      BY <2>3
    <3>2. x[p + 1] = "garbled" /\ \A i \in 1..p : x[i] = "plain"
      BY <1>2, <2>1, <3>1 DEF Halves
    <3>3. \A i \in 1..Len(x) : x[i] = "garbled" <=> i > p
      BY <2>3, <3>2
    <3>4. R!ByteLength(x) = Len(x) + 2 * (Len(x) - p)
      <4>1. p <= Len(x)
        BY <2>3
      <4> QED  BY <3>3, <4>1, ByteLengthIs, Zenon
    <3>5. PICK w \in R!Readings(r) :
             /\ w \in Seq(Chars) /\ Len(w) = p + 2
             /\ \A i \in 1..p : w[i] = "plain"
             /\ w[p + 1] = "garbled" /\ w[p + 2] = "garbled"
      BY <1>5, ReadCut
    <3>6. \A i \in 1..Len(w) : w[i] = "garbled" <=> i > p
      BY <3>5
    <3>7. R!ByteLength(w) = Len(w) + 2 * (Len(w) - p)
      <4>1. w \in Seq(Chars) /\ p <= Len(w)
        BY <3>5
      <4> QED  BY <3>6, <4>1, ByteLengthIs, Zenon
    <3>8. R!TooLong(w)
      BY <1>1, <2>3, <3>4, <3>5, <3>7 DEF R!TooLong
    <3> QED  BY <3>5, <3>8 DEF R!MayBeTooLong
  <2>4. CASE Len(x) = p + 2
    <3>1. x \in R!Readings(r)
      BY <2>1, <2>4, ReadingIs
    <3> QED  BY <3>1 DEF R!MayBeTooLong
  <2> QED  BY <1>1, <2>1, <2>2, <2>3, <2>4
<1> QED  BY <1>4, <1>5, RequestIs

\* What the server makes of k more bytes: g is the last call whose line is whole by then.
LEMMA TextSplits ==
    ASSUME RpcTyped, NEW e, Ends(e), NEW k \in 1..Len(bytes),
           NEW n, NEW m, NEW b, n = Len(handled), m = Len(request), b = Len(buffer)
    PROVE  \E g \in n..m :
             /\ e[g] <= b + k
             /\ g < m => e[g + 1] > b + k
             /\ R!Breaks(TextAfter(k)) = {} <=> g = n
             /\ R!Lines(TextAfter(k)) \in Seq(Seq(Chars)) /\ Len(R!Lines(TextAfter(k))) = g - n
             /\ \A i \in 1..g - n : R!Lines(TextAfter(k))[i] \in R!Readings(request[n + i])
             /\ R!TooMuch(TextAfter(k)) => n < m /\ R!MayBeTooLong(request[n + 1])
             /\ R!Rest(TextAfter(k)) \in Seq(Chars) /\ Len(R!Rest(TextAfter(k))) = (b + k) - e[g]
             /\ g < m => ReadsAs(R!Rest(TextAfter(k)), 0, (b + k) - e[g], request[g + 1])
<1>1. /\ n \in Nat /\ m \in Nat /\ b \in Nat /\ n <= m /\ Len(bytes) \in Nat
      /\ e \in [n..m -> Nat] /\ e[n] = 0 /\ e[m] = b + Len(bytes)
      /\ \A c, d \in n..m : c < d => e[c] < e[d]
      /\ \A c \in n + 1..m : LineEnds(e, n, m, b, c)
  BY EndsSay
<1>2. PICK t : t = TextAfter(k)
  OBVIOUS
<1>3. t \in Seq(Chars) /\ Len(t) = b + k
  BY <1>2, TextIs
<1>4. PICK g \in n..m : WholeUpTo(e, k, n, m, g)
  BY LinesAre
<1>20. /\ e[g] <= b + k
       /\ g < m => e[g + 1] > b + k
       /\ R!Breaks(t) = {} <=> g = n
       /\ R!Lines(t) \in Seq(Seq(Chars)) /\ Len(R!Lines(t)) = g - n
       /\ \A i \in 1..g - n : R!Lines(t)[i] = SubSeq(t, e[n + i - 1] + 1, e[n + i] - 1)
       /\ R!Rest(t) = SubSeq(t, e[g] + 1, b + k)
  BY <1>2, <1>4 DEF WholeUpTo
<1>21. g \in Nat /\ n <= g /\ g <= m /\ e[g] \in Nat /\ e[g] <= b + k /\ k \in Nat /\ k >= 1
  <2>1. g \in n..m /\ e[g] <= b + k
    BY <1>4, <1>20
  <2> QED  BY <1>1, <2>1
<1>22. PICK T : T = b + k
  OBVIOUS
<1>23. T \in Nat /\ T >= 1 /\ Len(t) = T
  BY <1>1, <1>3, <1>21, <1>22
<1>24. e[g] \in Nat /\ e[g] <= T /\ (g < m => e[g + 1] > T)
  BY <1>20, <1>21, <1>22
<1>25. R!Rest(t) = SubSeq(t, e[g] + 1, T)
  BY <1>20, <1>22
<1>5. ASSUME NEW c \in n + 1..m
      PROVE  /\ c \in n..m /\ c - 1 \in n..m /\ request[c] \in R!Requests
             /\ e[c] \in Nat /\ e[c - 1] \in Nat /\ e[c] = e[c - 1] + Len(request[c]) + 1
             /\ Len(request[c]) \in Nat /\ Len(request[c]) >= 1
  <2>1. LineEnds(e, n, m, b, c)
    BY <1>1
  <2>2. /\ c \in n..m /\ c - 1 \in n..m /\ request[c] \in R!Requests
        /\ e[c] = e[c - 1] + Len(request[c]) + 1
    BY <2>1 DEF LineEnds
  <2>3. e[c] \in Nat /\ e[c - 1] \in Nat
    BY <1>1, <2>2
  <2> QED  BY <2>2, <2>3, RequestIs
<1>6. ASSUME NEW i \in 1..g - n
      PROVE  R!Lines(t)[i] \in R!Readings(request[n + i])
  <2>1. PICK c : c = n + i /\ c \in n + 1..m /\ c <= g /\ c - 1 = n + i - 1
    BY <1>1
  <2>2. PICK a, l, r : a = e[c - 1] /\ l = Len(request[c]) /\ r = request[c]
    OBVIOUS
  <2>3. r \in R!Requests /\ a \in Nat /\ l \in Nat /\ e[c] = a + l + 1 /\ l >= 1
    BY <1>5, <2>1, <2>2
  <2>4. e[c] <= T
    <3>1. c < g => e[c] < e[g]
      BY <1>1, <2>1
    <3>2. e[c] \in Nat
      BY <1>5, <2>1
    <3>3. PICK u, v : u = e[c] /\ v = e[g]
      OBVIOUS
    <3>4. u \in Nat /\ v \in Nat /\ v <= T /\ (c < g => u < v) /\ (c = g => u = v)
      BY <1>24, <3>1, <3>2, <3>3
    <3>5. c \in Nat /\ g \in Nat /\ c <= g
      BY <1>1, <1>21, <2>1
    <3> QED  BY <1>23, <3>3, <3>4, <3>5
  <2>5. a + l <= T
    BY <1>23, <2>3, <2>4
  <2>6. ReadsAs(t, a, l, r)
    <3>1. l \in 0..Len(request[c]) /\ c \in Len(handled) + 1..Len(request)
      BY <2>1, <2>2, <2>3
    <3>2. e[c - 1] + l <= Len(buffer) + k
      BY <1>22, <2>2, <2>5
    <3> QED  BY <1>2, <2>2, <3>1, <3>2, LineRead
  <2>7. PICK x : x = SubSeq(t, a + 1, a + l)
    OBVIOUS
  <2>8. x \in Seq(Chars) /\ Len(x) = l /\ ReadsAs(x, 0, l, r)
    BY <1>3, <1>23, <2>3, <2>5, <2>6, <2>7, PieceRead
  <2>9. R!Lines(t)[i] = x
    <3>1. R!Lines(t)[i] = SubSeq(t, e[n + i - 1] + 1, e[n + i] - 1)
      BY <1>20
    <3>2. e[n + i - 1] + 1 = a + 1 /\ e[n + i] - 1 = a + l
      BY <2>1, <2>2, <2>3
    <3> QED  BY <2>7, <3>1, <3>2
  <2>10. x \in R!Readings(r)
    BY <2>2, <2>3, <2>8, ReadingIs
  <2> QED  BY <2>1, <2>2, <2>9, <2>10
<1>7. ASSUME g < m
      PROVE  /\ g + 1 \in n + 1..m /\ e[g] \in Nat
             /\ T - e[g] \in 0..Len(request[g + 1])
             /\ ReadsAs(t, e[g], T - e[g], request[g + 1])
  <2>1. g + 1 \in n + 1..m /\ g + 1 - 1 = g
    BY <1>1, <1>7
  <2>2. e[g] \in Nat /\ e[g + 1] = e[g] + Len(request[g + 1]) + 1 /\ Len(request[g + 1]) \in Nat
    BY <1>5, <2>1
  <2>3. T - e[g] \in 0..Len(request[g + 1])
    <3>1. e[g + 1] > T
      BY <1>7, <1>24
    <3>2. PICK x, y, z : x = e[g] /\ y = e[g + 1] /\ z = Len(request[g + 1])
      OBVIOUS
    <3>3. x \in Nat /\ x <= T /\ y = x + z + 1 /\ z \in Nat /\ y > T
      BY <1>24, <2>2, <3>1, <3>2
    <3>4. T - x \in 0..z
      BY <1>23, <3>3
    <3> QED  BY <3>2, <3>4
  <2>4. PICK c, l : c = g + 1 /\ l = T - e[g]
    OBVIOUS
  <2>5. /\ c \in Len(handled) + 1..Len(request) /\ l \in 0..Len(request[c])
        /\ e[c - 1] + l <= Len(buffer) + k /\ e[c - 1] + l = Len(buffer) + k
        /\ e[c - 1] = e[g]
    <3>1. c - 1 = g
      BY <1>21, <2>4
    <3>3. T = e[g] + l
      BY <1>23, <1>24, <2>4
    <3>2. c \in Len(handled) + 1..Len(request) /\ l \in 0..Len(request[c])
      BY <2>1, <2>3, <2>4
    <3>4. T = Len(buffer) + k
      BY <1>22
    <3> QED  BY <1>23, <3>1, <3>2, <3>3, <3>4
  <2>6. ReadsAs(TextAfter(k), e[c - 1], l, request[c])
    BY <2>5, LineRead
  <2> QED  BY <1>2, <2>1, <2>2, <2>3, <2>4, <2>5, <2>6
<1>8. /\ R!Rest(t) \in Seq(Chars) /\ Len(R!Rest(t)) = T - e[g]
      /\ g < m => ReadsAs(R!Rest(t), 0, T - e[g], request[g + 1])
  <2>1. PICK a, l : a = e[g] /\ l = T - e[g]
    OBVIOUS
  <2>2. a \in Nat /\ l \in Nat /\ a + l = T /\ a + l <= Len(t)
    BY <1>23, <1>24, <2>1
  <2>3. R!Rest(t) = SubSeq(t, a + 1, a + l)
    BY <1>25, <2>1, <2>2
  <2>5. R!Rest(t) \in Seq(Chars) /\ Len(R!Rest(t)) = l
    <3>1. \A q \in a + 1..a + l : t[q] \in Chars
      BY <1>3, <2>2
    <3>2. Len(SubSeq(t, a + 1, a + l)) = l
      BY <1>3, <2>2, SubSeqProperties
    <3> HIDE DEF Chars
    <3>3. SubSeq(t, a + 1, a + l) \in Seq(Chars)
      BY <2>2, <3>1, SubSeqProperties
    <3> QED  BY <2>3, <3>2, <3>3
  <2>6. ASSUME g < m PROVE ReadsAs(R!Rest(t), 0, l, request[g + 1])
    <3>1. ReadsAs(t, a, l, request[g + 1])
      BY <1>7, <2>1, <2>6
    <3>2. PICK r : r = request[g + 1]
      OBVIOUS
    <3>3. ReadsAs(SubSeq(t, a + 1, a + l), 0, l, r)
      <4>1. t \in Seq(Chars) /\ a \in Nat /\ l \in Nat /\ a + l <= Len(t) /\ ReadsAs(t, a, l, r)
        BY <1>3, <2>2, <3>1, <3>2
      <4> QED  BY <4>1, PieceRead
    <3> QED  BY <2>3, <3>2, <3>3
  <2> QED  BY <2>1, <2>5, <2>6
<1>9. ASSUME R!TooMuch(t) PROVE n < m /\ R!MayBeTooLong(request[n + 1])
  <2>1. R!TooLong(t) /\ R!Breaks(t) = {}
    BY <1>9 DEF R!TooMuch, R!TooLong
  <2>2. g = n /\ e[g] = 0
    BY <1>1, <1>20, <2>1
  <2>3. n < m
    BY <1>1, <1>20, <2>2
  <2>4. PICK r : r = request[n + 1]
    OBVIOUS
  <2>5. T - 0 \in 0..Len(r) /\ ReadsAs(t, 0, T - 0, r)
    BY <1>7, <2>2, <2>3, <2>4
  <2>6. T - 0 = T /\ Len(t) <= Len(r) /\ Len(t) = T
    BY <1>23, <2>5
  <2>7. r \in R!Requests
    <3>1. n + 1 \in n + 1..m
      BY <1>1, <2>3
    <3> QED  BY <1>5, <2>4, <3>1
  <2>8. R!MayBeTooLong(r)
    BY <1>3, <2>1, <2>5, <2>6, <2>7, TooLongRead
  <2> QED  BY <2>3, <2>4, <2>8
<1>26. /\ e[g] <= b + k
       /\ g < m => e[g + 1] > b + k
       /\ R!Breaks(t) = {} <=> g = n
       /\ R!Lines(t) \in Seq(Seq(Chars)) /\ Len(R!Lines(t)) = g - n
       /\ R!TooMuch(t) => n < m /\ R!MayBeTooLong(request[n + 1])
       /\ R!Rest(t) \in Seq(Chars) /\ Len(R!Rest(t)) = (b + k) - e[g]
       /\ g < m => ReadsAs(R!Rest(t), 0, (b + k) - e[g], request[g + 1])
  <2>1. /\ R!Rest(t) \in Seq(Chars) /\ Len(R!Rest(t)) = (b + k) - e[g]
        /\ g < m => ReadsAs(R!Rest(t), 0, (b + k) - e[g], request[g + 1])
    BY <1>8, <1>22, Zenon
  <2>2. /\ e[g] <= b + k
        /\ g < m => e[g + 1] > b + k
        /\ R!Breaks(t) = {} <=> g = n
        /\ R!Lines(t) \in Seq(Seq(Chars)) /\ Len(R!Lines(t)) = g - n
    BY <1>20
  <2>3. R!TooMuch(t) => n < m /\ R!MayBeTooLong(request[n + 1])
    BY <1>9
  <2> QED  BY <2>1, <2>2, <2>3, Zenon
<1>27. \A i \in 1..g - n : R!Lines(t)[i] \in R!Readings(request[n + i])
  BY <1>6
<1> WITNESS g \in n..m
<1> QED  BY <1>2, <1>26, <1>27

\* What is added to the lines that were handled.
LEMMA MoreHandled ==
    ASSUME RpcTyped, R!LinesAsSent, R!CapIsOnLines,
           NEW n, n = Len(handled), NEW j \in Nat, NEW ls \in Seq(Seq(Chars)), Len(ls) = j,
           n + j <= Len(request),
           \A i \in 1..j : ls[i] \in R!Readings(request[n + i]) /\ ~R!TooLong(ls[i])
    PROVE  /\ (handled \o ls) \in Seq(Seq(Chars)) /\ Len(handled \o ls) = n + j
           /\ \A c \in 1..n + j : /\ (handled \o ls)[c] \in R!Readings(request[c])
                                  /\ ~R!TooLong((handled \o ls)[c])
<1>1. handled \in Seq(Seq(Chars)) /\ n \in Nat
  BY DEF RpcTyped
<1>2. PICK h : h = handled \o ls
  OBVIOUS
<1>3. /\ h \in Seq(Seq(Chars)) /\ Len(h) = n + j
      /\ \A c \in 1..n + j : h[c] = IF c <= n THEN handled[c] ELSE ls[c - n]
  BY <1>1, <1>2, ConcatProperties
<1>20. ASSUME NEW c \in 1..n + j PROVE h[c] \in R!Readings(request[c]) /\ ~R!TooLong(h[c])
  <2>1. CASE c <= n
    <3>1. handled[c] \in R!Readings(request[c]) /\ ~R!TooLong(handled[c])
      BY <1>1, <2>1 DEF R!LinesAsSent, R!CapIsOnLines
    <3> QED  BY <1>3, <2>1, <3>1
  <2>2. CASE c > n
    <3>1. PICK i : i = c - n
      OBVIOUS
    <3>2. i \in 1..j /\ n + i = c
      BY <1>1, <2>2, <3>1
    <3>3. ls[i] \in R!Readings(request[n + i]) /\ ~R!TooLong(ls[i])
      BY <3>2
    <3>4. h[c] = ls[i]
      BY <1>1, <1>3, <2>2, <3>1
    <3> QED  BY <3>2, <3>3, <3>4
  <2> QED  BY <1>1, <2>1, <2>2
<1> QED  BY <1>2, <1>3, <1>20

\* With an empty queue there is nothing to be summed up and nothing out of order.
LEMMA EmptyQueue ==
    /\ Sums(<<>>, [i \in {0} |-> 0]) /\ Ascending(<<>>)
    /\ NumbersIn(<<>>) = {}
<1>1. Len(<<>>) = 0 /\ 0..0 = {0} /\ 1..0 = {}
  OBVIOUS
<1>2. Sums(<<>>, [i \in {0} |-> 0])
  BY <1>1 DEF Sums
<1> QED  BY <1>1, <1>2 DEF Ascending, NumbersIn

\* What is lost with the connection.
LEMMA DestroyedIsSound ==
    ASSUME RpcIInv, conn' = "destroyed", out' = <<>>, flushed' = flushed, heard' = heard,
           occurred' \in Nat, occurred <= occurred'
    PROVE  BytesInLine' /\ AnswersOnlyBeyond' /\ NothingSkipped'
<1>1. BytesInLine'
  BY DEF BytesInLine
<1>2. AnswersOnlyBeyond'
  <2>1. Sums(out', [i \in {0} |-> 0])
    BY EmptyQueue
  <2>2. \A n \in 1..Len(out') : FALSE
    OBVIOUS
  <2>3. Sums(out, [i \in {0} |-> 0])'
    BY <2>1 DEF Sums
  <2> QED  BY <2>2, <2>3 DEF AnswersOnlyBeyond
<1>3. NothingSkipped'
  <2>1. PICK mid \in Nat : /\ Len(heard) <= mid /\ mid <= occurred
                           /\ NumbersIn(flushed) = Len(heard) + 1..mid
    BY DEF RpcIInv, NothingSkipped
  <2>2. Ascending(out)' /\ Ascending(flushed)'
    BY EmptyQueue DEF RpcIInv, NothingSkipped, Ascending
  <2>3. NumbersIn(flushed)' = NumbersIn(flushed)
    BY DEF NumbersIn
  <2>4. Len(heard') <= mid /\ mid <= occurred'
    BY <2>1 DEF RpcIInv, RpcTyped
  <2>5. NumbersIn(flushed)' = Len(heard') + 1..mid
    BY <2>1, <2>3
  <2> QED  BY <2>1, <2>2, <2>4, <2>5 DEF NothingSkipped
<1> QED  BY <1>1, <1>2, <1>3

\* What Data does to the server: j lines more are handled, none of them too long.
LEMMA DataDoes ==
    ASSUME RpcIInv, NEW k \in 1..Len(bytes), R!Data(k), NEW t, t = TextAfter(k),
           R!Lines(t) \in Seq(Seq(Chars)), R!Rest(t) \in Seq(Chars)
    PROVE  /\ conn = "open" /\ bytes' = SubSeq(bytes, k + 1, Len(bytes))
           /\ made' = made /\ request' = request /\ unanswered' = unanswered /\ ended' = ended
           /\ heard' = heard /\ sock' = sock /\ flushed' = flushed /\ occurred' = occurred
           /\ \E j \in 0..Len(R!Lines(t)) :
                /\ handled' = handled \o SubSeq(R!Lines(t), 1, j)
                /\ handlers' \subseteq handlers \union (Len(handled) + 1..Len(handled'))
                /\ \A i \in 1..j : ~R!TooLong(R!Lines(t)[i])
                /\ buffer' \in Seq(Chars)
                /\ \/ /\ conn' = "destroyed" /\ out' = <<>> /\ refused' = TRUE
                      /\ \/ j = 0 /\ R!TooMuch(t)
                         \/ j + 1 \in 1..Len(R!Lines(t)) /\ R!TooLong(R!Lines(t)[j + 1])
                   \/ /\ j = Len(R!Lines(t)) /\ buffer' = R!Rest(t)
                      /\ conn' = conn /\ out' = out /\ refused' = refused
<1> DEFINE lines == R!Lines(t)
           bad == {i \in 1..Len(lines) : R!TooLong(lines[i])}
           first == CHOOSE i \in bad : \A o \in bad : i <= o
<1>1. /\ conn = "open" /\ bytes' = SubSeq(bytes, k + 1, Len(bytes))
      /\ made' = made /\ request' = request /\ unanswered' = unanswered /\ ended' = ended
      /\ heard' = heard /\ sock' = sock /\ flushed' = flushed /\ occurred' = occurred
  BY DEF R!Data, R!clientVars
<1>2. \/ /\ R!TooMuch(t) /\ conn' = "destroyed" /\ out' = <<>> /\ refused' = TRUE
         /\ buffer' = buffer /\ handled' = handled /\ handlers' = handlers
      \/ /\ bad # {} /\ R!Dispatch(SubSeq(lines, 1, first - 1)) /\ buffer' = <<>>
         /\ conn' = "destroyed" /\ out' = <<>> /\ refused' = TRUE
      \/ /\ bad = {} /\ R!Dispatch(lines) /\ buffer' = R!Rest(t)
         /\ conn' = conn /\ out' = out /\ refused' = refused
  BY DEF R!Data, R!Destroy, TextAfter
<1>3. buffer \in Seq(Chars) /\ handled \in Seq(Seq(Chars)) /\ Len(handled) \in Nat
  BY DEF RpcIInv, RpcTyped
<1>4. Len(lines) \in Nat /\ lines \in Seq(Seq(Chars))
  OBVIOUS
<1>5. CASE /\ R!TooMuch(t) /\ conn' = "destroyed" /\ out' = <<>> /\ refused' = TRUE
           /\ buffer' = buffer /\ handled' = handled /\ handlers' = handlers
  <2>1. SubSeq(lines, 1, 0) = <<>> /\ handled \o <<>> = handled
    BY <1>3, <1>4
  <2>2. 0 \in 0..Len(lines) /\ 1..0 = {}
    BY <1>4
  <2> HIDE DEF lines
  <2> QED  BY <1>1, <1>3, <1>5, <2>1, <2>2 DEF lines
<1>6. CASE /\ bad # {} /\ R!Dispatch(SubSeq(lines, 1, first - 1)) /\ buffer' = <<>>
           /\ conn' = "destroyed" /\ out' = <<>> /\ refused' = TRUE
  <2>1. first \in bad /\ \A o \in bad : first <= o
    <3>1. bad \in SUBSET Nat /\ bad # {}
      <4>1. 1..Len(lines) \subseteq Nat
        BY <1>4
      <4>2. bad \subseteq 1..Len(lines) /\ bad # {}
        BY <1>6, Zenon
      <4> QED  BY <4>1, <4>2, Zenon
    <3> HIDE DEF bad
    <3>2. \E i \in bad : \A o \in bad : i <= o
      BY <3>1, LeastIsIn
    <3> QED  BY <3>2
  <2> HIDE DEF first
  <2>2. first \in 1..Len(lines) /\ R!TooLong(lines[first])
    BY <2>1
  <2>3. PICK j : j = first - 1
    OBVIOUS
  <2>4. j \in 0..Len(lines) /\ \A i \in 1..j : i \in 1..Len(lines) /\ i < first
    BY <1>4, <2>2, <2>3
  <2>5. \A i \in 1..j : ~R!TooLong(lines[i])
    <3> SUFFICES ASSUME NEW i \in 1..j, R!TooLong(lines[i]) PROVE FALSE
      OBVIOUS
    <3>1. i \in bad /\ i < first /\ i \in Nat /\ first \in Nat
      BY <2>2, <2>4
    <3>2. first <= i
      BY <2>1, <3>1
    <3> QED  BY <3>1, <3>2
  <2>6. <<>> \in Seq(Chars)
    OBVIOUS
  <2>7. /\ handled' = handled \o SubSeq(lines, 1, j)
        /\ handlers' = handlers \union (Len(handled) + 1..Len(handled'))
    BY <1>6, <2>3 DEF R!Dispatch
  <2>8. j + 1 \in 1..Len(lines) /\ R!TooLong(lines[j + 1])
    <3>1. j + 1 = first
      BY <2>2, <2>3
    <3> QED  BY <2>2, <3>1
  <2> HIDE DEF lines, bad
  <2> QED  BY <1>1, <1>6, <2>4, <2>5, <2>6, <2>7, <2>8 DEF lines
<1>7. CASE /\ bad = {} /\ R!Dispatch(lines) /\ buffer' = R!Rest(t)
           /\ conn' = conn /\ out' = out /\ refused' = refused
  <2>1. PICK j : j = Len(lines)
    OBVIOUS
  <2>2. SubSeq(lines, 1, j) = lines
    <3> HIDE DEF lines
    <3> QED  BY <1>4, <2>1
  <2>3. /\ handled' = handled \o SubSeq(lines, 1, j)
        /\ handlers' = handlers \union (Len(handled) + 1..Len(handled'))
    BY <1>7, <2>2 DEF R!Dispatch
  <2>4. j \in 0..Len(lines) /\ \A i \in 1..j : ~R!TooLong(lines[i])
    <3>1. j \in 0..Len(lines)
      <4> HIDE DEF lines
      <4> QED  BY <1>4, <2>1
    <3>2. ASSUME NEW i \in 1..Len(lines), R!TooLong(lines[i]) PROVE FALSE
      <4>1. i \in bad
        BY <3>2
      <4> QED  BY <1>7, <4>1
    <3> HIDE DEF lines, bad
    <3> QED  BY <2>1, <3>1, <3>2
  <2> HIDE DEF lines, bad
  <2> QED  BY <1>1, <1>7, <2>1, <2>3, <2>4 DEF lines
<1> QED  BY <1>2, <1>5, <1>6, <1>7

\* The line ends of what is left, when g lines have been handled.
LEMMA EndsMove ==
    ASSUME RpcTyped, RpcTyped', NEW e, Ends(e), NEW k \in 1..Len(bytes),
           NEW n, NEW m, NEW b, n = Len(handled), m = Len(request), b = Len(buffer),
           NEW g \in n..m, e[g] <= b + k, g < m => e[g + 1] > b + k,
           bytes' = SubSeq(bytes, k + 1, Len(bytes)), request' = request, Len(handled') = g,
           Len(buffer') = (b + k) - e[g],
           g < m => ReadsAs(buffer', 0, (b + k) - e[g], request[g + 1])
    PROVE  \E f : Ends(f)'
<1>1. /\ n \in Nat /\ m \in Nat /\ b \in Nat /\ n <= m /\ Len(bytes) \in Nat
      /\ e \in [n..m -> Nat] /\ e[n] = 0 /\ e[m] = b + Len(bytes)
      /\ \A c, d \in n..m : c < d => e[c] < e[d]
      /\ \A c \in n + 1..m : LineEnds(e, n, m, b, c)
  BY EndsSay
<1>2. PICK T, a : T = b + k /\ a = e[g]
  OBVIOUS
<1>3. /\ T \in Nat /\ a \in Nat /\ a <= T /\ k \in Nat /\ g \in Nat /\ n <= g /\ g <= m /\ k <= Len(bytes)
      /\ \A c \in g..m : c \in n..m /\ e[c] \in Nat /\ a <= e[c]
  <2>1. k \in Nat /\ g \in Nat /\ n <= g /\ g <= m /\ k <= Len(bytes)
    BY <1>1
  <2>2. \A c \in g..m : c \in n..m /\ e[c] \in Nat
    BY <1>1, <2>1
  <2>3. a \in Nat
    BY <1>2, <2>1, <2>2
  <2>4. ASSUME NEW c \in g..m PROVE a <= e[c]
    <3>1. c = g \/ g < c
      BY <2>1
    <3>2. e[c] \in Nat /\ (g < c => a < e[c])
      BY <1>1, <1>2, <2>1, <2>2
    <3>3. CASE c = g
      <4>1. e[c] = a
        BY <1>2, <3>3
      <4> QED  BY <2>3, <4>1
    <3>4. CASE g < c
      BY <2>3, <3>2, <3>4
    <3> QED  BY <3>1, <3>3, <3>4
  <2>5. T \in Nat /\ a <= T
    <3>1. b \in Nat
      BY <1>1
    <3> QED  BY <1>2, <2>1, <2>3, <3>1
  <2> QED  BY <2>1, <2>2, <2>3, <2>4, <2>5, Zenon
<1>4. PICK f : f = [c \in g..m |-> e[c] - a]
  OBVIOUS
<1>5. f \in [g..m -> Nat] /\ \A c \in g..m : f[c] = e[c] - a
  <2>1. \A c \in g..m : e[c] - a \in Nat
    <3> SUFFICES ASSUME NEW c \in g..m PROVE e[c] - a \in Nat
      OBVIOUS
    <3>1. e[c] \in Nat /\ a \in Nat /\ a <= e[c]
      BY <1>3
    <3> QED  BY <3>1
  <2> QED  BY <1>4, <2>1, Zenon
<1>6. PICK z : z = T - a
  OBVIOUS
<1>7. z \in Nat /\ Len(buffer') = z /\ (g < m => ReadsAs(buffer', 0, z, request[g + 1]))
  BY <1>2, <1>3, <1>6
<1>8. bytes \in Seq({"plain", "lead", "tail", R!NewLine})
  BY DEF RpcTyped
<1>9. /\ Len(bytes') = Len(bytes) - k
      /\ \A q \in 1..Len(bytes) - k : bytes'[q] = bytes[k + q]
  <2>1. k + 1 \in 1..Len(bytes) + 1 /\ Len(bytes) \in Nat
    BY <1>1, <1>3
  <2>2. Len(bytes') = IF k + 1 <= Len(bytes) THEN Len(bytes) - (k + 1) + 1 ELSE 0
    BY <1>1, <1>3, <1>8
  <2>3. Len(bytes') = Len(bytes) - k
    BY <1>1, <1>3, <2>2
  <2>4. ASSUME NEW q \in 1..Len(bytes) - k PROVE bytes'[q] = bytes[k + q]
    <3>1. q \in Nat /\ q >= 1 /\ k + q <= Len(bytes) /\ (k + 1) + q - 1 = k + q
      BY <1>1, <1>3
    <3>2. \A i \in 1..Len(bytes) - (k + 1) + 1 :
             SubSeq(bytes, k + 1, Len(bytes))[i] = bytes[(k + 1) + i - 1]
      BY <1>1, <1>3, <1>8, SubSeqProperties
    <3>3. q \in 1..Len(bytes) - (k + 1) + 1
      BY <1>1, <1>3
    <3> QED  BY <3>1, <3>2, <3>3
  <2> QED  BY <2>3, <2>4
<1>10. f[g] = 0 /\ f[m] = Len(buffer') + Len(bytes')
  <2>1. g \in g..m /\ m \in g..m
    BY <1>1, <1>3
  <2>2. f[g] = e[g] - a /\ f[m] = e[m] - a /\ e[g] \in Nat /\ e[m] \in Nat
    BY <1>3, <1>5, <2>1
  <2>3. f[g] = 0
    BY <1>2, <2>2
  <2>4. f[m] = (b + Len(bytes)) - a
    BY <1>1, <2>2
  <2>5. f[m] = z + (Len(bytes) - k)
    BY <1>1, <1>2, <1>3, <1>6, <2>4
  <2> QED  BY <1>7, <1>9, <2>3, <2>5
<1>11. \A c, d \in g..m : c < d => f[c] < f[d]
  <2> SUFFICES ASSUME NEW c \in g..m, NEW d \in g..m, c < d PROVE f[c] < f[d]
    OBVIOUS
  <2>1. e[c] < e[d] /\ e[c] \in Nat /\ e[d] \in Nat
    BY <1>1, <1>3
  <2>2. f[c] = e[c] - a /\ f[d] = e[d] - a
    BY <1>5
  <2> QED  BY <1>3, <2>1, <2>2
<1>12. ASSUME NEW c \in g + 1..m
       PROVE  /\ f[c] = f[c - 1] + Len(request'[c]) + 1
              /\ f[c] > Len(buffer')
              /\ bytes'[f[c] - Len(buffer')] = R!NewLine
              /\ \A i \in 1..Len(request'[c]) :
                   f[c - 1] + i > Len(buffer') => bytes'[f[c - 1] + i - Len(buffer')] = request'[c][i]
  <2>1. c \in n + 1..m /\ c \in g..m /\ c - 1 \in g..m /\ c - 1 \in n..m /\ g + 1 \in n..m /\ g + 1 \in g..m
    BY <1>1, <1>3
  <2>2. LineEnds(e, n, m, b, c)
    BY <1>1, <2>1
  <2>3. PICK x, y, r : x = e[c] /\ y = e[c - 1] /\ r = request[c]
    OBVIOUS
  <2>4. /\ r \in R!Requests /\ x = y + Len(r) + 1 /\ x > b
        /\ bytes[x - b] = R!NewLine
        /\ \A i \in 1..Len(r) : y + i > b => bytes[(y + i) - b] = r[i]
    <3>1. \A i \in 1..Len(r) : y + i > b => bytes[y + i - b] = r[i]
      BY <2>2, <2>3 DEF LineEnds
    <3>2. y \in Nat
      BY <1>3, <2>1, <2>3
    <3>3. \A i \in 1..Len(r) : y + i - b = (y + i) - b
      BY <1>1, <3>2
    <3> QED  BY <2>2, <2>3, <3>1, <3>3 DEF LineEnds
  <2>5. Len(r) \in Nat /\ x \in Nat /\ y \in Nat /\ a <= y
    <3>1. Len(r) \in Nat
      BY <2>4, RequestIs, Zenon
    <3>2. x \in Nat /\ y \in Nat /\ a <= y
      BY <1>3, <2>1, <2>3
    <3> QED  BY <3>1, <3>2
  <2>6. x > T /\ x <= b + Len(bytes)
    <3>1. g < m /\ e[g + 1] > b + k
      BY <1>1, <1>3
    <3>0. PICK u : u = e[g + 1]
      OBVIOUS
    <3>2. g + 1 = c \/ e[g + 1] < e[c]
      BY <1>1, <1>3, <2>1
    <3>3. c = m \/ e[c] < e[m]
      BY <1>1, <1>3, <2>1
    <3>4. e[g + 1] \in Nat /\ e[c] \in Nat /\ e[m] \in Nat
      BY <1>1, <1>3, <2>1
    <3>5. x > T
      <4>1. u \in Nat /\ u > T /\ (u = x \/ u < x)
        BY <1>2, <2>3, <3>0, <3>1, <3>2, <3>4
      <4> QED  BY <1>3, <2>5, <4>1
    <3>6. x <= e[m]
      BY <2>3, <2>5, <3>3, <3>4
    <3> QED  BY <1>1, <3>5, <3>6
  <2>7. f[c] = x - a /\ f[c - 1] = y - a
    BY <1>5, <2>1, <2>3
  <2>8. f[c] = f[c - 1] + Len(r) + 1 /\ f[c] > z
    BY <1>3, <1>6, <2>4, <2>5, <2>6, <2>7
  <2>9. bytes'[f[c] - z] = R!NewLine
    <3>1. PICK q : q = f[c] - z
      OBVIOUS
    <3>2. q = x - T
      BY <1>3, <1>6, <2>5, <2>7, <3>1
    <3>3. q \in 1..Len(bytes) - k /\ k + q = x - b
      BY <1>1, <1>2, <1>3, <2>5, <2>6, <3>2
    <3> QED  BY <1>9, <2>4, <3>1, <3>3
  <2>10. ASSUME NEW i \in 1..Len(r), f[c - 1] + i > z PROVE bytes'[(f[c - 1] + i) - z] = r[i]
    <3>1. PICK q : q = (f[c - 1] + i) - z
      OBVIOUS
    <3>2. i \in Nat /\ y + i < x
      BY <2>4, <2>5
    <3>3. q = (y + i) - T /\ y + i > T
      BY <1>3, <1>6, <2>5, <2>7, <2>10, <3>1, <3>2
    <3>4. q \in 1..Len(bytes) - k /\ k + q = (y + i) - b /\ y + i > b
      <4>1. PICK w : w = y + i
        OBVIOUS
      <4>2. w \in Nat /\ w < x /\ w > T /\ q = w - T
        BY <2>5, <3>2, <3>3, <4>1
      <4>3. PICK N : N = Len(bytes)
        OBVIOUS
      <4>4. /\ T = b + k /\ x <= b + N /\ b \in Nat /\ k \in Nat /\ N \in Nat
            /\ x \in Nat
        BY <1>1, <1>2, <1>3, <2>5, <2>6, <4>3
      <4>5. k + q = w - b /\ w > b
        BY <4>2, <4>4
      <4>6. q \in 1..N - k
        <5>1. w - T >= 1
          BY <4>2, <4>4
        <5>2. w - T <= N - k
          BY <4>2, <4>4
        <5> QED  BY <4>2, <4>4, <5>1, <5>2
      <4> QED  BY <4>1, <4>3, <4>5, <4>6
    <3>5. bytes[(y + i) - b] = r[i]
      BY <2>4, <3>4
    <3> QED  BY <1>9, <3>1, <3>4, <3>5
  <2>11. \A i \in 1..Len(r) : (f[c - 1] + i) - z = f[c - 1] + i - z
    BY <1>7, <2>5, <1>3, <2>7
  <2>12. request'[c] = r /\ Len(buffer') = z
    BY <1>7, <2>3
  <2> QED  BY <2>8, <2>9, <2>10, <2>11, <2>12
<1>13. g < m => ReadsAs(buffer', 0, Len(buffer'), request'[g + 1])
  BY <1>7
<1>14. Len(handled') = g /\ Len(request') = m
  OBVIOUS
<1>15. Ends(f)'
  <2>1. /\ f \in [Len(handled')..Len(request') -> Nat]
        /\ f[Len(handled')] = 0 /\ f[Len(request')] = Len(buffer') + Len(bytes')
        /\ \A c, d \in Len(handled')..Len(request') : c < d => f[c] < f[d]
    BY <1>5, <1>10, <1>11, <1>14
  <2>2. \A c \in Len(handled') + 1..Len(request') :
         /\ f[c] = f[c - 1] + Len(request'[c]) + 1
         /\ f[c] > Len(buffer')
         /\ bytes'[f[c] - Len(buffer')] = R!NewLine
         /\ \A i \in 1..Len(request'[c]) :
              f[c - 1] + i > Len(buffer') => bytes'[f[c - 1] + i - Len(buffer')] = request'[c][i]
    BY <1>12, <1>14
  <2>3. Len(handled') < Len(request') => ReadsAs(buffer', 0, Len(buffer'), request'[Len(handled') + 1])
    BY <1>13, <1>14
  <2>4. Len(handled') < Len(request') => ReadsAs(buffer, 0, Len(buffer), request[Len(handled) + 1])'
    BY <2>3 DEF ReadsAs
  <2> QED  BY <2>1, <2>2, <2>4 DEF Ends
<1> QED  BY <1>15

\* What does not touch the queues.
LEMMA QueuesStay ==
    ASSUME RpcIInv, out' = out, flushed' = flushed, heard' = heard, occurred' = occurred, conn' = conn
    PROVE  AnswersOnlyBeyond' /\ NothingSkipped'
<1>1. AnswersOnlyBeyond'
  <2>1. PICK s : Sums(out, s) /\ \A n \in 1..Len(out) : out[n].what = "event" => s[n] <= MaxNotifyBuffered + 1
    BY DEF RpcIInv, AnswersOnlyBeyond
  <2>2. Sums(out, s)'
    BY <2>1 DEF Sums
  <2> QED  BY <2>1, <2>2 DEF AnswersOnlyBeyond
<1>2. NothingSkipped'
  <2>1. PICK mid \in Nat : /\ Len(heard) <= mid /\ mid <= occurred
                           /\ NumbersIn(flushed) = Len(heard) + 1..mid
                           /\ conn = "open" => NumbersIn(out) = mid + 1..occurred
    BY DEF RpcIInv, NothingSkipped
  <2>2. Ascending(out)' /\ Ascending(flushed)'
    BY DEF RpcIInv, NothingSkipped, Ascending
  <2>3. NumbersIn(flushed)' = NumbersIn(flushed) /\ NumbersIn(out)' = NumbersIn(out)
    BY DEF NumbersIn
  <2>4. /\ Len(heard') <= mid /\ mid <= occurred'
        /\ NumbersIn(flushed)' = Len(heard') + 1..mid
        /\ conn' = "open" => NumbersIn(out)' = mid + 1..occurred'
    BY <2>1, <2>3
  <2> QED  BY <2>2, <2>4 DEF NothingSkipped
<1> QED  BY <1>1, <1>2

LEMMA DataIsSound ==
    ASSUME RpcIInv, NEW k \in 1..Len(bytes), R!Data(k)
    PROVE  RpcIInv'
<1>1. PICK t, n, m, b : t = TextAfter(k) /\ n = Len(handled) /\ m = Len(request) /\ b = Len(buffer)
  OBVIOUS
<1>2. RpcTyped /\ conn = "open" /\ ~refused
  BY DEF RpcIInv, R!Data, BytesInLine
<1>3. PICK e : Ends(e)
  BY <1>2 DEF RpcIInv, BytesInLine
<1>4. n \in Nat /\ m \in Nat /\ b \in Nat /\ n <= m /\ e[n] = 0
  BY <1>1, <1>2, <1>3, EndsSay
<1>5. PICK g \in n..m :
        /\ e[g] <= b + k
        /\ g < m => e[g + 1] > b + k
        /\ R!Breaks(t) = {} <=> g = n
        /\ R!Lines(t) \in Seq(Seq(Chars)) /\ Len(R!Lines(t)) = g - n
        /\ \A i \in 1..g - n : R!Lines(t)[i] \in R!Readings(request[n + i])
        /\ R!TooMuch(t) => n < m /\ R!MayBeTooLong(request[n + 1])
        /\ R!Rest(t) \in Seq(Chars) /\ Len(R!Rest(t)) = (b + k) - e[g]
        /\ g < m => ReadsAs(R!Rest(t), 0, (b + k) - e[g], request[g + 1])
  BY <1>1, <1>2, <1>3, TextSplits
<1>6. PICK lines : lines = R!Lines(t)
  OBVIOUS
<1>7. /\ conn = "open" /\ bytes' = SubSeq(bytes, k + 1, Len(bytes))
      /\ made' = made /\ request' = request /\ unanswered' = unanswered /\ ended' = ended
      /\ heard' = heard /\ sock' = sock /\ flushed' = flushed /\ occurred' = occurred
      /\ \E j \in 0..Len(lines) :
           /\ handled' = handled \o SubSeq(lines, 1, j)
           /\ handlers' \subseteq handlers \union (Len(handled) + 1..Len(handled'))
           /\ \A i \in 1..j : ~R!TooLong(lines[i])
           /\ buffer' \in Seq(Chars)
           /\ \/ /\ conn' = "destroyed" /\ out' = <<>> /\ refused' = TRUE
                 /\ \/ j = 0 /\ R!TooMuch(t)
                    \/ j + 1 \in 1..Len(lines) /\ R!TooLong(lines[j + 1])
              \/ /\ j = Len(lines) /\ buffer' = R!Rest(t)
                 /\ conn' = conn /\ out' = out /\ refused' = refused
  <2>1. R!Lines(t) \in Seq(Seq(Chars)) /\ R!Rest(t) \in Seq(Chars)
    BY <1>5
  <2> QED  BY <1>1, <1>6, <2>1, DataDoes
<1>8. PICK j \in 0..Len(lines) :
           /\ handled' = handled \o SubSeq(lines, 1, j)
           /\ handlers' \subseteq handlers \union (Len(handled) + 1..Len(handled'))
           /\ \A i \in 1..j : ~R!TooLong(lines[i])
           /\ buffer' \in Seq(Chars)
           /\ \/ /\ conn' = "destroyed" /\ out' = <<>> /\ refused' = TRUE
                 /\ \/ j = 0 /\ R!TooMuch(t)
                    \/ j + 1 \in 1..Len(lines) /\ R!TooLong(lines[j + 1])
              \/ /\ j = Len(lines) /\ buffer' = R!Rest(t)
                 /\ conn' = conn /\ out' = out /\ refused' = refused
  BY <1>7
<1>9. PICK ls : ls = SubSeq(lines, 1, j)
  OBVIOUS
<1>10. /\ lines \in Seq(Seq(Chars)) /\ Len(lines) = g - n /\ g \in Nat /\ n <= g /\ g <= m
       /\ j \in Nat /\ n + j <= g
  <2>1. lines \in Seq(Seq(Chars)) /\ Len(lines) = g - n
    BY <1>5, <1>6
  <2>2. g \in Nat /\ n <= g /\ g <= m
    BY <1>4
  <2> QED  BY <1>4, <2>1, <2>2
<1>11. ls \in Seq(Seq(Chars)) /\ Len(ls) = j /\ \A i \in 1..j : ls[i] = lines[i]
  BY <1>9, <1>10
<1>12. \A i \in 1..j : ls[i] \in R!Readings(request[n + i]) /\ ~R!TooLong(ls[i])
  <2> SUFFICES ASSUME NEW i \in 1..j
               PROVE  ls[i] \in R!Readings(request[n + i]) /\ ~R!TooLong(ls[i])
    OBVIOUS
  <2>1. i \in 1..g - n
    BY <1>4, <1>10
  <2>2. R!Lines(t)[i] \in R!Readings(request[n + i])
    BY <1>5, <2>1
  <2> QED  BY <1>6, <1>8, <1>11, <2>2
<1>13. /\ handled' \in Seq(Seq(Chars)) /\ Len(handled') = n + j
       /\ \A c \in 1..n + j : handled'[c] \in R!Readings(request[c]) /\ ~R!TooLong(handled'[c])
  <2>1. R!LinesAsSent /\ R!CapIsOnLines
    BY DEF RpcIInv
  <2>2. n + j <= Len(request)
    BY <1>1, <1>4, <1>10
  <2> QED  BY <1>1, <1>2, <1>8, <1>9, <1>10, <1>11, <1>12, <2>1, <2>2, MoreHandled
<1>14. refused' \in BOOLEAN /\ (refused' => n + j < m /\ R!MayBeTooLong(request[(n + j) + 1]))
  <2>1. ASSUME j = 0, R!TooMuch(t) PROVE n + j < m /\ R!MayBeTooLong(request[(n + j) + 1])
    <3>1. n + j = n
      BY <1>4, <2>1
    <3> QED  BY <1>5, <2>1, <3>1
  <2>2. ASSUME j + 1 \in 1..Len(lines), R!TooLong(lines[j + 1])
        PROVE  n + j < m /\ R!MayBeTooLong(request[(n + j) + 1])
    <3>1. j + 1 \in 1..g - n /\ n + j < m /\ n + (j + 1) = (n + j) + 1
      BY <1>4, <1>10, <2>2
    <3>2. lines[j + 1] \in R!Readings(request[n + (j + 1)])
      BY <1>5, <1>6, <3>1
    <3> QED  BY <2>2, <3>1, <3>2 DEF R!MayBeTooLong
  <2>3. refused \in BOOLEAN /\ ~refused
    BY <1>2 DEF RpcTyped
  <2>4. CASE refused' = TRUE /\ (\/ j = 0 /\ R!TooMuch(t)
                                 \/ j + 1 \in 1..Len(lines) /\ R!TooLong(lines[j + 1]))
    BY <2>1, <2>2, <2>4
  <2>5. CASE refused' = refused
    BY <2>3, <2>5
  <2> QED  BY <1>8, <2>4, <2>5, Zenon
<1>15. RpcTyped'
  <2>1. bytes' \in Seq({"plain", "lead", "tail", R!NewLine})
    <3>1. PICK W : W = {"plain", "lead", "tail", R!NewLine}
      OBVIOUS
    <3>2. bytes \in Seq(W) /\ Len(bytes) \in Nat
      BY <1>2, <3>1 DEF RpcTyped
    <3>3. \A q \in k + 1..Len(bytes) : bytes[q] \in W
      BY <3>2
    <3>4. SubSeq(bytes, k + 1, Len(bytes)) \in Seq(W)
      BY <3>2, <3>3, SubSeqProperties
    <3> QED  BY <1>7, <3>1, <3>4
  <2>2. handlers' \subseteq 1..Len(handled') /\ Len(handled') <= Len(request')
    <3>1. handlers \subseteq 1..n
      BY <1>1, <1>2 DEF RpcTyped
    <3>2. handlers' \subseteq handlers \union (n + 1..n + j)
      BY <1>1, <1>8, <1>13
    <3>3. \A c \in 1..n : c \in 1..n + j
      BY <1>4, <1>10
    <3>4. \A c \in n + 1..n + j : c \in 1..n + j
      BY <1>4, <1>10
    <3>5. n + j <= Len(request')
      BY <1>1, <1>4, <1>7, <1>10
    <3> QED  BY <1>13, <3>1, <3>2, <3>3, <3>4, <3>5
  <2>3. out' \in Seq(QueuedLines) /\ conn' \in {"open", "destroyed"}
    <3>1. out \in Seq(QueuedLines) /\ <<>> \in Seq(QueuedLines)
      BY <1>2 DEF RpcTyped
    <3> QED  BY <1>2, <1>8, <3>1
  <2>4. buffer' \in Seq(Chars)
    BY <1>8
  <2>5. /\ CallsTyped' /\ request' \in Seq(R!Requests) /\ Len(request') <= made'
        /\ heard' \in Seq(Nat)
        /\ sock' \in {"open", "destroyed", "closed"}
        /\ flushed' \in Seq(QueuedLines)
        /\ occurred' \in 0..MaxEvents
    BY <1>2, <1>7 DEF RpcTyped, CallsTyped
  <2> HIDE DEF Chars, QueuedLines
  <2> QED  BY <1>13, <1>14, <2>1, <2>2, <2>3, <2>4, <2>5 DEF RpcTyped
<1>16. R!LinesAsSent' /\ R!CapIsOnLines'
  <2>1. n + j <= Len(request')
    BY <1>1, <1>4, <1>7, <1>10
  <2>2. R!LinesAsSent'
    BY <1>7, <1>13, <2>1 DEF R!LinesAsSent
  <2>3. refused' => Len(handled') < Len(request') /\ R!MayBeTooLong(request'[Len(handled') + 1])
    BY <1>1, <1>7, <1>13, <1>14
  <2>4. \A c \in 1..Len(handled') : ~R!TooLong(handled'[c])
    BY <1>13
  <2>5. R!CapIsOnLines'
    BY <2>3, <2>4 DEF R!CapIsOnLines, R!MayBeTooLong, R!TooLong, R!Readings
  <2> QED  BY <2>2, <2>5
<1>17. R!OwnAnswer' /\ R!NoGap' /\ R!NoneLeftWaiting'
  BY <1>7 DEF RpcIInv, R!OwnAnswer, R!NoGap, R!NoneLeftWaiting
<1>18. CASE conn' = "destroyed" /\ out' = <<>>
  <2>1. occurred' \in Nat /\ occurred <= occurred'
    BY <1>2, <1>7, RpcConstants DEF RpcTyped
  <2>2. BytesInLine' /\ AnswersOnlyBeyond' /\ NothingSkipped'
    BY <1>7, <1>18, <2>1, DestroyedIsSound
  <2> QED  BY <1>15, <1>16, <1>17, <2>2 DEF RpcIInv
<1>19. CASE /\ j = Len(lines) /\ buffer' = R!Rest(t)
            /\ conn' = conn /\ out' = out /\ refused' = refused
  <2>1. AnswersOnlyBeyond' /\ NothingSkipped'
    BY <1>7, <1>19, QueuesStay
  <2>2. Len(handled') = g
    BY <1>4, <1>10, <1>13, <1>19
  <2>3. Len(buffer') = (b + k) - e[g] /\ (g < m => ReadsAs(buffer', 0, (b + k) - e[g], request[g + 1]))
    BY <1>5, <1>19
  <2>4. \E f : Ends(f)'
    BY <1>1, <1>2, <1>3, <1>5, <1>7, <1>15, <2>2, <2>3, EndsMove
  <2>5. BytesInLine'
    BY <1>2, <1>19, <2>4 DEF BytesInLine
  <2> QED  BY <1>15, <1>16, <1>17, <2>1, <2>5 DEF RpcIInv
<1> QED  BY <1>8, <1>18, <1>19

LEMMA RpcInitIsSound == R!RpcInit => RpcIInv
<1> SUFFICES ASSUME R!RpcInit PROVE RpcIInv
  OBVIOUS
<1>1. /\ made = 0 /\ request = <<>> /\ unanswered = {} /\ heard = <<>>
      /\ ended = [c \in R!Ids |-> R!Unsettled]
      /\ sock = "open" /\ conn = "open" /\ refused = FALSE
      /\ bytes = <<>> /\ buffer = <<>> /\ handled = <<>> /\ handlers = {}
      /\ out = <<>> /\ flushed = <<>> /\ occurred = 0
  BY DEF R!RpcInit
<1>2. RpcTyped
  <2>1. Len(<<>>) = 0 /\ 1..0 = {} /\ 0 \in 0..MaxCalls /\ 0 \in 0..MaxEvents
    BY RpcConstants
  <2>2. /\ <<>> \in Seq({"plain", "lead", "tail", R!NewLine}) /\ <<>> \in Seq(Chars)
        /\ <<>> \in Seq(Seq(Chars)) /\ <<>> \in Seq(QueuedLines) /\ <<>> \in Seq(Nat)
        /\ <<>> \in Seq(R!Requests)
    OBVIOUS
  <2>3. unanswered = {c \in 1..made : ended[c] = R!Unsettled}
    BY <1>1, <2>1
  <2>4. /\ ended \in [R!Ids -> {R!Unsettled, R!Outcome("timeout", 0), R!Outcome("closed", 0)}
                               \union {R!Outcome("answer", c) : c \in R!Ids}]
        /\ \A c \in R!Ids : ended[c] = R!Unsettled
    BY <1>1
  <2>5. handlers \subseteq 1..Len(handled)
    BY <1>1
  <2>6. made \in 0..MaxCalls /\ Len(request) <= made /\ Len(handled) <= Len(request) /\ occurred \in 0..MaxEvents
    BY <1>1, <2>1
  <2>7. /\ bytes \in Seq({"plain", "lead", "tail", R!NewLine}) /\ buffer \in Seq(Chars)
        /\ handled \in Seq(Seq(Chars)) /\ out \in Seq(QueuedLines) /\ flushed \in Seq(QueuedLines)
        /\ heard \in Seq(Nat) /\ request \in Seq(R!Requests)
    BY <1>1, <2>2, Zenon
  <2>8. /\ sock \in {"open", "destroyed", "closed"} /\ conn \in {"open", "destroyed"}
        /\ refused \in BOOLEAN
    BY <1>1
  <2>9. \A c \in R!Ids : c > made => ended[c] = R!Unsettled
    BY <2>4
  <2> QED  BY <2>3, <2>4, <2>5, <2>6, <2>7, <2>8, <2>9, Zenon DEF RpcTyped, CallsTyped
<1>3. BytesInLine
  <2>1. PICK e : e = [c \in {0} |-> 0]
    OBVIOUS
  <2>2. Len(<<>>) = 0 /\ 0..0 = {0} /\ 1..0 = {} /\ 0 + 1..0 = {}
    OBVIOUS
  <2>3. Ends(e)
    BY <1>1, <2>1, <2>2 DEF Ends
  <2> QED  BY <1>1, <2>3 DEF BytesInLine
<1>4. AnswersOnlyBeyond
  BY <1>1, EmptyQueue DEF AnswersOnlyBeyond
<1>5. NothingSkipped
  <2>1. 0 + 1..0 = {} /\ Len(<<>>) = 0
    OBVIOUS
  <2>2. /\ Ascending(out) /\ Ascending(flushed)
        /\ Len(heard) <= 0 /\ 0 <= occurred /\ NumbersIn(flushed) = Len(heard) + 1..0
        /\ NumbersIn(out) = 0 + 1..occurred
    BY <1>1, <2>1, EmptyQueue
  <2> QED  BY <2>2 DEF NothingSkipped
<1>6. /\ R!LinesAsSent /\ R!CapIsOnLines /\ R!NoGap
  BY <1>1 DEF R!LinesAsSent, R!CapIsOnLines, R!NoGap
<1>7. R!OwnAnswer /\ R!NoneLeftWaiting
  BY <1>1 DEF R!OwnAnswer, R!NoneLeftWaiting, R!Unsettled, R!Outcome
<1> QED  BY <1>2, <1>3, <1>4, <1>5, <1>6, <1>7 DEF RpcIInv

-------------------------------------------------------------------------------
(* The client.                                                              *)

\* What does not touch what is on its way to the server.
LEMMA LineStays ==
    ASSUME RpcIInv, bytes' = bytes, buffer' = buffer, handled' = handled, request' = request,
           conn' = conn, refused' = refused
    PROVE  BytesInLine' /\ R!LinesAsSent'
<1>1. BytesInLine'
  <2>1. ASSUME conn' = "open" PROVE ~refused' /\ \E e : Ends(e)'
    <3>1. PICK e : Ends(e)
      BY <2>1 DEF RpcIInv, BytesInLine
    <3>2. Ends(e)'
      BY <3>1 DEF Ends, ReadsAs
    <3> QED  BY <2>1, <3>2 DEF RpcIInv, BytesInLine
  <2> QED  BY <2>1 DEF BytesInLine
<1>2. R!LinesAsSent'
  BY DEF RpcIInv, R!LinesAsSent
<1> QED  BY <1>1, <1>2

\* A request more: where its line ends.
LEMMA EndsGrow ==
    ASSUME RpcTyped, NEW e, Ends(e), NEW r \in R!Requests,
           bytes' = bytes \o r \o <<R!NewLine>>, request' = Append(request, r),
           handled' = handled, buffer' = buffer
    PROVE  \E f : Ends(f)'
<1>1. PICK n, m, b, L, l : n = Len(handled) /\ m = Len(request) /\ b = Len(buffer) /\ L = Len(bytes) /\ l = Len(r)
  OBVIOUS
<1>2. /\ n \in Nat /\ m \in Nat /\ b \in Nat /\ n <= m /\ L \in Nat
      /\ e \in [n..m -> Nat] /\ e[n] = 0 /\ e[m] = b + L
      /\ \A c, d \in n..m : c < d => e[c] < e[d]
      /\ \A c \in n + 1..m : LineEnds(e, n, m, b, c)
  BY <1>1, EndsSay
<1>3. l \in Nat /\ l >= 1 /\ r \in Seq({"plain", "lead", "tail"})
  BY <1>1, RequestIs
<1>4. /\ Len(bytes') = L + l + 1
      /\ \A q \in 1..L : bytes'[q] = bytes[q]
      /\ \A i \in 1..l : bytes'[L + i] = r[i]
      /\ bytes'[L + l + 1] = R!NewLine
  <2>1. PICK W : W = {"plain", "lead", "tail", R!NewLine}
    OBVIOUS
  <2>2. bytes \in Seq(W) /\ r \in Seq(W) /\ <<R!NewLine>> \in Seq(W)
    <3>1. \A i \in 1..l : r[i] \in W
      BY <1>1, <1>3, <2>1
    <3>2. r \in Seq(W)
      <4> HIDE DEF R!NewLine
      <4> QED  BY <1>1, <1>3, <3>1, SeqDef
    <3> QED  BY <2>1, <3>2 DEF RpcTyped
  <2>3. PICK u, v : u = bytes \o r /\ v = <<R!NewLine>>
    OBVIOUS
  <2>4. /\ u \in Seq(W) /\ Len(u) = L + l
        /\ \A q \in 1..L + l : u[q] = IF q <= L THEN bytes[q] ELSE r[q - L]
    BY <1>1, <2>2, <2>3, ConcatProperties
  <2>5. v \in Seq(W) /\ Len(v) = 1 /\ v[1] = R!NewLine
    BY <2>2, <2>3
  <2>6. /\ Len(u \o v) = L + l + 1
        /\ \A q \in 1..L + l + 1 : (u \o v)[q] = IF q <= L + l THEN u[q] ELSE v[q - (L + l)]
    <3>1. PICK N : N = L + l
      OBVIOUS
    <3>2. /\ Len(u \o v) = N + 1
          /\ \A q \in 1..N + 1 : (u \o v)[q] = IF q <= N THEN u[q] ELSE v[q - N]
      <4>1. u \in Seq(W) /\ v \in Seq(W) /\ Len(u) = N /\ Len(v) = 1
        BY <2>4, <2>5, <3>1
      <4>2. /\ Len(u \o v) = Len(u) + Len(v)
            /\ \A q \in 1..Len(u) + Len(v) :
                 (u \o v)[q] = IF q <= Len(u) THEN u[q] ELSE v[q - Len(u)]
        BY <4>1, ConcatProperties
      <4> QED  BY <4>1, <4>2
    <3> QED  BY <3>1, <3>2
  <2>7. bytes' = u \o v
    BY <2>3
  <2>8. ASSUME NEW q \in 1..L PROVE bytes'[q] = bytes[q]
    <3>1. q \in 1..L + l + 1 /\ q \in 1..L + l /\ q <= L /\ q <= L + l
      BY <1>2, <1>3
    <3> QED  BY <2>4, <2>6, <2>7, <3>1
  <2>9. ASSUME NEW i \in 1..l PROVE bytes'[L + i] = r[i]
    <3>1. PICK q : q = L + i
      OBVIOUS
    <3>2. q \in 1..L + l + 1 /\ q \in 1..L + l /\ ~(q <= L) /\ q <= L + l /\ q - L = i
      BY <1>2, <1>3, <3>1
    <3> QED  BY <2>4, <2>6, <2>7, <3>1, <3>2
  <2>10. bytes'[L + l + 1] = R!NewLine
    <3>1. PICK q : q = L + l + 1
      OBVIOUS
    <3>2. q \in 1..L + l + 1 /\ ~(q <= L + l) /\ q - (L + l) = 1
      BY <1>2, <1>3, <3>1
    <3> QED  BY <2>5, <2>6, <2>7, <3>1, <3>2
  <2> QED  BY <2>6, <2>7, <2>8, <2>9, <2>10
<1>5. /\ Len(request') = m + 1 /\ request'[m + 1] = r /\ \A c \in 1..m : request'[c] = request[c]
  <2>1. request \in Seq(R!Requests)
    BY DEF RpcTyped
  <2> HIDE DEF R!Requests
  <2> QED  BY <1>1, <2>1, AppendProperties
<1>6. PICK f : f = [c \in n..m + 1 |-> IF c <= m THEN e[c] ELSE b + L + l + 1]
  OBVIOUS
<1>7. /\ f \in [n..m + 1 -> Nat]
      /\ \A c \in n..m : f[c] = e[c] /\ e[c] \in Nat /\ e[c] <= b + L /\ c \in n..m + 1
      /\ f[m + 1] = b + L + l + 1
  <2>1. ASSUME NEW c \in n..m PROVE f[c] = e[c] /\ e[c] \in Nat /\ e[c] <= b + L /\ c \in n..m + 1
    <3>1. c \in n..m + 1 /\ c <= m /\ (c = m \/ c < m) /\ m \in n..m
      BY <1>2
    <3>2. e[c] \in Nat /\ e[m] \in Nat /\ (c < m => e[c] < e[m])
      BY <1>2, <3>1
    <3>3. e[c] <= e[m]
      BY <3>1, <3>2
    <3> QED  BY <1>2, <1>6, <3>1, <3>2, <3>3
  <2>2. m + 1 \in n..m + 1 /\ ~(m + 1 <= m) /\ b + L + l + 1 \in Nat
    BY <1>2, <1>3
  <2>3. f[m + 1] = b + L + l + 1
    BY <1>6, <2>2
  <2>4. \A c \in n..m + 1 : f[c] \in Nat
    <3> SUFFICES ASSUME NEW c \in n..m + 1 PROVE f[c] \in Nat
      OBVIOUS
    <3>1. c \in n..m \/ c = m + 1
      BY <1>2
    <3> QED  BY <2>1, <2>2, <2>3, <3>1
  <2> QED  BY <1>6, <2>1, <2>3, <2>4
<1>8. f[n] = 0 /\ f[m + 1] = Len(buffer') + Len(bytes')
  <2>1. n \in n..m
    BY <1>2
  <2>2. f[n] = 0
    BY <1>2, <1>7, <2>1
  <2> QED  BY <1>1, <1>2, <1>3, <1>4, <1>7, <2>2
<1>9. \A c, d \in n..m + 1 : c < d => f[c] < f[d]
  <2> SUFFICES ASSUME NEW c \in n..m + 1, NEW d \in n..m + 1, c < d PROVE f[c] < f[d]
    OBVIOUS
  <2>1. c \in n..m /\ (d \in n..m \/ d = m + 1)
    BY <1>2
  <2>2. CASE d \in n..m
    BY <1>2, <1>7, <2>1, <2>2
  <2>3. CASE d = m + 1
    <3>1. f[c] \in Nat /\ f[c] <= b + L
      BY <1>7, <2>1
    <3> QED  BY <1>2, <1>3, <1>7, <2>3, <3>1
  <2> QED  BY <2>1, <2>2, <2>3
<1>10. ASSUME NEW c \in n + 1..m + 1
       PROVE  /\ f[c] = f[c - 1] + Len(request'[c]) + 1
              /\ f[c] > b
              /\ bytes'[f[c] - b] = R!NewLine
              /\ \A i \in 1..Len(request'[c]) :
                   f[c - 1] + i > b => bytes'[f[c - 1] + i - b] = request'[c][i]
  <2>1. CASE c = m + 1
    <3>1. c - 1 = m /\ m \in n..m /\ request'[c] = r
      BY <1>2, <1>5, <2>1
    <3>2. f[c] = b + L + l + 1 /\ f[c - 1] = b + L
      BY <1>2, <1>7, <2>1, <3>1
    <3>3. f[c] - b = L + l + 1
      BY <1>2, <1>3, <3>2
    <3>4. \A i \in 1..l : f[c - 1] + i - b = L + i
      BY <1>2, <1>3, <3>2
    <3>5. f[c] = f[c - 1] + l + 1 /\ f[c] > b
      BY <1>2, <1>3, <3>2
    <3> QED  BY <1>1, <1>4, <3>1, <3>3, <3>4, <3>5
  <2>2. CASE c \in n + 1..m
    <3>1. c \in n..m /\ c - 1 \in n..m /\ c \in 1..m
      BY <1>2, <2>2
    <3>2. LineEnds(e, n, m, b, c)
      BY <1>2, <2>2
    <3>3. PICK x, y, q : x = e[c] /\ y = e[c - 1] /\ q = request[c]
      OBVIOUS
    <3>4. f[c] = x /\ f[c - 1] = y /\ request'[c] = q /\ x \in Nat /\ y \in Nat /\ x <= b + L
      BY <1>5, <1>7, <3>1, <3>3
    <3>5. /\ x = y + Len(q) + 1 /\ x > b /\ q \in R!Requests
          /\ bytes[x - b] = R!NewLine
          /\ \A i \in 1..Len(q) : y + i > b => bytes[y + i - b] = q[i]
      BY <3>2, <3>3 DEF LineEnds
    <3>6. Len(q) \in Nat
      BY <3>5, RequestIs
    <3>7. x - b \in 1..L
      <4>1. \A j, k, o \in Nat : j > k /\ j <= k + o => j - k \in 1..o
        OBVIOUS
      <4> QED  BY <1>2, <3>4, <3>5, <4>1, Zenon
    <3>8. ASSUME NEW i \in 1..Len(q), y + i > b PROVE bytes'[y + i - b] = q[i]
      <4>1. y + i - b \in 1..L
        BY <1>2, <3>4, <3>5, <3>6, <3>8
      <4> QED  BY <1>4, <3>5, <3>8, <4>1
    <3> QED  BY <1>4, <3>4, <3>5, <3>7, <3>8
  <2>3. c = m + 1 \/ c \in n + 1..m
    BY <1>2
  <2> QED  BY <2>1, <2>2, <2>3, Zenon
<1>11. n < m + 1 => ReadsAs(buffer', 0, b, request'[n + 1])
  <2>1. CASE n < m
    <3>1. ReadsAs(buffer, 0, b, request[n + 1]) /\ n + 1 \in 1..m
      BY <1>1, <1>2, <2>1 DEF Ends
    <3> QED  BY <1>5, <3>1
  <2>2. CASE n = m
    <3>1. b = 0 /\ request'[n + 1] = r
      BY <1>2, <1>5, <2>2
    <3>2. 1..0 = {}
      OBVIOUS
    <3> QED  BY <3>1, <3>2 DEF ReadsAs
  <2>3. n < m \/ n = m
    BY <1>2
  <2> QED  BY <2>1, <2>2, <2>3, Zenon
<1>12. Len(handled') = n /\ Len(request') = m + 1 /\ Len(buffer') = b
  BY <1>1, <1>5
<1>13. Ends(f)'
  <2>1. /\ f \in [Len(handled')..Len(request') -> Nat]
        /\ f[Len(handled')] = 0 /\ f[Len(request')] = Len(buffer') + Len(bytes')
        /\ \A c, d \in Len(handled')..Len(request') : c < d => f[c] < f[d]
    BY <1>7, <1>8, <1>9, <1>12
  <2>2. \A c \in Len(handled') + 1..Len(request') :
         /\ f[c] = f[c - 1] + Len(request'[c]) + 1
         /\ f[c] > Len(buffer')
         /\ bytes'[f[c] - Len(buffer')] = R!NewLine
         /\ \A i \in 1..Len(request'[c]) :
              f[c - 1] + i > Len(buffer') => bytes'[f[c - 1] + i - Len(buffer')] = request'[c][i]
    <3>1. PICK h, d, w : h = Len(handled') /\ d = Len(request') /\ w = Len(buffer')
      OBVIOUS
    <3>2. h = n /\ d = m + 1 /\ w = b
      BY <1>12, <3>1
    <3>3. \A c \in h + 1..d :
            /\ f[c] = f[c - 1] + Len(request'[c]) + 1
            /\ f[c] > w
            /\ bytes'[f[c] - w] = R!NewLine
            /\ \A i \in 1..Len(request'[c]) :
                 f[c - 1] + i > w => bytes'[f[c - 1] + i - w] = request'[c][i]
      BY <1>10, <3>2
    <3> QED  BY <3>1, <3>3
  <2>3. Len(handled') < Len(request') => ReadsAs(buffer, 0, Len(buffer), request[Len(handled) + 1])'
    BY <1>11, <1>12 DEF ReadsAs
  <2> QED  BY <2>1, <2>2, <2>3 DEF Ends
<1> QED  BY <1>13

-------------------------------------------------------------------------------
(* The queues.                                                              *)

\* Of numbered events in their order, the first is taken.
LEMMA FirstTaken ==
    ASSUME NEW q \in Seq(QueuedLines), q # <<>>, Ascending(q), NEW a \in Nat, NEW z \in Nat,
           NumbersIn(q) = a + 1..z
    PROVE  /\ Ascending(Tail(q)) /\ Tail(q) \in Seq(QueuedLines) /\ Head(q) \in QueuedLines
           /\ Head(q).what = "event" =>
                Head(q).of = a + 1 /\ a + 1 <= z /\ NumbersIn(Tail(q)) = a + 2..z
           /\ Head(q).what # "event" => NumbersIn(Tail(q)) = a + 1..z
<1>1. /\ Len(q) \in Nat /\ Len(q) >= 1 /\ Head(q) = q[1]
      /\ \A i \in 1..Len(q) : q[i] \in QueuedLines
      /\ Tail(q) \in Seq(QueuedLines) /\ Len(Tail(q)) = Len(q) - 1
      /\ \A i \in 1..Len(q) - 1 : Tail(q)[i] = q[i + 1]
  <2> HIDE DEF QueuedLines
  <2> QED  BY HeadTailProperties
<1>2. \A i \in 1..Len(q) : q[i].of \in Nat
  BY <1>1 DEF QueuedLines
<1>3. Ascending(Tail(q))
  <2> SUFFICES ASSUME NEW i \in 1..Len(q) - 1, NEW j \in 1..Len(q) - 1, i < j,
                      Tail(q)[i].what = "event", Tail(q)[j].what = "event"
               PROVE  Tail(q)[i].of < Tail(q)[j].of
    BY <1>1 DEF Ascending
  <2>1. i + 1 \in 1..Len(q) /\ j + 1 \in 1..Len(q) /\ i + 1 < j + 1
    BY <1>1
  <2>2. Tail(q)[i] = q[i + 1] /\ Tail(q)[j] = q[j + 1]
    BY <1>1
  <2> QED  BY <2>1, <2>2 DEF Ascending
<1>4. \A p : p \in NumbersIn(q) <=> \E i \in 1..Len(q) : q[i].what = "event" /\ p = q[i].of
  BY DEF NumbersIn
<1>5. \A p : p \in NumbersIn(Tail(q)) <=>
               \E i \in 1..Len(q) : i # 1 /\ q[i].what = "event" /\ p = q[i].of
  <2> SUFFICES ASSUME NEW p
               PROVE  p \in NumbersIn(Tail(q)) <=>
                        \E i \in 1..Len(q) : i # 1 /\ q[i].what = "event" /\ p = q[i].of
    OBVIOUS
  <2>1. p \in NumbersIn(Tail(q)) <=>
          \E j \in 1..Len(q) - 1 : Tail(q)[j].what = "event" /\ p = Tail(q)[j].of
    BY <1>1 DEF NumbersIn
  <2>2. ASSUME NEW j \in 1..Len(q) - 1 PROVE j + 1 \in 1..Len(q) /\ j + 1 # 1 /\ Tail(q)[j] = q[j + 1]
    BY <1>1
  <2>3. ASSUME NEW i \in 1..Len(q), i # 1 PROVE i - 1 \in 1..Len(q) - 1 /\ (i - 1) + 1 = i
    BY <1>1, <2>3
  <2>4. ASSUME NEW i \in 1..Len(q), i # 1 PROVE i - 1 \in 1..Len(q) - 1 /\ Tail(q)[i - 1] = q[i]
    <3>1. PICK j : j = i - 1
      OBVIOUS
    <3>2. j \in 1..Len(q) - 1 /\ j + 1 = i
      BY <2>3, <2>4, <3>1
    <3>3. Tail(q)[j] = q[j + 1]
      BY <1>1, <3>2
    <3> QED  BY <3>1, <3>2, <3>3
  <2>5. ASSUME p \in NumbersIn(Tail(q))
        PROVE  \E i \in 1..Len(q) : i # 1 /\ q[i].what = "event" /\ p = q[i].of
    <3>1. PICK j \in 1..Len(q) - 1 : Tail(q)[j].what = "event" /\ p = Tail(q)[j].of
      BY <2>1, <2>5
    <3>2. j + 1 \in 1..Len(q) /\ j + 1 # 1 /\ Tail(q)[j] = q[j + 1]
      BY <2>2
    <3> QED  BY <3>1, <3>2
  <2>6. ASSUME NEW i \in 1..Len(q), i # 1, q[i].what = "event", p = q[i].of
        PROVE  p \in NumbersIn(Tail(q))
    BY <2>1, <2>4, <2>6
  <2> QED  BY <2>5, <2>6
<1>6. ASSUME Head(q).what = "event"
      PROVE  Head(q).of = a + 1 /\ a + 1 <= z /\ NumbersIn(Tail(q)) = a + 2..z
  <2>1. PICK h : h = q[1].of
    OBVIOUS
  <2>2. 1 \in 1..Len(q) /\ q[1].what = "event" /\ h \in Nat
    BY <1>1, <1>2, <1>6, <2>1
  <2>3. h \in a + 1..z
    BY <1>4, <2>1, <2>2
  <2>4. \A i \in 1..Len(q) : i # 1 /\ q[i].what = "event" => h < q[i].of
    <3> SUFFICES ASSUME NEW i \in 1..Len(q), i # 1, q[i].what = "event" PROVE h < q[i].of
      OBVIOUS
    <3>1. 1 < i
      BY <1>1
    <3> QED  BY <2>1, <2>2, <3>1 DEF Ascending
  <2>5. h = a + 1 /\ a + 1 <= z
    <3>1. a + 1 \in a + 1..z
      BY <2>3
    <3>2. PICK i \in 1..Len(q) : q[i].what = "event" /\ a + 1 = q[i].of
      BY <1>4, <3>1
    <3>3. i # 1 => h < a + 1
      BY <2>4, <3>2
    <3>4. ~(h < a + 1)
      BY <2>3
    <3>5. h = a + 1
      BY <2>1, <3>2, <3>3, <3>4, Zenon
    <3> QED  BY <2>3, <3>5
  <2>6. \A p : p \in NumbersIn(Tail(q)) <=> p \in a + 2..z
    <3> SUFFICES ASSUME NEW p PROVE p \in NumbersIn(Tail(q)) <=> p \in a + 2..z
      OBVIOUS
    <3>1. p \in NumbersIn(Tail(q)) => p \in a + 1..z /\ p # a + 1
      <4>1. ASSUME p \in NumbersIn(Tail(q)) PROVE p \in NumbersIn(q) /\ h < p
        BY <1>4, <1>5, <2>4, <4>1
      <4> QED  BY <2>5, <4>1
    <3>2. p \in a + 1..z /\ p # a + 1 => p \in NumbersIn(Tail(q))
      <4> SUFFICES ASSUME p \in a + 1..z, p # a + 1 PROVE p \in NumbersIn(Tail(q))
        OBVIOUS
      <4>1. PICK i \in 1..Len(q) : q[i].what = "event" /\ p = q[i].of
        BY <1>4
      <4>2. i # 1
        BY <2>1, <2>5, <4>1
      <4> QED  BY <1>5, <4>1, <4>2
    <3>3. p \in a + 2..z <=> p \in a + 1..z /\ p # a + 1
      OBVIOUS
    <3> QED  BY <3>1, <3>2, <3>3
  <2>7. NumbersIn(Tail(q)) = a + 2..z
    BY <2>6, Zenon
  <2> QED  BY <1>1, <2>1, <2>5, <2>7
<1>7. ASSUME Head(q).what # "event" PROVE NumbersIn(Tail(q)) = a + 1..z
  <2>1. q[1].what # "event"
    BY <1>1, <1>7
  <2>2. \A p : p \in NumbersIn(Tail(q)) <=> p \in NumbersIn(q)
    BY <1>4, <1>5, <2>1
  <2>3. NumbersIn(Tail(q)) = NumbersIn(q)
    BY <2>2, Zenon
  <2> QED  BY <2>3
<1> QED  BY <1>1, <1>3, <1>6, <1>7

\* And one is added, the next or an answer.
LEMMA LastAdded ==
    ASSUME NEW q \in Seq(QueuedLines), Ascending(q), NEW a \in Nat, NEW z \in Nat, a <= z,
           NumbersIn(q) = a + 1..z, NEW line \in QueuedLines, line.what = "event" => line.of = z + 1
    PROVE  /\ Ascending(Append(q, line)) /\ Append(q, line) \in Seq(QueuedLines)
           /\ line.what = "event" => NumbersIn(Append(q, line)) = a + 1..z + 1
           /\ line.what # "event" => NumbersIn(Append(q, line)) = a + 1..z
<1>1. PICK r, l : r = Append(q, line) /\ l = Len(q)
  OBVIOUS
<1>2. /\ l \in Nat /\ Len(r) = l + 1 /\ r \in Seq(QueuedLines)
      /\ \A i \in 1..l : r[i] = q[i] /\ i \in 1..l + 1
      /\ r[l + 1] = line /\ l + 1 \in 1..l + 1
      /\ \A i \in 1..l + 1 : i \in 1..l \/ i = l + 1
  <2>1. l \in Nat
    BY <1>1
  <2> HIDE DEF QueuedLines
  <2>2. Len(r) = l + 1 /\ r \in Seq(QueuedLines) /\ r[l + 1] = line /\ \A i \in 1..l : r[i] = q[i]
    BY <1>1, AppendProperties
  <2> QED  BY <2>1, <2>2
<1>3. \A i \in 1..l : q[i].what = "event" => q[i].of \in a + 1..z
  BY <1>1 DEF NumbersIn
<1>4. Ascending(r)
  <2> SUFFICES ASSUME NEW i \in 1..l + 1, NEW j \in 1..l + 1, i < j,
                      r[i].what = "event", r[j].what = "event"
               PROVE  r[i].of < r[j].of
    BY <1>2 DEF Ascending
  <2>1. i \in 1..l
    BY <1>2
  <2>2. CASE j \in 1..l
    BY <1>1, <1>2, <2>1, <2>2 DEF Ascending
  <2>3. CASE j = l + 1
    <3>1. r[j].of = z + 1
      BY <1>2, <2>3
    <3>2. r[i].of \in a + 1..z
      BY <1>2, <1>3, <2>1
    <3> QED  BY <3>1, <3>2
  <2> QED  BY <1>2, <2>2, <2>3
<1>5. \A p : p \in NumbersIn(r) <=> p \in NumbersIn(q) \/ (line.what = "event" /\ p = line.of)
  <2> SUFFICES ASSUME NEW p
               PROVE  p \in NumbersIn(r) <=> p \in NumbersIn(q) \/ (line.what = "event" /\ p = line.of)
    OBVIOUS
  <2>1. p \in NumbersIn(r) <=> \E i \in 1..l + 1 : r[i].what = "event" /\ p = r[i].of
    BY <1>2 DEF NumbersIn
  <2>2. p \in NumbersIn(q) <=> \E i \in 1..l : q[i].what = "event" /\ p = q[i].of
    BY <1>1 DEF NumbersIn
  <2> QED  BY <1>2, <2>1, <2>2
<1>6. ASSUME line.what = "event" PROVE NumbersIn(r) = a + 1..z + 1
  <2>1. \A p : p \in a + 1..z + 1 <=> p \in a + 1..z \/ p = z + 1
    OBVIOUS
  <2>2. \A p : p \in NumbersIn(r) <=> p \in a + 1..z + 1
    BY <1>5, <1>6, <2>1, Zenon
  <2> QED  BY <2>2, Zenon
<1>7. ASSUME line.what # "event" PROVE NumbersIn(r) = a + 1..z
  <2>1. \A p : p \in NumbersIn(r) <=> p \in NumbersIn(q)
    BY <1>5, <1>7
  <2> QED  BY <2>1, Zenon
<1> QED  BY <1>1, <1>2, <1>4, <1>6, <1>7

\* The sums of what is left, and with one line more.
LEMMA SumsLess ==
    ASSUME NEW q \in Seq(QueuedLines), q # <<>>, NEW s, Sums(q, s), NEW k \in Int,
           \A n \in 1..Len(q) : q[n].what = "event" => s[n] <= k
    PROVE  \E t : Sums(Tail(q), t) /\ \A n \in 1..Len(Tail(q)) : Tail(q)[n].what = "event" => t[n] <= k
<1>1. PICK l, r : l = Len(q) /\ r = Tail(q)
  OBVIOUS
<1>2. /\ l \in Nat /\ l >= 1 /\ Len(r) = l - 1 /\ q[1].size \in Nat
      /\ \A i \in 1..l - 1 : r[i] = q[i + 1]
  <2>1. /\ l \in Nat /\ l >= 1 /\ Len(r) = l - 1 /\ q[1] \in QueuedLines
        /\ \A i \in 1..l - 1 : r[i] = q[i + 1]
    <3> HIDE DEF QueuedLines
    <3> QED  BY <1>1, HeadTailProperties
  <2> QED  BY <2>1 DEF QueuedLines
<1>3. /\ s \in [0..l -> Int] /\ s[0] = 0
      /\ \A n \in 1..l : s[n] = s[n - 1] + q[n].size
  BY <1>1 DEF Sums
<1>4. s[1] \in Nat /\ \A n \in 0..l : s[n] \in Int
  <2>1. 1 \in 1..l /\ 1 - 1 = 0
    BY <1>2
  <2>2. s[1] = s[0] + q[1].size
    BY <1>3, <2>1
  <2> QED  BY <1>2, <1>3, <2>2
<1>5. PICK t : t = [n \in 0..l - 1 |-> s[n + 1] - s[1]]
  OBVIOUS
<1>6. \A n \in 0..l - 1 : t[n] = s[n + 1] - s[1] /\ n + 1 \in 1..l /\ n + 1 \in 0..l
  BY <1>2, <1>5
<1>7. t \in [0..l - 1 -> Int]
  <2>1. \A n \in 0..l - 1 : s[n + 1] - s[1] \in Int
    BY <1>4, <1>6
  <2> QED  BY <1>5, <2>1
<1>8. t[0] = 0
  <2>1. 0 \in 0..l - 1 /\ 0 + 1 = 1
    BY <1>2
  <2>2. t[0] = s[1] - s[1]
    BY <1>6, <2>1
  <2> QED  BY <1>4, <2>2
<1>9. ASSUME NEW n \in 1..l - 1 PROVE t[n] = t[n - 1] + r[n].size /\ t[n] <= s[n + 1]
  <2>1. n \in 0..l - 1 /\ n - 1 \in 0..l - 1 /\ (n - 1) + 1 = n /\ (n + 1) - 1 = n /\ n \in 0..l
        /\ n + 1 \in 1..l /\ n + 1 \in 0..l
    BY <1>2
  <2>2. t[n] = s[n + 1] - s[1] /\ t[n - 1] = s[n] - s[1] /\ s[n + 1] = s[n] + q[n + 1].size
    BY <1>3, <1>6, <2>1
  <2>3. r[n] = q[n + 1] /\ s[n] \in Int /\ s[n + 1] \in Int
    BY <1>2, <1>4, <2>1
  <2>4. q[n + 1].size \in Nat
    <3>1. q[n + 1] \in QueuedLines
      <4> HIDE DEF QueuedLines
      <4> QED  BY <1>1, <2>1
    <3> QED  BY <3>1 DEF QueuedLines
  <2> QED  BY <1>4, <2>2, <2>3, <2>4
<1>10. Sums(r, t)
  BY <1>2, <1>7, <1>8, <1>9 DEF Sums
<1>11. ASSUME NEW n \in 1..Len(r), r[n].what = "event" PROVE t[n] <= k
  <2>1. n \in 1..l - 1 /\ n + 1 \in 1..l /\ n + 1 \in 0..l /\ n \in 0..l - 1
    BY <1>2
  <2>2. r[n] = q[n + 1]
    BY <1>2, <2>1
  <2>3. s[n + 1] <= k
    BY <1>1, <1>11, <2>1, <2>2
  <2>4. t[n] <= s[n + 1] /\ t[n] \in Int /\ s[n + 1] \in Int
    BY <1>4, <1>7, <1>9, <2>1
  <2> QED  BY <2>3, <2>4
<1> QED  BY <1>1, <1>10, <1>11

LEMMA SumsMore ==
    ASSUME NEW q \in Seq(QueuedLines), NEW s, Sums(q, s), NEW k \in Int,
           \A n \in 1..Len(q) : q[n].what = "event" => s[n] <= k,
           NEW line \in QueuedLines, line.what = "event" => s[Len(q)] + line.size <= k
    PROVE  \E t : /\ Sums(Append(q, line), t)
                  /\ \A n \in 1..Len(Append(q, line)) : Append(q, line)[n].what = "event" => t[n] <= k
<1>1. PICK l, r : l = Len(q) /\ r = Append(q, line)
  OBVIOUS
<1>2. /\ l \in Nat /\ Len(r) = l + 1
      /\ \A i \in 1..l : r[i] = q[i]
      /\ r[l + 1] = line /\ line.size \in Nat
  <2>1. l \in Nat /\ line.size \in Nat
    BY <1>1 DEF QueuedLines
  <2> HIDE DEF QueuedLines
  <2>2. Len(r) = l + 1 /\ r[l + 1] = line /\ \A i \in 1..l : r[i] = q[i]
    BY <1>1, AppendProperties
  <2> QED  BY <2>1, <2>2
<1>3. /\ s \in [0..l -> Int] /\ s[0] = 0
      /\ \A n \in 1..l : s[n] = s[n - 1] + q[n].size
  BY <1>1 DEF Sums
<1>4. PICK t : t = [n \in 0..l + 1 |-> IF n <= l THEN s[n] ELSE s[l] + line.size]
  OBVIOUS
<1>5. /\ \A n \in 0..l : t[n] = s[n] /\ s[n] \in Int
      /\ t[l + 1] = s[l] + line.size
      /\ t \in [0..l + 1 -> Int]
  <2>1. ASSUME NEW n \in 0..l PROVE t[n] = s[n] /\ s[n] \in Int
    <3>1. n \in 0..l + 1 /\ n <= l
      BY <1>2
    <3> QED  BY <1>3, <1>4, <3>1
  <2>2. t[l + 1] = s[l] + line.size
    <3>1. l + 1 \in 0..l + 1 /\ ~(l + 1 <= l)
      BY <1>2
    <3> QED  BY <1>4, <3>1
  <2>3. s[l] + line.size \in Int
    <3>1. l \in 0..l
      BY <1>2
    <3> QED  BY <1>2, <2>1, <3>1
  <2>4. \A n \in 0..l + 1 : t[n] \in Int
    <3> SUFFICES ASSUME NEW n \in 0..l + 1 PROVE t[n] \in Int
      OBVIOUS
    <3>1. n \in 0..l \/ n = l + 1
      BY <1>2
    <3> QED  BY <2>1, <2>2, <2>3, <3>1
  <2> QED  BY <1>4, <2>1, <2>2, <2>4
<1>6. Sums(r, t)
  <2>1. t[0] = 0
    <3>1. 0 \in 0..l
      BY <1>2
    <3> QED  BY <1>3, <1>5, <3>1
  <2>2. ASSUME NEW n \in 1..l + 1 PROVE t[n] = t[n - 1] + r[n].size
    <3>1. n - 1 \in 0..l /\ ((n \in 1..l /\ n \in 0..l) \/ (n = l + 1 /\ n - 1 = l))
      BY <1>2
    <3>2. CASE n \in 1..l /\ n \in 0..l
      BY <1>2, <1>3, <1>5, <3>1, <3>2
    <3>3. CASE n = l + 1 /\ n - 1 = l
      BY <1>2, <1>5, <3>1, <3>3
    <3> QED  BY <3>1, <3>2, <3>3
  <2> QED  BY <1>2, <1>5, <2>1, <2>2 DEF Sums
<1>7. ASSUME NEW n \in 1..Len(r), r[n].what = "event" PROVE t[n] <= k
  <2>1. (n \in 1..l /\ n \in 0..l) \/ n = l + 1
    BY <1>2
  <2>2. CASE n \in 1..l /\ n \in 0..l
    BY <1>1, <1>2, <1>5, <1>7, <2>2
  <2>3. CASE n = l + 1
    BY <1>1, <1>2, <1>5, <1>7, <2>3
  <2> QED  BY <2>1, <2>2, <2>3
<1> QED  BY <1>1, <1>6, <1>7

\* What has been queued, in all.
LEMMA BytesAre ==
    ASSUME NEW q \in Seq(QueuedLines), NEW s, Sums(q, s)
    PROVE  R!Bytes(q) = s[Len(q)] /\ \A n \in 1..Len(q) : R!Bytes(SubSeq(q, 1, n)) = s[n]
<1>1. Len(q) \in Nat /\ s \in [0..Len(q) -> Int] /\ s[0] = 0
      /\ \A n \in 1..Len(q) : s[n] = s[n - 1] + q[n].size
  BY DEF Sums
<1>2. \A i \in 1..Len(q) : q[i].size \in Int
  <2>1. \A i \in 1..Len(q) : q[i] \in QueuedLines
    <3> HIDE DEF QueuedLines
    <3> QED  BY <1>1
  <2> QED  BY <2>1 DEF QueuedLines
<1>3. ASSUME NEW n \in 0..Len(q), NEW p, Len(p) = n, \A i \in 1..n : p[i] = q[i]
      PROVE  R!Bytes(p) = s[n]
  <2>1. PICK z : z = [i \in 1..Len(p) |-> p[i].size]
    OBVIOUS
  <2>2. PICK f : f = [i \in 0..n |-> s[i]]
    OBVIOUS
  <2>3. \A i \in 1..n : i \in 1..Len(q) /\ i \in 0..n /\ i - 1 \in 0..n
    BY <1>1, <1>3
  <2>4. \A i \in 1..n : z[i] = q[i].size /\ z[i] \in Int
    BY <1>2, <1>3, <2>1, <2>3
  <2>5. z \in Seq(Int) /\ Len(z) = n
    BY <1>1, <1>3, <2>1, <2>4
  <2>6. \A i \in 0..n : f[i] = s[i] /\ s[i] \in Int
    BY <1>1, <2>2
  <2>7. f \in [0..n -> Int] /\ f[0] = 0 /\ f[n] = s[n]
    <3>1. 0 \in 0..n /\ n \in 0..n
      BY <1>1
    <3> QED  BY <1>1, <2>2, <2>6, <3>1
  <2>8. \A i \in 1..n : f[i] = f[i - 1] + z[i]
    BY <1>1, <2>3, <2>4, <2>6
  <2>9. R!Total(z) = f[Len(z)]
    BY <2>5, <2>7, <2>8, TotalIs
  <2>10. R!Bytes(p) = R!Total(z)
    BY <2>1 DEF R!Bytes
  <2> QED  BY <2>5, <2>7, <2>9, <2>10
<1>4. R!Bytes(q) = s[Len(q)]
  <2>1. Len(q) \in 0..Len(q)
    BY <1>1
  <2> QED  BY <1>3, <2>1
<1>5. ASSUME NEW n \in 1..Len(q) PROVE R!Bytes(SubSeq(q, 1, n)) = s[n]
  <2>1. Len(SubSeq(q, 1, n)) = n /\ (\A i \in 1..n : SubSeq(q, 1, n)[i] = q[i]) /\ n \in 0..Len(q)
    <3> HIDE DEF QueuedLines
    <3> QED  BY <1>1
  <2> QED  BY <1>3, <2>1
<1> QED  BY <1>4, <1>5

-------------------------------------------------------------------------------
(* The steps of the client.                                                 *)

LEMMA CallIsSound ==
    ASSUME RpcIInv, R!Call
    PROVE  RpcIInv'
<1>1. /\ made < MaxCalls /\ made' = made + 1 /\ unanswered' = unanswered \union {made + 1}
      /\ ended' = ended /\ heard' = heard /\ sock' = sock /\ flushed' = flushed
      /\ buffer' = buffer /\ handled' = handled /\ handlers' = handlers /\ conn' = conn
      /\ refused' = refused /\ out' = out /\ occurred' = occurred
      /\ \/ /\ sock = "open"
            /\ \E r \in R!Requests : /\ request' = Append(request, r)
                                     /\ bytes' = bytes \o r \o <<R!NewLine>>
         \/ sock # "open" /\ request' = request /\ bytes' = bytes
  BY DEF R!Call, R!serverVars
<1>2. RpcTyped /\ CallsTyped /\ made \in Nat /\ request \in Seq(R!Requests) /\ Len(request) <= made
      /\ Len(request) \in Nat /\ Len(handled) \in Nat /\ Len(handled) <= Len(request)
  BY RpcConstants DEF RpcIInv, RpcTyped, CallsTyped
<1>3. CallsTyped'
  <2>1. made + 1 \in R!Ids /\ made + 1 > made /\ made + 1 \in 0..MaxCalls
    BY <1>1, <1>2, RpcConstants DEF R!Ids
  <2>2. ended[made + 1] = R!Unsettled
    BY <1>2, <2>1 DEF CallsTyped
  <2>3. \A c : c \in 1..made + 1 <=> c \in 1..made \/ c = made + 1
    BY <1>2
  <2>4. \A c : c \in unanswered' <=> c \in 1..made + 1 /\ ended[c] = R!Unsettled
    <3>1. unanswered = {c \in 1..made : ended[c] = R!Unsettled}
      BY <1>2 DEF CallsTyped
    <3> QED  BY <1>1, <2>2, <2>3, <3>1, Zenon
  <2>5. unanswered' = {c \in 1..made' : ended'[c] = R!Unsettled}
    BY <1>1, <2>4, Zenon
  <2>6. \A c \in R!Ids : c > made + 1 => ended[c] = R!Unsettled
    <3> SUFFICES ASSUME NEW c \in R!Ids, c > made + 1 PROVE ended[c] = R!Unsettled
      OBVIOUS
    <3>1. c > made
      BY <1>2 DEF R!Ids
    <3> QED  BY <1>2, <3>1 DEF CallsTyped
  <2>7. ended \in [R!Ids -> {R!Unsettled, R!Outcome("timeout", 0), R!Outcome("closed", 0)}
                            \union {R!Outcome("answer", c) : c \in R!Ids}]
    BY <1>2 DEF CallsTyped
  <2> QED  BY <1>1, <2>1, <2>5, <2>6, <2>7, Zenon DEF CallsTyped
<1>4. AnswersOnlyBeyond' /\ NothingSkipped'
  BY <1>1, QueuesStay
<1>5. R!OwnAnswer' /\ R!NoGap'
  BY <1>1 DEF RpcIInv, R!OwnAnswer, R!NoGap
<1>6. /\ heard' \in Seq(Nat) /\ sock' \in {"open", "destroyed", "closed"}
      /\ conn' \in {"open", "destroyed"}
      /\ buffer' \in Seq(Chars) /\ handled' \in Seq(Seq(Chars)) /\ handlers' \subseteq 1..Len(handled')
      /\ refused' \in BOOLEAN /\ out' \in Seq(QueuedLines) /\ flushed' \in Seq(QueuedLines)
      /\ occurred' \in 0..MaxEvents
  BY <1>1, <1>2 DEF RpcTyped
<1>7. ASSUME NEW r \in R!Requests, request' = Append(request, r), bytes' = bytes \o r \o <<R!NewLine>>,
             sock = "open"
      PROVE  RpcIInv'
  <2>1. /\ request' \in Seq(R!Requests) /\ Len(request') = Len(request) + 1
        /\ \A c \in 1..Len(request) : request'[c] = request[c]
    <3> HIDE DEF R!Requests
    <3> QED  BY <1>2, <1>7, AppendProperties
  <2>2. bytes' \in Seq({"plain", "lead", "tail", R!NewLine})
    <3>1. PICK W : W = {"plain", "lead", "tail", R!NewLine}
      OBVIOUS
    <3>2. r \in Seq({"plain", "lead", "tail"})
      BY RequestIs
    <3>3. bytes \in Seq(W) /\ <<R!NewLine>> \in Seq(W) /\ r \in Seq(W)
      <4>1. bytes \in Seq(W)
        BY <1>2, <3>1 DEF RpcTyped
      <4>2. \A i \in 1..Len(r) : r[i] \in W
        BY <3>1, <3>2
      <4>3. r \in Seq(W)
        <5> HIDE DEF R!NewLine
        <5> QED  BY <3>2, <4>2, SeqDef
      <4> QED  BY <3>1, <4>1, <4>3
    <3>4. (bytes \o r) \in Seq(W)
      BY <3>3, ConcatProperties
    <3>5. (bytes \o r) \o <<R!NewLine>> \in Seq(W)
      BY <3>3, <3>4, ConcatProperties
    <3> QED  BY <1>7, <3>1, <3>5
  <2>3. RpcTyped'
    <3>1. Len(request') <= made' /\ Len(handled') <= Len(request')
      BY <1>1, <1>2, <2>1
    <3> QED  BY <1>3, <1>6, <2>1, <2>2, <3>1, Zenon DEF RpcTyped
  <2>4. BytesInLine'
    <3>1. ASSUME conn' = "open" PROVE ~refused' /\ \E f : Ends(f)'
      <4>1. PICK e : Ends(e)
        BY <1>1, <3>1 DEF RpcIInv, BytesInLine
      <4>2. ~refused'
        BY <1>1, <3>1 DEF RpcIInv, BytesInLine
      <4> QED  BY <1>1, <1>2, <1>7, <4>1, <4>2, EndsGrow
    <3> QED  BY <3>1 DEF BytesInLine
  <2>5. \A c \in 1..Len(request) : c \in 1..Len(request')
    BY <1>2, <2>1
  <2>6. \A c \in 1..Len(handled) : c \in 1..Len(request)
    BY <1>2
  <2>7. R!LinesAsSent'
    <3>1. ASSUME NEW c \in 1..Len(handled) PROVE handled[c] \in R!Readings(request'[c])
      BY <2>1, <2>6 DEF RpcIInv, R!LinesAsSent
    <3> QED  BY <1>1, <1>2, <2>1, <3>1 DEF R!LinesAsSent
  <2>8. R!CapIsOnLines'
    <3>1. refused => Len(handled) < Len(request) /\ R!MayBeTooLong(request[Len(handled) + 1])
      BY DEF RpcIInv, R!CapIsOnLines
    <3>2. refused' => Len(handled') < Len(request') /\ R!MayBeTooLong(request'[Len(handled') + 1])
      <4> SUFFICES ASSUME refused
                   PROVE  Len(handled) < Len(request') /\ R!MayBeTooLong(request'[Len(handled) + 1])
        BY <1>1, Zenon
      <4>1. Len(handled) + 1 \in 1..Len(request) /\ Len(handled) < Len(request')
        BY <1>2, <2>1, <3>1
      <4> QED  BY <2>1, <3>1, <4>1, Zenon
    <3>3. \A c \in 1..Len(handled) : ~R!TooLong(handled[c])
      BY DEF RpcIInv, R!CapIsOnLines
    <3>4. \A c \in 1..Len(handled') : ~R!TooLong(handled'[c])
      BY <1>1, <3>3
    <3> QED  BY <3>2, <3>4 DEF R!CapIsOnLines, R!MayBeTooLong, R!TooLong, R!Readings
  <2>9. R!NoneLeftWaiting'
    BY <1>1, <1>7 DEF R!NoneLeftWaiting
  <2> QED  BY <1>4, <1>5, <2>3, <2>4, <2>7, <2>8, <2>9 DEF RpcIInv
<1>8. ASSUME request' = request, bytes' = bytes PROVE RpcIInv'
  <2>1. RpcTyped'
    <3>1. /\ request' \in Seq(R!Requests) /\ Len(request') <= made' /\ Len(handled') <= Len(request')
          /\ bytes' \in Seq({"plain", "lead", "tail", R!NewLine})
      BY <1>1, <1>2, <1>8 DEF RpcTyped
    <3> QED  BY <1>3, <1>6, <3>1, Zenon DEF RpcTyped
  <2>2. BytesInLine' /\ R!LinesAsSent'
    BY <1>1, <1>8, LineStays
  <2>3. R!CapIsOnLines'
    BY <1>1, <1>8 DEF RpcIInv, R!CapIsOnLines
  <2>4. R!NoneLeftWaiting'
    <3>1. made + 1 \notin 1..Len(request)
      BY <1>2
    <3> QED  BY <1>1, <1>8, <3>1 DEF RpcIInv, R!NoneLeftWaiting
  <2> QED  BY <1>4, <1>5, <2>1, <2>2, <2>3, <2>4 DEF RpcIInv
<1> QED  BY <1>1, <1>7, <1>8

\* A call is given its own answer, or it has timed out.
LEMMA Settling ==
    ASSUME CallsTyped, R!OwnAnswer, R!NoneLeftWaiting, NEW c \in unanswered,
           NEW o \in {R!Outcome("timeout", 0), R!Outcome("answer", c)},
           ended' = [ended EXCEPT ![c] = o], unanswered' = unanswered \ {c},
           made' = made, sock' = sock, request' = request
    PROVE  CallsTyped' /\ R!OwnAnswer' /\ R!NoneLeftWaiting'
<1>1. /\ c \in R!Ids /\ c \in 1..made /\ made \in Nat /\ \A d \in 1..made : d \in R!Ids
  BY RpcConstants DEF CallsTyped, R!Ids
<1>2. o # R!Unsettled /\ (o.how = "answer" => o.of = c)
  BY DEF R!Outcome, R!Unsettled
<1>3. PICK O : O = {R!Unsettled, R!Outcome("timeout", 0), R!Outcome("closed", 0)}
                   \union {R!Outcome("answer", d) : d \in R!Ids}
  OBVIOUS
<1>4. o \in O /\ ended \in [R!Ids -> O]
  BY <1>1, <1>3 DEF CallsTyped
<1>5. /\ ended' \in [R!Ids -> O] /\ ended'[c] = o
      /\ \A d \in R!Ids : d # c => ended'[d] = ended[d]
  BY <1>1, <1>4
<1>6. \A d : d \in unanswered' <=> d \in 1..made /\ ended'[d] = R!Unsettled
  <2>1. \A d : d \in unanswered <=> d \in 1..made /\ ended[d] = R!Unsettled
    BY DEF CallsTyped
  <2> QED  BY <1>1, <1>2, <1>5, <2>1, Zenon
<1>7. unanswered' = {d \in 1..made' : ended'[d] = R!Unsettled}
  BY <1>6, Zenon
<1>8. \A d \in R!Ids : d > made' => ended'[d] = R!Unsettled
  <2> SUFFICES ASSUME NEW d \in R!Ids, d > made PROVE ended'[d] = R!Unsettled
    OBVIOUS
  <2>1. d # c
    BY <1>1 DEF R!Ids
  <2> QED  BY <1>5, <2>1 DEF CallsTyped
<1>9. CallsTyped'
  BY <1>3, <1>5, <1>7, <1>8, Zenon DEF CallsTyped
<1>10. R!OwnAnswer'
  BY <1>2, <1>5, Zenon DEF R!OwnAnswer
<1>11. R!NoneLeftWaiting'
  BY DEF R!NoneLeftWaiting
<1> QED  BY <1>9, <1>10, <1>11

LEMMA CallTimesOutIsSound ==
    ASSUME RpcIInv, NEW c, R!CallTimesOut(c)
    PROVE  RpcIInv'
<1>1. /\ c \in unanswered /\ ended' = [ended EXCEPT ![c] = R!Outcome("timeout", 0)]
      /\ unanswered' = unanswered \ {c}
      /\ made' = made /\ request' = request /\ heard' = heard /\ sock' = sock /\ bytes' = bytes
      /\ flushed' = flushed
      /\ buffer' = buffer /\ handled' = handled /\ handlers' = handlers /\ conn' = conn
      /\ refused' = refused /\ out' = out /\ occurred' = occurred
  BY DEF R!CallTimesOut, R!Settle, R!serverVars
<1>2. CallsTyped' /\ R!OwnAnswer' /\ R!NoneLeftWaiting'
  BY <1>1, Settling DEF RpcIInv, RpcTyped
<1>3. RpcTyped'
  BY <1>1, <1>2 DEF RpcIInv, RpcTyped
<1>4. AnswersOnlyBeyond' /\ NothingSkipped' /\ BytesInLine' /\ R!LinesAsSent'
  BY <1>1, QueuesStay, LineStays
<1>5. R!CapIsOnLines' /\ R!NoGap'
  BY <1>1 DEF RpcIInv, R!CapIsOnLines, R!NoGap
<1> QED  BY <1>2, <1>3, <1>4, <1>5 DEF RpcIInv

LEMMA CloseIsSound ==
    ASSUME RpcIInv, R!Close
    PROVE  RpcIInv'
<1>1. /\ sock' = "destroyed" /\ ended' = ended /\ unanswered' = unanswered
      /\ made' = made /\ request' = request /\ heard' = heard /\ bytes' = bytes
      /\ flushed' = flushed
      /\ buffer' = buffer /\ handled' = handled /\ handlers' = handlers /\ conn' = conn
      /\ refused' = refused /\ out' = out /\ occurred' = occurred
  BY DEF R!Close, R!serverVars
<1>2. RpcTyped'
  BY <1>1 DEF RpcIInv, RpcTyped, CallsTyped
<1>3. AnswersOnlyBeyond' /\ NothingSkipped' /\ BytesInLine' /\ R!LinesAsSent'
  BY <1>1, QueuesStay, LineStays
<1>4. R!CapIsOnLines' /\ R!NoGap' /\ R!OwnAnswer' /\ R!NoneLeftWaiting'
  BY <1>1 DEF RpcIInv, R!CapIsOnLines, R!NoGap, R!OwnAnswer, R!NoneLeftWaiting
<1> QED  BY <1>2, <1>3, <1>4 DEF RpcIInv

LEMMA ClosedIsSound ==
    ASSUME RpcIInv, R!Closed
    PROVE  RpcIInv'
<1>1. /\ sock' = "closed" /\ unanswered' = {}
      /\ ended' = [c \in R!Ids |-> IF c \in unanswered THEN R!Outcome("closed", 0) ELSE ended[c]]
      /\ made' = made /\ request' = request /\ heard' = heard /\ bytes' = bytes
      /\ flushed' = flushed
      /\ buffer' = buffer /\ handled' = handled /\ handlers' = handlers /\ conn' = conn
      /\ refused' = refused /\ out' = out /\ occurred' = occurred
  BY DEF R!Closed, R!serverVars
<1>2. CallsTyped
  BY DEF RpcIInv, RpcTyped
<1>3. PICK O : O = {R!Unsettled, R!Outcome("timeout", 0), R!Outcome("closed", 0)}
                   \union {R!Outcome("answer", d) : d \in R!Ids}
  OBVIOUS
<1>4. ended \in [R!Ids -> O] /\ R!Outcome("closed", 0) \in O
  BY <1>2, <1>3 DEF CallsTyped
<1>5. /\ ended' \in [R!Ids -> O]
      /\ \A c \in R!Ids : ended'[c] = IF c \in unanswered THEN R!Outcome("closed", 0) ELSE ended[c]
  BY <1>1, <1>4
<1>6. R!Outcome("closed", 0) # R!Unsettled /\ R!Outcome("closed", 0).how # "answer"
  BY DEF R!Outcome, R!Unsettled
<1>7. \A c \in 1..made : c \in R!Ids
  BY <1>2, RpcConstants DEF CallsTyped, R!Ids
<1>8. \A c : c \in unanswered <=> c \in 1..made /\ ended[c] = R!Unsettled
  BY <1>2 DEF CallsTyped
<1>9. unanswered' = {c \in 1..made' : ended'[c] = R!Unsettled}
  BY <1>1, <1>5, <1>6, <1>7, <1>8, Zenon
<1>10. \A c \in R!Ids : c > made' => ended'[c] = R!Unsettled
  <2> SUFFICES ASSUME NEW c \in R!Ids, c > made PROVE ended'[c] = R!Unsettled
    BY <1>1
  <2>1. c \notin 1..made
    BY <1>2 DEF CallsTyped, R!Ids
  <2> QED  BY <1>2, <1>5, <1>8, <2>1 DEF CallsTyped
<1>11. CallsTyped'
  BY <1>1, <1>2, <1>3, <1>5, <1>9, <1>10, Zenon DEF CallsTyped
<1>12. RpcTyped'
  BY <1>1, <1>11 DEF RpcIInv, RpcTyped
<1>13. AnswersOnlyBeyond' /\ NothingSkipped' /\ BytesInLine' /\ R!LinesAsSent'
  BY <1>1, QueuesStay, LineStays
<1>14. R!OwnAnswer'
  BY <1>5, <1>6, Zenon DEF RpcIInv, R!OwnAnswer
<1>15. R!CapIsOnLines' /\ R!NoGap' /\ R!NoneLeftWaiting'
  BY <1>1 DEF RpcIInv, R!CapIsOnLines, R!NoGap, R!NoneLeftWaiting
<1> QED  BY <1>12, <1>13, <1>14, <1>15 DEF RpcIInv

LEMMA HearIsSound ==
    ASSUME RpcIInv, R!Hear
    PROVE  RpcIInv'
<1>1. /\ sock = "open" /\ flushed # <<>> /\ flushed' = Tail(flushed)
      /\ made' = made /\ request' = request /\ sock' = sock /\ bytes' = bytes
      /\ buffer' = buffer /\ handled' = handled /\ handlers' = handlers /\ conn' = conn
      /\ refused' = refused /\ out' = out /\ occurred' = occurred
  BY DEF R!Hear, R!serverVars
<1>2. PICK line : line = Head(flushed)
  OBVIOUS
<1>3. \/ /\ line.what = "event" /\ heard' = Append(heard, line.of)
         /\ ended' = ended /\ unanswered' = unanswered
      \/ /\ line.what # "event" /\ heard' = heard
         /\ \E c \in unanswered : /\ c = line.of
                                  /\ ended' = [ended EXCEPT ![c] = R!Outcome("answer", c)]
                                  /\ unanswered' = unanswered \ {c}
      \/ /\ line.what # "event" /\ heard' = heard
         /\ ended' = ended /\ unanswered' = unanswered
  <2>1. CASE line.what = "event"
    BY <1>2, <2>1 DEF R!Hear
  <2>2. CASE line.what = "answer" /\ R!Given(line) # {}
    <3>1. (\E c \in R!Given(line) : R!Settle(c, R!Outcome("answer", line.of))) /\ heard' = heard
      BY <1>2, <2>2 DEF R!Hear
    <3>2. PICK c \in R!Given(line) : R!Settle(c, R!Outcome("answer", line.of))
      BY <3>1
    <3>3. c \in unanswered /\ c = line.of
      BY <3>2 DEF R!Given
    <3>4. ended' = [ended EXCEPT ![c] = R!Outcome("answer", c)] /\ unanswered' = unanswered \ {c}
      BY <3>2, <3>3 DEF R!Settle
    <3>5. line.what # "event"
      BY <2>2
    <3> QED  BY <3>1, <3>3, <3>4, <3>5
  <2>3. CASE line.what # "event" /\ ~(line.what = "answer" /\ R!Given(line) # {})
    BY <1>2, <2>3 DEF R!Hear
  <2> QED  BY <2>1, <2>2, <2>3
<1>4. RpcTyped /\ flushed \in Seq(QueuedLines) /\ heard \in Seq(Nat) /\ Len(heard) \in Nat /\ occurred \in Nat
  BY RpcConstants DEF RpcIInv, RpcTyped
<1>5. PICK mid \in Nat : /\ Len(heard) <= mid /\ mid <= occurred
                         /\ NumbersIn(flushed) = Len(heard) + 1..mid
                         /\ conn = "open" => NumbersIn(out) = mid + 1..occurred
  BY DEF RpcIInv, NothingSkipped
<1>6. PICK a : a = Len(heard)
  OBVIOUS
<1>7. /\ Ascending(flushed') /\ flushed' \in Seq(QueuedLines) /\ line \in QueuedLines
      /\ line.what = "event" => line.of = a + 1 /\ a + 1 <= mid /\ NumbersIn(flushed') = a + 2..mid
      /\ line.what # "event" => NumbersIn(flushed') = a + 1..mid
  <2>1. Ascending(flushed) /\ a \in Nat /\ NumbersIn(flushed) = a + 1..mid
    BY <1>4, <1>5, <1>6 DEF RpcIInv, NothingSkipped
  <2> HIDE DEF QueuedLines
  <2> QED  BY <1>1, <1>2, <1>4, <2>1, FirstTaken
<1>8. /\ heard' \in Seq(Nat) /\ R!NoGap'
      /\ Len(heard') <= mid /\ NumbersIn(flushed') = Len(heard') + 1..mid
  <2>1. CASE line.what = "event" /\ heard' = Append(heard, line.of)
    <3>1. line.of = a + 1 /\ a + 1 <= mid /\ NumbersIn(flushed') = a + 2..mid
      BY <1>7, <2>1
    <3>2. a \in Nat /\ a + 1 \in Nat
      BY <1>4, <1>6
    <3>3. PICK h : h = Append(heard, a + 1)
      OBVIOUS
    <3>4. /\ h \in Seq(Nat) /\ Len(h) = a + 1 /\ h[a + 1] = a + 1
          /\ \A n \in 1..a : h[n] = heard[n]
      BY <1>4, <1>6, <3>2, <3>3, AppendProperties
    <3>5. \A n \in 1..a + 1 : h[n] = n
      <4>1. \A n \in 1..a : heard[n] = n
        BY <1>6 DEF RpcIInv, R!NoGap
      <4>2. \A n \in 1..a + 1 : n \in 1..a \/ n = a + 1
        BY <3>2
      <4> QED  BY <3>4, <4>1, <4>2
    <3>6. heard' = h
      BY <2>1, <3>1, <3>3
    <3>7. R!NoGap'
      BY <3>4, <3>5, <3>6 DEF R!NoGap
    <3>8. a + 2 = (a + 1) + 1
      BY <3>2
    <3>9. Len(heard') = a + 1
      BY <3>4, <3>6
    <3> QED  BY <3>1, <3>4, <3>6, <3>7, <3>8, <3>9
  <2>2. CASE line.what # "event" /\ heard' = heard
    <3>1. R!NoGap'
      BY <2>2 DEF RpcIInv, R!NoGap
    <3> QED  BY <1>4, <1>5, <1>6, <1>7, <2>2, <3>1
  <2> QED  BY <1>3, <2>1, <2>2
<1>9. NothingSkipped'
  <2>1. Ascending(out)' /\ NumbersIn(out)' = NumbersIn(out)
    BY <1>1 DEF RpcIInv, NothingSkipped, Ascending, NumbersIn
  <2>2. Ascending(flushed)' /\ NumbersIn(flushed)' = Len(heard') + 1..mid
    BY <1>7, <1>8 DEF Ascending, NumbersIn
  <2>3. /\ Len(heard') <= mid /\ mid <= occurred'
        /\ conn' = "open" => NumbersIn(out)' = mid + 1..occurred'
    BY <1>1, <1>5, <1>8, <2>1
  <2> QED  BY <2>1, <2>2, <2>3 DEF NothingSkipped
<1>10. CallsTyped' /\ R!OwnAnswer' /\ R!NoneLeftWaiting'
  <2>1. CallsTyped /\ R!OwnAnswer /\ R!NoneLeftWaiting
    BY <1>4 DEF RpcIInv, RpcTyped
  <2>2. CASE ended' = ended /\ unanswered' = unanswered
    BY <1>1, <2>1, <2>2 DEF CallsTyped, R!OwnAnswer, R!NoneLeftWaiting
  <2>3. ASSUME NEW c \in unanswered, ended' = [ended EXCEPT ![c] = R!Outcome("answer", c)],
               unanswered' = unanswered \ {c}
        PROVE  CallsTyped' /\ R!OwnAnswer' /\ R!NoneLeftWaiting'
    BY <1>1, <2>1, <2>3, Settling
  <2> QED  BY <1>3, <2>2, <2>3
<1>11. RpcTyped'
  BY <1>1, <1>4, <1>7, <1>8, <1>10 DEF RpcTyped
<1>12. BytesInLine' /\ R!LinesAsSent'
  BY <1>1, LineStays
<1>13. AnswersOnlyBeyond' /\ R!CapIsOnLines'
  <2>1. R!CapIsOnLines'
    BY <1>1 DEF RpcIInv, R!CapIsOnLines
  <2>2. PICK s : Sums(out, s) /\ \A n \in 1..Len(out) : out[n].what = "event" => s[n] <= MaxNotifyBuffered + 1
    BY DEF RpcIInv, AnswersOnlyBeyond
  <2>3. Sums(out, s)'
    BY <1>1, <2>2 DEF Sums
  <2> QED  BY <1>1, <2>1, <2>2, <2>3 DEF AnswersOnlyBeyond
<1> QED  BY <1>8, <1>9, <1>10, <1>11, <1>12, <1>13 DEF RpcIInv

-------------------------------------------------------------------------------
(* The steps of the server.                                                 *)

\* What is unchanged when the server answers, tells or flushes something.
ServerStays ==
    /\ made' = made /\ request' = request /\ unanswered' = unanswered /\ ended' = ended
    /\ heard' = heard /\ sock' = sock /\ bytes' = bytes
    /\ buffer' = buffer /\ handled' = handled /\ refused' = refused

LEMMA ServerKeeps ==
    ASSUME RpcIInv, ServerStays, handlers' \subseteq handlers, conn' \in {conn, "destroyed"},
           out' \in Seq(QueuedLines), flushed' \in Seq(QueuedLines), occurred' \in 0..MaxEvents
    PROVE  /\ RpcTyped' /\ BytesInLine' /\ R!LinesAsSent' /\ R!CapIsOnLines'
           /\ R!OwnAnswer' /\ R!NoGap' /\ R!NoneLeftWaiting'
<1>1. RpcTyped'
  <2>1. handlers' \subseteq 1..Len(handled')
    BY DEF RpcIInv, RpcTyped, ServerStays
  <2>2. CallsTyped'
    BY DEF RpcIInv, RpcTyped, CallsTyped, ServerStays
  <2> QED  BY <2>1, <2>2 DEF RpcIInv, RpcTyped, ServerStays
<1>2. BytesInLine'
  <2>1. ASSUME conn' = "open" PROVE ~refused' /\ \E e : Ends(e)'
    <3>1. PICK e : Ends(e)
      BY <2>1 DEF RpcIInv, BytesInLine
    <3>2. Ends(e)'
      BY <3>1 DEF Ends, ReadsAs, ServerStays
    <3> QED  BY <2>1, <3>2 DEF RpcIInv, BytesInLine, ServerStays
  <2> QED  BY <2>1 DEF BytesInLine
<1>3. R!LinesAsSent' /\ R!CapIsOnLines'
  BY DEF RpcIInv, R!LinesAsSent, R!CapIsOnLines, ServerStays
<1>4. R!OwnAnswer' /\ R!NoGap' /\ R!NoneLeftWaiting'
  BY DEF RpcIInv, R!OwnAnswer, R!NoGap, R!NoneLeftWaiting, ServerStays
<1> QED  BY <1>1, <1>2, <1>3, <1>4

\* A line is added to what is queued: an answer of any size, or the next event when there is room.
LEMMA LineQueued ==
    ASSUME RpcIInv, ServerStays, handlers' \subseteq handlers, conn = "open", conn' = conn,
           flushed' = flushed, NEW line \in QueuedLines, out' = Append(out, line),
           \/ line.what = "answer" /\ occurred' = occurred
           \/ /\ line.what = "event" /\ line.of = occurred + 1 /\ line.size = 1
              /\ occurred' = occurred + 1 /\ occurred < MaxEvents
              /\ R!Bytes(out) <= MaxNotifyBuffered
    PROVE  RpcIInv'
<1>1. RpcTyped /\ occurred \in Nat /\ out \in Seq(QueuedLines) /\ flushed \in Seq(QueuedLines)
      /\ occurred \in 0..MaxEvents
  BY RpcConstants DEF RpcIInv, RpcTyped
<1>2. PICK mid \in Nat : /\ Len(heard) <= mid /\ mid <= occurred
                         /\ NumbersIn(flushed) = Len(heard) + 1..mid
                         /\ NumbersIn(out) = mid + 1..occurred
  BY DEF RpcIInv, NothingSkipped
<1>3. /\ Ascending(out') /\ out' \in Seq(QueuedLines)
      /\ NumbersIn(out') = mid + 1..occurred'
  <2>1. Ascending(out)
    BY DEF RpcIInv, NothingSkipped
  <2>2. line.what = "event" => line.of = occurred + 1
    OBVIOUS
  <2>3. /\ Ascending(Append(out, line)) /\ Append(out, line) \in Seq(QueuedLines)
        /\ line.what = "event" => NumbersIn(Append(out, line)) = mid + 1..occurred + 1
        /\ line.what # "event" => NumbersIn(Append(out, line)) = mid + 1..occurred
    <3> HIDE DEF QueuedLines
    <3> QED  BY <1>1, <1>2, <2>1, <2>2, LastAdded
  <2>4. CASE line.what = "answer" /\ occurred' = occurred
    BY <2>3, <2>4
  <2>5. CASE line.what = "event" /\ occurred' = occurred + 1
    BY <2>3, <2>5
  <2> QED  BY <2>4, <2>5
<1>4. NothingSkipped'
  <2>1. Ascending(out)' /\ NumbersIn(out)' = mid + 1..occurred'
    BY <1>3 DEF Ascending, NumbersIn
  <2>2. Ascending(flushed)' /\ NumbersIn(flushed)' = NumbersIn(flushed)
    BY DEF RpcIInv, NothingSkipped, Ascending, NumbersIn
  <2>3. Len(heard') <= mid /\ mid <= occurred' /\ NumbersIn(flushed)' = Len(heard') + 1..mid
    BY <1>1, <1>2, <2>2 DEF ServerStays
  <2> QED  BY <2>1, <2>2, <2>3 DEF NothingSkipped
<1>5. AnswersOnlyBeyond'
  <2>1. PICK s : Sums(out, s) /\ \A n \in 1..Len(out) : out[n].what = "event" => s[n] <= MaxNotifyBuffered + 1
    BY DEF RpcIInv, AnswersOnlyBeyond
  <2>2. line.what = "event" => s[Len(out)] + line.size <= MaxNotifyBuffered + 1
    <3> SUFFICES ASSUME line.what = "event" PROVE s[Len(out)] + line.size <= MaxNotifyBuffered + 1
      OBVIOUS
    <3>1. line.size = 1 /\ R!Bytes(out) <= MaxNotifyBuffered
      OBVIOUS
    <3>2. R!Bytes(out) = s[Len(out)]
      <4> HIDE DEF QueuedLines
      <4> QED  BY <1>1, <2>1, BytesAre
    <3>3. s[Len(out)] \in Int
      <4>1. Len(out) \in 0..Len(out)
        BY <1>1
      <4> QED  BY <2>1, <4>1 DEF Sums
    <3>4. \A x, y \in Int : x <= y => x + 1 <= y + 1
      OBVIOUS
    <3>5. MaxNotifyBuffered \in Int
      BY RpcConstants
    <3> QED  BY <3>1, <3>2, <3>3, <3>4, <3>5, Zenon
  <2>3. MaxNotifyBuffered + 1 \in Int
    BY RpcConstants
  <2>4. \E t : /\ Sums(Append(out, line), t)
               /\ \A n \in 1..Len(Append(out, line)) :
                    Append(out, line)[n].what = "event" => t[n] <= MaxNotifyBuffered + 1
    <3>1. PICK k : k = MaxNotifyBuffered + 1
      OBVIOUS
    <3> HIDE DEF QueuedLines
    <3> QED  BY <1>1, <2>1, <2>2, <2>3, <3>1, SumsMore
  <2>5. PICK t : /\ Sums(out', t)
                 /\ \A n \in 1..Len(out') : out'[n].what = "event" => t[n] <= MaxNotifyBuffered + 1
    BY <2>4
  <2>6. Sums(out, t)'
    BY <2>5 DEF Sums
  <2> QED  BY <2>5, <2>6 DEF AnswersOnlyBeyond
<1>6. occurred' \in 0..MaxEvents
  BY <1>1, RpcConstants
<1>7. /\ RpcTyped' /\ BytesInLine' /\ R!LinesAsSent' /\ R!CapIsOnLines'
      /\ R!OwnAnswer' /\ R!NoGap' /\ R!NoneLeftWaiting'
  BY <1>1, <1>3, <1>6, ServerKeeps
<1> QED  BY <1>4, <1>5, <1>7 DEF RpcIInv

\* The connection is destroyed with what is queued.
LEMMA ConnectionLost ==
    ASSUME RpcIInv, ServerStays, handlers' = handlers, conn' = "destroyed", out' = <<>>,
           flushed' = flushed, occurred' \in 0..MaxEvents, occurred <= occurred'
    PROVE  RpcIInv'
<1>1. occurred' \in Nat /\ heard' = heard
  BY RpcConstants DEF ServerStays
<1>2. BytesInLine' /\ AnswersOnlyBeyond' /\ NothingSkipped'
  BY <1>1, DestroyedIsSound
<1>3. out' \in Seq(QueuedLines) /\ flushed' \in Seq(QueuedLines)
  <2>1. <<>> \in Seq(QueuedLines)
    OBVIOUS
  <2> QED  BY <2>1 DEF RpcIInv, RpcTyped
<1>4. /\ RpcTyped' /\ R!LinesAsSent' /\ R!CapIsOnLines'
      /\ R!OwnAnswer' /\ R!NoGap' /\ R!NoneLeftWaiting'
  BY <1>3, ServerKeeps
<1> QED  BY <1>2, <1>4 DEF RpcIInv

LEMMA RespondIsSound ==
    ASSUME RpcIInv, NEW c, R!Respond(c)
    PROVE  RpcIInv'
<1>1. /\ ServerStays /\ handlers' = handlers \ {c} /\ conn = "open" /\ conn' = conn
      /\ flushed' = flushed /\ occurred' = occurred /\ c \in handlers
      /\ \E size \in {1, MaxNotifyBuffered + 1} : out' = Append(out, R!Answer(c, size))
  BY DEF R!Respond, R!clientVars, ServerStays
<1>2. PICK size \in {1, MaxNotifyBuffered + 1} : out' = Append(out, R!Answer(c, size))
  BY <1>1
<1>3. PICK line : line = R!Answer(c, size)
  OBVIOUS
<1>4. line \in QueuedLines /\ line.what = "answer"
  <2>1. size \in Nat
    BY RpcConstants
  <2>2. c \in Nat
    BY <1>1 DEF RpcIInv, RpcTyped
  <2> QED  BY <1>3, <2>1, <2>2 DEF R!Answer, QueuedLines
<1> HIDE DEF QueuedLines
<1>5. out' = Append(out, line) /\ handlers' \subseteq handlers
  BY <1>1, <1>2, <1>3
<1> QED  BY <1>1, <1>4, <1>5, LineQueued

LEMMA NotifyIsSound ==
    ASSUME RpcIInv, R!Notify
    PROVE  RpcIInv'
<1>1. /\ ServerStays /\ handlers' = handlers /\ conn = "open" /\ flushed' = flushed
      /\ occurred < MaxEvents /\ occurred' = occurred + 1
      /\ \/ R!FallenBehind /\ conn' = "destroyed" /\ out' = <<>>
         \/ ~R!FallenBehind /\ out' = Append(out, R!Event(occurred + 1)) /\ conn' = conn
  BY DEF R!Notify, R!Enqueue, R!Destroy, R!clientVars, ServerStays
<1>2. occurred \in Nat /\ occurred \in 0..MaxEvents /\ occurred' \in 0..MaxEvents /\ occurred <= occurred'
      /\ out \in Seq(QueuedLines)
  BY <1>1, RpcConstants DEF RpcIInv, RpcTyped
<1>3. CASE R!FallenBehind /\ conn' = "destroyed" /\ out' = <<>>
  BY <1>1, <1>2, <1>3, ConnectionLost
<1>4. CASE ~R!FallenBehind /\ out' = Append(out, R!Event(occurred + 1)) /\ conn' = conn
  <2>1. PICK line : line = R!Event(occurred + 1)
    OBVIOUS
  <2>2. line \in QueuedLines /\ line.what = "event" /\ line.of = occurred + 1 /\ line.size = 1
    BY <1>2, <2>1 DEF R!Event, QueuedLines
  <2>3. R!Bytes(out) <= MaxNotifyBuffered
    <3>1. ~(R!Bytes(out) > MaxNotifyBuffered)
      BY <1>4 DEF R!FallenBehind, R!WritableLength
    <3>2. PICK s : Sums(out, s)
      BY DEF RpcIInv, AnswersOnlyBeyond
    <3>3. R!Bytes(out) = s[Len(out)]
      <4> HIDE DEF QueuedLines
      <4> QED  BY <1>2, <3>2, BytesAre
    <3>4. s[Len(out)] \in Int
      <4>1. Len(out) \in 0..Len(out)
        BY <1>2
      <4> QED  BY <3>2, <4>1 DEF Sums
    <3>5. \A x, y \in Int : ~(x > y) => x <= y
      OBVIOUS
    <3>6. MaxNotifyBuffered \in Int
      BY RpcConstants
    <3> QED  BY <3>1, <3>3, <3>4, <3>5, <3>6, Zenon
  <2> HIDE DEF QueuedLines
  <2>4. out' = Append(out, line) /\ handlers' \subseteq handlers
    BY <1>1, <1>4, <2>1
  <2> QED  BY <1>1, <1>4, <2>2, <2>3, <2>4, LineQueued
<1> QED  BY <1>1, <1>3, <1>4

LEMMA FlushIsSound ==
    ASSUME RpcIInv, R!Flush
    PROVE  RpcIInv'
<1>1. /\ ServerStays /\ handlers' = handlers /\ conn = "open" /\ conn' = conn /\ out # <<>>
      /\ out' = Tail(out) /\ flushed' = Append(flushed, Head(out)) /\ occurred' = occurred
  BY DEF R!Flush, R!clientVars, ServerStays
<1>2. /\ occurred \in Nat /\ occurred' \in 0..MaxEvents /\ Len(heard) \in Nat
      /\ out \in Seq(QueuedLines) /\ flushed \in Seq(QueuedLines)
  BY <1>1, RpcConstants DEF RpcIInv, RpcTyped
<1>3. PICK mid \in Nat : /\ Len(heard) <= mid /\ mid <= occurred
                         /\ NumbersIn(flushed) = Len(heard) + 1..mid
                         /\ NumbersIn(out) = mid + 1..occurred
  BY <1>1 DEF RpcIInv, NothingSkipped
<1>4. Ascending(out) /\ Ascending(flushed)
  BY DEF RpcIInv, NothingSkipped
<1>5. PICK line : line = Head(out)
  OBVIOUS
<1>6. /\ Ascending(out') /\ out' \in Seq(QueuedLines) /\ line \in QueuedLines
      /\ line.what = "event" => line.of = mid + 1 /\ mid + 1 <= occurred /\ NumbersIn(out') = mid + 2..occurred
      /\ line.what # "event" => NumbersIn(out') = mid + 1..occurred
  <2> HIDE DEF QueuedLines
  <2> QED  BY <1>1, <1>2, <1>3, <1>4, <1>5, FirstTaken
<1>7. /\ Ascending(flushed') /\ flushed' \in Seq(QueuedLines)
      /\ line.what = "event" => NumbersIn(flushed') = Len(heard) + 1..mid + 1
      /\ line.what # "event" => NumbersIn(flushed') = Len(heard) + 1..mid
  <2>1. flushed' = Append(flushed, line)
    BY <1>1, <1>5
  <2>2. line.what = "event" => line.of = mid + 1
    BY <1>6
  <2> HIDE DEF QueuedLines
  <2> QED  BY <1>2, <1>3, <1>4, <1>6, <2>1, <2>2, LastAdded
<1>8. NothingSkipped'
  <2>1. Ascending(out)' /\ Ascending(flushed)'
    BY <1>6, <1>7 DEF Ascending
  <2>2. NumbersIn(out)' = NumbersIn(out') /\ NumbersIn(flushed)' = NumbersIn(flushed')
    BY DEF NumbersIn
  <2>3. PICK h, z : h = Len(heard') /\ z = occurred'
    OBVIOUS
  <2>4. h = Len(heard) /\ z = occurred
    BY <1>1, <2>3 DEF ServerStays
  <2>5. CASE line.what = "event"
    <3>1. /\ mid + 1 \in Nat /\ h <= mid + 1 /\ mid + 1 <= z /\ (mid + 1) + 1 = mid + 2
      BY <1>2, <1>3, <1>6, <2>4, <2>5
    <3>2. NumbersIn(flushed)' = h + 1..mid + 1 /\ NumbersIn(out)' = (mid + 1) + 1..z
      BY <1>6, <1>7, <2>2, <2>4, <2>5, <3>1
    <3> QED  BY <2>1, <2>3, <3>1, <3>2 DEF NothingSkipped
  <2>6. CASE line.what # "event"
    <3>1. h <= mid /\ mid <= z /\ NumbersIn(flushed)' = h + 1..mid /\ NumbersIn(out)' = mid + 1..z
      BY <1>3, <1>6, <1>7, <2>2, <2>4, <2>6
    <3> QED  BY <2>1, <2>3, <3>1 DEF NothingSkipped
  <2> QED  BY <2>5, <2>6
<1>9. AnswersOnlyBeyond'
  <2>1. PICK s : Sums(out, s) /\ \A n \in 1..Len(out) : out[n].what = "event" => s[n] <= MaxNotifyBuffered + 1
    BY DEF RpcIInv, AnswersOnlyBeyond
  <2>2. MaxNotifyBuffered + 1 \in Int
    BY RpcConstants
  <2>3. \E t : /\ Sums(Tail(out), t)
               /\ \A n \in 1..Len(Tail(out)) : Tail(out)[n].what = "event" => t[n] <= MaxNotifyBuffered + 1
    <3> HIDE DEF QueuedLines
    <3> QED  BY <1>1, <1>2, <2>1, <2>2, SumsLess
  <2>4. PICK t : /\ Sums(out', t)
                 /\ \A n \in 1..Len(out') : out'[n].what = "event" => t[n] <= MaxNotifyBuffered + 1
    BY <1>1, <2>3
  <2>5. Sums(out, t)'
    BY <2>4 DEF Sums
  <2> QED  BY <2>4, <2>5 DEF AnswersOnlyBeyond
<1>10. /\ RpcTyped' /\ BytesInLine' /\ R!LinesAsSent' /\ R!CapIsOnLines'
       /\ R!OwnAnswer' /\ R!NoGap' /\ R!NoneLeftWaiting'
  BY <1>1, <1>2, <1>6, <1>7, ServerKeeps
<1> QED  BY <1>8, <1>9, <1>10 DEF RpcIInv

LEMMA DisconnectIsSound ==
    ASSUME RpcIInv, R!Disconnect
    PROVE  RpcIInv'
<1>1. /\ ServerStays /\ handlers' = handlers /\ conn' = "destroyed" /\ out' = <<>>
      /\ flushed' = flushed /\ occurred' = occurred
  BY DEF R!Disconnect, R!Destroy, R!clientVars, ServerStays
<1>2. occurred' \in 0..MaxEvents /\ occurred <= occurred'
  BY <1>1, RpcConstants DEF RpcIInv, RpcTyped
<1> QED  BY <1>1, <1>2, ConnectionLost

-------------------------------------------------------------------------------
(* What it shows.                                                           *)

LEMMA RpcStep ==
    ASSUME RpcIInv, [R!RpcNext]_(R!rpcVars)
    PROVE  RpcIInv'
<1>1. CASE R!Call
  BY <1>1, CallIsSound
<1>2. ASSUME NEW c \in R!Ids, R!CallTimesOut(c) PROVE RpcIInv'
  BY <1>2, CallTimesOutIsSound
<1>3. ASSUME NEW c \in R!Ids, R!Respond(c) PROVE RpcIInv'
  BY <1>3, RespondIsSound
<1>4. ASSUME NEW k \in 1..Len(bytes), R!Data(k) PROVE RpcIInv'
  BY <1>4, DataIsSound
<1>5. CASE R!Hear
  BY <1>5, HearIsSound
<1>6. CASE R!Close
  BY <1>6, CloseIsSound
<1>7. CASE R!Closed
  BY <1>7, ClosedIsSound
<1>8. CASE R!Notify
  BY <1>8, NotifyIsSound
<1>9. CASE R!Flush
  BY <1>9, FlushIsSound
<1>10. CASE R!Disconnect
  BY <1>10, DisconnectIsSound
<1>11. CASE UNCHANGED R!rpcVars
  <2>1. /\ ServerStays /\ handlers' = handlers /\ conn' = conn /\ out' = out
        /\ flushed' = flushed /\ occurred' = occurred
    BY <1>11 DEF R!rpcVars, R!clientVars, R!serverVars, ServerStays
  <2>2. AnswersOnlyBeyond' /\ NothingSkipped'
    BY <2>1, QueuesStay DEF ServerStays
  <2>3. out' \in Seq(QueuedLines) /\ flushed' \in Seq(QueuedLines) /\ occurred' \in 0..MaxEvents
    BY <2>1 DEF RpcIInv, RpcTyped
  <2>4. /\ RpcTyped' /\ BytesInLine' /\ R!LinesAsSent' /\ R!CapIsOnLines'
        /\ R!OwnAnswer' /\ R!NoGap' /\ R!NoneLeftWaiting'
    BY <2>1, <2>3, ServerKeeps
  <2> QED  BY <2>2, <2>4 DEF RpcIInv
<1> QED  BY <1>1, <1>2, <1>3, <1>4, <1>5, <1>6, <1>7, <1>8, <1>9, <1>10, <1>11 DEF R!RpcNext

LEMMA RpcIsSound == RpcIInv => R!RpcSound
<1> SUFFICES ASSUME RpcIInv PROVE R!RpcSound
  OBVIOUS
<1>1. R!RpcTypeOK
  <2>1. handlers \subseteq 1..Len(request)
    <3>1. Len(handled) \in Nat /\ Len(request) \in Nat /\ Len(handled) <= Len(request)
      BY DEF RpcIInv, RpcTyped
    <3>2. \A c \in 1..Len(handled) : c \in 1..Len(request)
      BY <3>1
    <3>3. handlers \subseteq 1..Len(handled)
      BY DEF RpcIInv, RpcTyped
    <3> QED  BY <3>2, <3>3
  <2> QED  BY <2>1 DEF RpcIInv, RpcTyped, CallsTyped, R!RpcTypeOK
<1>2. R!QueueBounded
  <2>1. PICK s : Sums(out, s) /\ \A n \in 1..Len(out) : out[n].what = "event" => s[n] <= MaxNotifyBuffered + 1
    BY DEF RpcIInv, AnswersOnlyBeyond
  <2>2. out \in Seq(QueuedLines)
    BY DEF RpcIInv, RpcTyped
  <2>3. \A n \in 1..Len(out) : R!Bytes(SubSeq(out, 1, n)) = s[n]
    <3> HIDE DEF QueuedLines
    <3> QED  BY <2>1, <2>2, BytesAre
  <2> QED  BY <2>1, <2>3 DEF R!QueueBounded
<1> QED  BY <1>1, <1>2 DEF RpcIInv, R!RpcSound

\* However the bytes are cut and the answers ordered, a connection hands on the requests that were
\* written, gives a call its own answer, skips no event while it lasts, queues events only up to
\* the limit and leaves no call waiting when it ends: for any numbers of calls and of events and
\* any caps.
THEOREM RpcSpecSound == R!RpcSpec => []R!RpcSound
<1>1. R!RpcSpec => []RpcIInv
  BY RpcInitIsSound, RpcStep, PTL DEF R!RpcSpec
<1> QED  BY <1>1, RpcIsSound, PTL

\* The same of the run's behaviours: RpcSound.
THEOREM SpecRpcSound == Spec => []RpcSound
<1>1. Init => RpcIInv
  BY RpcInitIsSound DEF Init
<1>2. RpcIInv /\ [Next]_vars => RpcIInv'
  <2> SUFFICES ASSUME RpcIInv, [Next]_vars PROVE RpcIInv'
    OBVIOUS
  <2>1. [R!RpcNext]_(R!rpcVars)
    BY DEF Next, vars, InStreams, InProgress, InInvocation, OnConnection, rpcVars,
           R!rpcVars, R!clientVars, R!serverVars
  <2> QED  BY <2>1, RpcStep
<1>3. RpcIInv => RpcSound
  BY RpcIsSound DEF RpcSound
<1> QED  BY <1>1, <1>2, <1>3, PTL DEF Spec

================================================================================
