--------------------------- MODULE AgentToolProofs ---------------------------
(***************************************************************************)
(* Proofs about what an agent is offered: the shape of the tools, for any  *)
(* tools and bounds, and the listing and the calls of the MCP server, for  *)
(* any sessions and requests at a time.                                    *)
(***************************************************************************)
EXTENDS MCAgentTools, FiniteSetTheorems, SequenceTheorems, TLAPS

-------------------------------------------------------------------------------
(***************************************************************************)
(* Schemas, timeouts and results.                                          *)
(***************************************************************************)
WireTimeouts == Int \union {None}
Descriptors ==
    [input : T!PlainSchemas \union {None}, output : T!PlainSchemas \union {None},
     timeout : WireTimeouts, named : BOOLEAN]
Refusable == {"odd", "other"}
Notices == Tools \X T!Slots \X Refusable
Listing == {[of |-> d, shown |-> T!Mapped(d)] : d \in Descriptors}

LEMMA Bounds ==
    /\ MinTimeout \in Nat /\ MinTimeout > 0 /\ MinTimeout % 2 = 0
    /\ MaxTimeout \in Nat /\ MaxTimeout % 2 = 0
    /\ DefaultTimeout \in Nat /\ DefaultTimeout % 2 = 0
    /\ MinTimeout <= DefaultTimeout /\ DefaultTimeout <= MaxTimeout
    /\ None \notin Int /\ NaN \notin Int
<1>1. \A t \in {MinTimeout, MaxTimeout, DefaultTimeout} : t \in Nat /\ t > 0 /\ t % 2 = 0
  BY AgentToolsConstants, Zenon DEF T!ToolShapeConstants
<1>2. /\ MinTimeout <= DefaultTimeout /\ DefaultTimeout <= MaxTimeout
      /\ None \notin Int /\ NaN \notin Int
  BY AgentToolsConstants, Zenon DEF T!ToolShapeConstants
<1> QED  BY <1>1, <1>2

\* A timeout that is declared or given comes out whole, between the bounds, and
\* the same when it is clamped again.
LEMMA Clamped ==
    ASSUME NEW t \in Int
    PROVE  /\ T!Clamp(t) \in Int /\ T!Clamp(t) % 2 = 0
           /\ MinTimeout <= T!Clamp(t) /\ T!Clamp(t) <= MaxTimeout
<1>1. /\ MinTimeout \in Nat /\ MaxTimeout \in Nat
      /\ MinTimeout % 2 = 0 /\ MaxTimeout % 2 = 0 /\ MinTimeout <= MaxTimeout
  BY Bounds
<1>2. T!TruncTowardZero(t) \in Int /\ T!TruncTowardZero(t) % 2 = 0
  BY DEF T!TruncTowardZero
<1> QED  BY <1>1, <1>2 DEF T!Clamp, T!AtLeast

LEMMA ClampedAgain ==
    ASSUME NEW t \in Int, t % 2 = 0, MinTimeout <= t, t <= MaxTimeout
    PROVE  T!Clamp(t) = t
<1>1. MinTimeout \in Nat /\ MaxTimeout \in Nat
  BY Bounds
<1>2. T!TruncTowardZero(t) = t
  BY <1>1 DEF T!TruncTowardZero
<1> QED  BY <1>1, <1>2 DEF T!Clamp, T!AtLeast

LEMMA CallTimeouts ==
    ASSUME NEW t \in Int \union {NaN, None}
    PROVE  /\ T!CallTimeout(t) \in Int
           /\ T!CallTimeout(t) <= MaxTimeout
           /\ T!CallTimeout(T!CallTimeout(t)) = T!CallTimeout(t)
           /\ T!CallTimeout(t) # None
<1>1. /\ DefaultTimeout \in Int /\ DefaultTimeout % 2 = 0
      /\ MinTimeout <= DefaultTimeout /\ DefaultTimeout <= MaxTimeout
      /\ None \notin Int /\ NaN \notin Int
  BY Bounds
<1>2. CASE t \in Int
  <2>1. /\ T!Clamp(t) \in Int /\ T!Clamp(t) % 2 = 0
        /\ MinTimeout <= T!Clamp(t) /\ T!Clamp(t) <= MaxTimeout
    BY <1>2, Clamped
  <2>2. T!Clamp(T!Clamp(t)) = T!Clamp(t)
    BY <2>1, ClampedAgain
  <2>3. T!CallTimeout(t) = T!Clamp(t) /\ T!CallTimeout(T!Clamp(t)) = T!Clamp(T!Clamp(t))
    BY <1>1, <1>2, <2>1 DEF T!CallTimeout, T!Finite
  <2> QED  BY <1>1, <2>1, <2>2, <2>3
<1>3. CASE t \in {NaN, None}
  <2>1. T!CallTimeout(t) = DefaultTimeout
    BY <1>3 DEF T!CallTimeout, T!Finite
  <2>2. T!CallTimeout(DefaultTimeout) = T!Clamp(DefaultTimeout)
    BY <1>1 DEF T!CallTimeout, T!Finite
  <2>3. T!Clamp(DefaultTimeout) = DefaultTimeout
    BY <1>1, ClampedAgain
  <2> QED  BY <1>1, <2>1, <2>2, <2>3
<1> QED  BY <1>2, <1>3

\* The descriptor of a definition is well-formed but for what the app itself names.
LEMMA Described ==
    ASSUME NEW d \in Definitions
    PROVE  /\ T!Descriptor(d) \in Descriptors /\ T!Descriptor(d) # None
           /\ T!Passes(T!Descriptor(d)) <=> d.named
           /\ d # None
<1>1. /\ d \in [input : T!Values \union {None}, output : T!Values \union {None},
                timeout : Int \union {NaN, None}, named : BOOLEAN]
      /\ T!Descriptor(d) # None /\ d # None
      /\ None \notin Int /\ NaN \notin Int /\ MinTimeout \in Nat /\ MinTimeout > 0
  BY AgentToolsConstants DEF T!ToolShapeConstants
<1>2. T!Export(d.input) \in T!PlainSchemas \union {None}
      /\ T!Export(d.output) \in T!PlainSchemas \union {None}
  BY DEF T!Export
<1>3. T!WireTimeout(d.timeout) \in WireTimeouts
      /\ (T!WireTimeout(d.timeout) = None \/
            (T!Finite(T!WireTimeout(d.timeout)) /\ T!WireTimeout(d.timeout) % 2 = 0
             /\ T!WireTimeout(d.timeout) > 0))
  <2>1. CASE d.timeout \in Int
    <3>1. /\ T!Clamp(d.timeout) \in Int /\ T!Clamp(d.timeout) % 2 = 0
          /\ MinTimeout <= T!Clamp(d.timeout)
      BY <2>1, Clamped
    <3>2. T!WireTimeout(d.timeout) = T!Clamp(d.timeout)
      BY <1>1, <2>1 DEF T!WireTimeout, T!Finite
    <3> QED  BY <1>1, <3>1, <3>2 DEF WireTimeouts, T!Finite
  <2>2. CASE d.timeout \in {NaN, None}
    BY <2>2 DEF T!WireTimeout, T!Finite, WireTimeouts
  <2> QED  BY <1>1, <2>1, <2>2
<1>4. d.named \in BOOLEAN
  BY <1>1
<1> QED  BY <1>1, <1>2, <1>3, <1>4 DEF T!Descriptor, T!Passes, Descriptors

-------------------------------------------------------------------------------
ShapeTyped ==
    /\ build \in {"dev", "release"}
    /\ entries \in [Tools -> Definitions \union {None}]
    /\ descriptors = [t \in Tools |->
                        IF entries[t] = None THEN None ELSE T!Descriptor(entries[t])]
    /\ warnedAbout \subseteq Tools \X T!Slots /\ hinted \subseteq Tools \X T!Slots
    /\ remembered \in Seq(Notices) /\ Len(remembered) <= MaxNotices
    /\ T!IsInjective(remembered)
    /\ catalog \in [Tools -> Listing \union {None}]

\* What is registered was classified, and whatever it lacks was told of.
Told ==
    \A t \in Tools : entries[t] # None =>
        /\ \A s \in T!Slots : entries[t][s] # None => T!Classifies(entries[t][s])
        /\ build = "dev" => T!Shapeless(entries[t]) = {}
        /\ {t} \X T!Shapeless(entries[t]) \subseteq warnedAbout
        /\ {t} \X T!NotObjects(entries[t]) \subseteq hinted

\* What is remembered was printed, and so was whatever a listing does not show.
Printed ==
    /\ \A i \in 1..Len(remembered) : remembered[i] \in printed
    /\ \A t \in Tools, s \in T!Slots :
         catalog[t] # None /\ T!Rejected(catalog[t].of[s]) => <<t, s, catalog[t].of[s]>> \in printed

\* The call in progress.
CallInv ==
    served # T!Idle =>
        /\ served \in [stage : {"sent", "taken", "over"}, tool : Tools, via : {"mcp", "client"},
                       given : Int \union {None}, fetched : Descriptors,
                       entry : Definitions \union {None},
                       result : {None, "input_error", "output_error", "structured", "text",
                                 "mcp_output_error"},
                       listed : Listing \union {None}, deadline : Int, watchdog : Int]
        /\ served.watchdog > served.deadline
        /\ served.given = None => served.deadline = T!CallTimeout(served.fetched.timeout)
        /\ served.stage = "taken" => served.entry # None
        /\ served.stage = "over" /\ served.via = "mcp" =>
             /\ served.result = "text" => ~T!Emits(served.fetched.output)
             /\ served.result = "mcp_output_error" => T!Emits(served.fetched.output)

ShapeIInv == ShapeTyped /\ Told /\ T!OddTimeoutIsHarmless /\ Printed /\ CallInv

LEMMA ShapeInitIInv == T!ShapeInit => ShapeIInv
<1> SUFFICES ASSUME T!ShapeInit PROVE ShapeIInv
  OBVIOUS
<1>1. remembered \in Seq(Notices) /\ Len(remembered) = 0
  <2>1. <<>> \in Seq(Notices)
    OBVIOUS
  <2> QED  BY <2>1 DEF T!ShapeInit
<1>2. T!IsInjective(remembered) /\ Len(remembered) <= MaxNotices
  <2>1. MaxNotices \in Nat
    BY AgentToolsConstants DEF T!ToolShapeConstants
  <2> QED  BY <1>1, <2>1 DEF T!IsInjective
<1>3. ShapeTyped
  BY <1>1, <1>2 DEF T!ShapeInit, T!Nothing, ShapeTyped
<1> QED  BY <1>1, <1>3 DEF T!ShapeInit, T!Nothing, T!Idle, ShapeIInv, Told, T!OddTimeoutIsHarmless, Printed,
            CallInv

LEMMA RegisterIInv ==
    ASSUME ShapeIInv, NEW t \in Tools, NEW d \in Definitions, T!Register(t, d)
    PROVE  ShapeIInv'
<1> USE DEF ShapeIInv
<1>1. /\ T!Descriptor(d) \in Descriptors /\ T!Descriptor(d) # None /\ d # None
      /\ T!Passes(T!Descriptor(d)) <=> d.named
  BY Described
<1>2. /\ T!Shapeless(d) \subseteq T!Slots /\ T!NotObjects(d) \subseteq T!Slots
  BY DEF T!Shapeless, T!NotObjects
<1>3. /\ warnedAbout' = warnedAbout \union ({t} \X T!Shapeless(d))
      /\ hinted' = hinted \union ({t} \X T!NotObjects(d))
      /\ \A s \in T!Slots : d[s] # None => T!Classifies(d[s])
      /\ build = "dev" => T!Shapeless(d) = {}
      /\ UNCHANGED <<build, remembered, printed, catalog, served>>
  BY DEF T!Register, T!Warnings
<1>4. Printed' /\ CallInv'
  BY <1>3 DEF Printed, CallInv
<1>5. warnedAbout' \subseteq Tools \X T!Slots /\ hinted' \subseteq Tools \X T!Slots
  BY <1>2, <1>3 DEF ShapeTyped
<1>6. CASE T!Passes(T!Descriptor(d))
  <2>1. /\ entries' = [entries EXCEPT ![t] = d]
        /\ descriptors' = [descriptors EXCEPT ![t] = T!Descriptor(d)]
        /\ refused' = refused
    BY <1>6 DEF T!Register
  <2>2. ShapeTyped'
    <3>1. entries' \in [Tools -> Definitions \union {None}]
      BY <2>1 DEF ShapeTyped
    <3>2. descriptors' = [u \in Tools |->
                            IF entries'[u] = None THEN None ELSE T!Descriptor(entries'[u])]
      BY <1>1, <2>1 DEF ShapeTyped
    <3> QED  BY <1>3, <1>5, <3>1, <3>2 DEF ShapeTyped
  <2>3. Told'
    <3> SUFFICES ASSUME NEW u \in Tools, entries'[u] # None
                 PROVE  /\ \A s \in T!Slots : entries'[u][s] # None => T!Classifies(entries'[u][s])
                        /\ build' = "dev" => T!Shapeless(entries'[u]) = {}
                        /\ {u} \X T!Shapeless(entries'[u]) \subseteq warnedAbout'
                        /\ {u} \X T!NotObjects(entries'[u]) \subseteq hinted'
      BY DEF Told, T!Shapeless, T!NotObjects, T!Export, T!Classifies
    <3>1. CASE u = t
      <4>1. entries'[u] = d
        BY <2>1, <3>1 DEF ShapeTyped
      <4> QED  BY <1>3, <3>1, <4>1
    <3>2. CASE u # t
      <4>1. entries'[u] = entries[u]
        BY <2>1, <3>2 DEF ShapeTyped
      <4> QED  BY <1>3, <4>1 DEF Told
    <3> QED  BY <3>1, <3>2
  <2> QED  BY <1>4, <2>1, <2>2, <2>3 DEF T!OddTimeoutIsHarmless
<1>7. CASE ~T!Passes(T!Descriptor(d))
  <2>1. /\ refused' = refused \union {d} /\ ~d.named
        /\ UNCHANGED <<entries, descriptors>>
    BY <1>1, <1>7 DEF T!Register
  <2>2. Told'
    BY <1>3, <2>1 DEF Told
  <2>3. ShapeTyped'
    BY <1>3, <1>5, <2>1 DEF ShapeTyped
  <2> QED  BY <1>4, <2>1, <2>2, <2>3 DEF T!OddTimeoutIsHarmless
<1> QED  BY <1>6, <1>7

LEMMA UnregisterIInv ==
    ASSUME ShapeIInv, NEW t \in Tools, T!Unregister(t)
    PROVE  ShapeIInv'
<1> USE DEF ShapeIInv
<1>1. /\ entries' = [entries EXCEPT ![t] = None]
      /\ descriptors' = [descriptors EXCEPT ![t] = None]
      /\ UNCHANGED <<build, refused, warnedAbout, hinted, remembered, printed, catalog, served>>
  BY DEF T!Unregister
<1>2. ShapeTyped'
  <2>1. entries' \in [Tools -> Definitions \union {None}]
    BY <1>1 DEF ShapeTyped
  <2>2. descriptors' = [u \in Tools |->
                          IF entries'[u] = None THEN None ELSE T!Descriptor(entries'[u])]
    BY <1>1 DEF ShapeTyped
  <2> QED  BY <1>1, <2>1, <2>2 DEF ShapeTyped
<1>3. \A u \in Tools : entries'[u] # None => entries'[u] = entries[u]
  BY <1>1 DEF ShapeTyped
<1>4. Told'
  BY <1>1, <1>3 DEF Told
<1> QED  BY <1>1, <1>2, <1>4 DEF T!OddTimeoutIsHarmless, Printed, CallInv

\* One notice: what is remembered stays free of repetitions, and was printed.
LEMMA Remembering ==
    ASSUME NEW known \in Seq(Notices), T!IsInjective(known), Len(known) <= MaxNotices,
           NEW P, \A i \in 1..Len(known) : known[i] \in P,
           NEW n \in Tools \X T!Slots \X (T!PlainSchemas \union {None})
    PROVE  /\ T!Warned(known, n) \in Seq(Notices)
           /\ T!IsInjective(T!Warned(known, n))
           /\ Len(T!Warned(known, n)) <= MaxNotices
           /\ \A i \in 1..Len(T!Warned(known, n)) :
                T!Warned(known, n)[i] \in P \union T!Due(known, n)
           /\ T!Rejected(n[3]) => n \in P \union T!Due(known, n)
<1> USE DEF T!IsInjective
<1>1. T!Rejected(n[3]) => n \in Notices
  BY DEF T!Rejected, Notices, Refusable
<1>2. MaxNotices \in Nat \ {0}
  BY AgentToolsConstants, Zenon DEF T!ToolShapeConstants
<1>3. T!Due(known, n) = {} \/ (T!Due(known, n) = {n} /\ T!Rejected(n[3])
                               /\ \A i \in 1..Len(known) : known[i] # n)
  BY DEF T!Due, T!Knows, T!ToSet
<1>4. CASE T!Due(known, n) = {}
  <2>1. T!Rejected(n[3]) => \E i \in 1..Len(known) : known[i] = n
    BY <1>4 DEF T!Due, T!Knows, T!ToSet
  <2> QED  BY <1>4, <2>1 DEF T!Warned
<1>5. CASE T!Due(known, n) # {}
  <2>1. PICK old : /\ old \in Seq(Notices) /\ T!Warned(known, n) = Append(old, n)
                   /\ Len(old) < MaxNotices
                   /\ \E k \in 0..1 : \A i \in 1..Len(old) :
                        i + k \in 1..Len(known) /\ old[i] = known[i + k]
    <3>1. CASE Len(known) >= MaxNotices
      <4>1. /\ Tail(known) \in Seq(Notices) /\ Len(Tail(known)) = Len(known) - 1
            /\ \A i \in 1..Len(Tail(known)) : i + 1 \in 1..Len(known) /\ Tail(known)[i] = known[i + 1]
        BY <1>2, <3>1
      <4>2. \E k \in 0..1 : \A i \in 1..Len(Tail(known)) :
              i + k \in 1..Len(known) /\ Tail(known)[i] = known[i + k]
        BY <4>1
      <4>3. T!Warned(known, n) = Append(Tail(known), n) /\ Len(Tail(known)) < MaxNotices
        BY <1>2, <1>5, <3>1, <4>1 DEF T!Warned
      <4> QED  BY <4>1, <4>2, <4>3
    <3>2. CASE ~(Len(known) >= MaxNotices)
      <4>1. \A i \in 1..Len(known) : i + 0 \in 1..Len(known) /\ known[i] = known[i + 0]
        OBVIOUS
      <4>2. \E k \in 0..1 : \A i \in 1..Len(known) : i + k \in 1..Len(known) /\ known[i] = known[i + k]
        BY <4>1
      <4>3. T!Warned(known, n) = Append(known, n) /\ Len(known) < MaxNotices
        BY <1>2, <1>5, <3>2 DEF T!Warned
      <4> QED  BY <4>2, <4>3
    <3> QED  BY <3>1, <3>2
  <2>2. PICK k \in 0..1 : \A i \in 1..Len(old) : i + k \in 1..Len(known) /\ old[i] = known[i + k]
    BY <2>1
  <2>3. n \in Notices /\ T!Due(known, n) = {n} /\ \A i \in 1..Len(known) : known[i] # n
    BY <1>1, <1>3, <1>5
  <2>4. /\ Append(old, n) \in Seq(Notices) /\ Len(Append(old, n)) = Len(old) + 1
        /\ \A i \in 1..Len(old) : Append(old, n)[i] = old[i]
        /\ Append(old, n)[Len(old) + 1] = n
    BY <2>1, <2>3
  <2>5. \A i \in 1..Len(old) : old[i] # n /\ old[i] \in P
    BY <2>2, <2>3
  <2>6. ASSUME NEW i \in 1..Len(old), NEW j \in 1..Len(old), old[i] = old[j]
        PROVE  i = j
    <3>1. \A a \in 1..Len(known), b \in 1..Len(known) : known[a] = known[b] => a = b
      OBVIOUS
    <3>2. /\ i + k \in 1..Len(known) /\ j + k \in 1..Len(known)
          /\ known[i + k] = known[j + k]
      BY <2>2, <2>6
    <3>3. i + k = j + k
      BY <3>1, <3>2
    <3> QED  BY <2>1, <3>3
  <2>7. ASSUME NEW i \in 1..Len(old) + 1, NEW j \in 1..Len(old) + 1,
               Append(old, n)[i] = Append(old, n)[j]
        PROVE  i = j
    <3>1. Len(old) \in Nat
      BY <2>1
    <3>2. CASE i = Len(old) + 1
      <4>1. j \notin 1..Len(old)
        BY <2>4, <2>5, <2>7, <3>2
      <4> QED  BY <3>1, <3>2, <4>1
    <3>3. CASE j = Len(old) + 1
      <4>1. i \notin 1..Len(old)
        BY <2>4, <2>5, <2>7, <3>3
      <4> QED  BY <3>1, <3>3, <4>1
    <3>4. CASE i \in 1..Len(old) /\ j \in 1..Len(old)
      BY <2>4, <2>6, <2>7, <3>4
    <3> QED  BY <3>1, <3>2, <3>3, <3>4
  <2>8. T!IsInjective(Append(old, n))
    BY <2>4, <2>7
  <2> QED  BY <1>2, <2>1, <2>3, <2>4, <2>5, <2>8
<1> QED  BY <1>4, <1>5


LEMMA ListToolIInv ==
    ASSUME ShapeIInv, NEW t \in Tools, T!ListTool(t)
    PROVE  ShapeIInv'
<1> USE DEF ShapeIInv
<1>1. UNCHANGED <<build, entries, refused, descriptors, warnedAbout, hinted, served, moves>>
  BY DEF T!ListTool
<1>2. Told' /\ CallInv' /\ T!OddTimeoutIsHarmless'
  BY <1>1 DEF Told, CallInv, T!OddTimeoutIsHarmless
<1>3. CASE descriptors[t] = None
  <2>1. catalog' = [catalog EXCEPT ![t] = None] /\ UNCHANGED <<remembered, printed>>
    BY <1>3 DEF T!ListTool
  <2>2. ShapeTyped'
    BY <1>1, <2>1 DEF ShapeTyped
  <2>3. Printed'
    BY <2>1 DEF Printed, ShapeTyped
  <2> QED  BY <1>1, <1>2, <2>2, <2>3
<1>4. CASE descriptors[t] # None
  <2> DEFINE d == descriptors[t]
             out == <<t, "output", d.output>>
             in == <<t, "input", d.input>>
             known == T!Warned(remembered, out)
  <2>1. entries[t] \in Definitions /\ d = T!Descriptor(entries[t])
    BY <1>4 DEF ShapeTyped
  <2>2. d \in Descriptors
    BY <2>1, Described
  <2>3. /\ catalog' = [catalog EXCEPT ![t] = [of |-> d, shown |-> T!Mapped(d)]]
        /\ remembered' = T!Warned(known, in)
        /\ printed' = printed \union T!Due(remembered, out) \union T!Due(known, in)
    BY <1>4 DEF T!ListTool, T!Map
  <2>4. /\ out \in Tools \X T!Slots \X (T!PlainSchemas \union {None})
        /\ in \in Tools \X T!Slots \X (T!PlainSchemas \union {None})
        /\ out[3] = d.output /\ in[3] = d.input
    BY <2>2 DEF Descriptors, T!Slots
  <2>5. /\ known \in Seq(Notices) /\ T!IsInjective(known) /\ Len(known) <= MaxNotices
        /\ \A i \in 1..Len(known) : known[i] \in printed \union T!Due(remembered, out)
        /\ T!Rejected(out[3]) => out \in printed \union T!Due(remembered, out)
    <3> HIDE DEF out
    <3>1. remembered \in Seq(Notices) /\ T!IsInjective(remembered) /\ Len(remembered) <= MaxNotices
      BY DEF ShapeTyped
    <3>2. \A i \in 1..Len(remembered) : remembered[i] \in printed
      BY DEF Printed
    <3> QED  BY <2>4, <3>1, <3>2, Remembering
  <2>6. /\ remembered' \in Seq(Notices) /\ T!IsInjective(remembered)' /\ Len(remembered') <= MaxNotices
        /\ \A i \in 1..Len(remembered') : remembered'[i] \in printed'
        /\ T!Rejected(in[3]) => in \in printed'
    <3> HIDE DEF in, known
    <3>1. /\ T!Warned(known, in) \in Seq(Notices) /\ T!IsInjective(T!Warned(known, in))
          /\ Len(T!Warned(known, in)) <= MaxNotices
          /\ \A i \in 1..Len(T!Warned(known, in)) :
               T!Warned(known, in)[i] \in (printed \union T!Due(remembered, out)) \union T!Due(known, in)
          /\ T!Rejected(in[3]) => in \in (printed \union T!Due(remembered, out)) \union T!Due(known, in)
      BY <2>4, <2>5, Remembering
    <3> QED  BY <2>3, <3>1 DEF T!IsInjective
  <2> HIDE DEF out, in, known
  <2>7. ShapeTyped'
    <3>1. catalog' \in [Tools -> Listing \union {None}]
      BY <2>2, <2>3 DEF ShapeTyped, Listing
    <3> QED  BY <1>1, <2>6, <3>1 DEF ShapeTyped
  <2>8. \A s \in T!Slots : T!Rejected(d[s]) => <<t, s, d[s]>> \in printed'
    BY <2>3, <2>4, <2>5, <2>6 DEF T!Slots, out, in
  <2>9. Printed'
    <3> SUFFICES ASSUME NEW u \in Tools, NEW s \in T!Slots,
                        catalog'[u] # None, T!Rejected(catalog'[u].of[s])
                 PROVE  <<u, s, catalog'[u].of[s]>> \in printed'
      BY <2>6 DEF Printed, T!Rejected
    <3>1. CASE u = t
      <4>1. catalog'[u].of = d
        BY <2>3, <3>1 DEF ShapeTyped
      <4> QED  BY <2>8, <3>1, <4>1
    <3>2. CASE u # t
      <4>1. catalog'[u] = catalog[u]
        BY <2>3, <3>2 DEF ShapeTyped
      <4>2. <<u, s, catalog[u].of[s]>> \in printed
        BY <4>1 DEF Printed
      <4> QED  BY <2>3, <4>1, <4>2
    <3> QED  BY <3>1, <3>2
  <2> QED  BY <1>2, <2>7, <2>9
<1> QED  BY <1>3, <1>4

CallRecords ==
    [stage : {"sent", "taken", "over"}, tool : Tools, via : {"mcp", "client"},
     given : Int \union {None}, fetched : Descriptors, entry : Definitions \union {None},
     result : {None, "input_error", "output_error", "structured", "text", "mcp_output_error"},
     listed : Listing \union {None}, deadline : Int, watchdog : Int]

LEMMA CallIInv ==
    ASSUME ShapeIInv, NEW t \in Tools, NEW via, NEW given,
           \/ via = "mcp" /\ given = None
           \/ via = "client" /\ given \in Timeouts \union {None},
           T!Call(t, via, given)
    PROVE  ShapeIInv'
<1> USE DEF ShapeIInv
<1> DEFINE d == descriptors[t]
<1>1. UNCHANGED <<build, entries, refused, descriptors, warnedAbout, hinted, remembered, printed,
                  catalog>>
  BY DEF T!Call
<1>2. ShapeTyped' /\ Told' /\ T!OddTimeoutIsHarmless' /\ Printed'
  BY <1>1 DEF ShapeTyped, Told, T!OddTimeoutIsHarmless, Printed, T!IsInjective
<1>3. d \in Descriptors /\ catalog[t] \in Listing \union {None}
  <2>1. entries[t] \in Definitions /\ d = T!Descriptor(entries[t])
    BY DEF ShapeTyped, T!Call
  <2>2. d \in Descriptors
    BY <2>1, Described
  <2> QED  BY <2>2 DEF ShapeTyped
<1>4. d.timeout \in Int \union {NaN, None} /\ Slack \in Nat /\ Slack > 0 /\ Timeouts \subseteq Int
  <2>1. Slack \in Nat \ {0} /\ Timeouts \subseteq Int
    BY AgentToolsConstants, Zenon DEF T!ToolShapeConstants
  <2> QED  BY <1>3, <2>1 DEF Descriptors, WireTimeouts
<1>5. PICK deadline \in Int, watchdog \in Int :
        /\ watchdog > deadline
        /\ given = None => deadline = T!CallTimeout(d.timeout)
        /\ served' = [stage |-> "sent", tool |-> t, via |-> via, given |-> given, fetched |-> d,
                      entry |-> None, result |-> None, listed |-> catalog[t],
                      deadline |-> deadline, watchdog |-> watchdog]
  <2> HIDE DEF d
  <2>1. CASE via = "mcp" /\ given = None
    <3>1. /\ T!CallTimeout(d.timeout) \in Int
          /\ T!CallTimeout(T!CallTimeout(d.timeout)) = T!CallTimeout(d.timeout)
          /\ T!CallTimeout(d.timeout) # None
      BY <1>4, CallTimeouts
    <3>2. served' = [stage |-> "sent", tool |-> t, via |-> via, given |-> given, fetched |-> d,
                     entry |-> None, result |-> None, listed |-> catalog[t],
                     deadline |-> T!CallTimeout(d.timeout),
                     watchdog |-> T!CallTimeout(d.timeout) + Slack]
      BY <2>1, <3>1 DEF T!Call, d
    <3> QED  BY <1>4, <3>1, <3>2
  <2>2. CASE via = "client" /\ given = None
    <3>1. /\ T!CallTimeout(d.timeout) \in Int /\ T!CallTimeout(d.timeout) <= MaxTimeout
      BY <1>4, CallTimeouts
    <3>2. T!Watchdog(given) = MaxTimeout + Slack /\ MaxTimeout \in Nat
      BY <2>2, Bounds DEF T!Watchdog, T!Finite
    <3>3. served' = [stage |-> "sent", tool |-> t, via |-> via, given |-> given, fetched |-> d,
                     entry |-> None, result |-> None, listed |-> catalog[t],
                     deadline |-> T!CallTimeout(d.timeout),
                     watchdog |-> MaxTimeout + Slack]
      BY <2>2, <3>2 DEF T!Call, d
    <3> QED  BY <1>4, <3>1, <3>2, <3>3
  <2>3. CASE via = "client" /\ given \in Timeouts /\ given # None
    <3>1. given \in Int /\ T!Finite(given)
      BY <1>4, <2>3, Bounds DEF T!Finite
    <3>2. T!CallTimeout(given) = T!Clamp(given) /\ T!Watchdog(given) = T!Clamp(given) + Slack
      BY <3>1 DEF T!CallTimeout, T!Watchdog
    <3>3. T!Clamp(given) \in Int
      BY <3>1, Clamped
    <3>4. served' = [stage |-> "sent", tool |-> t, via |-> via, given |-> given, fetched |-> d,
                     entry |-> None, result |-> None, listed |-> catalog[t],
                     deadline |-> T!Clamp(given), watchdog |-> T!Clamp(given) + Slack]
      BY <2>3, <3>2 DEF T!Call, d
    <3> QED  BY <1>4, <2>3, <3>3, <3>4
  <2> QED  BY <2>1, <2>2, <2>3
<1> HIDE DEF d
<1>6. given \in Int \union {None} /\ via \in {"mcp", "client"}
  BY <1>4
<1>7. CallInv'
  BY <1>3, <1>5, <1>6 DEF CallInv
<1> QED  BY <1>2, <1>7

LEMMA ServingIInv ==
    ASSUME ShapeIInv, T!AppTakes \/ T!Answer \/ T!Forget
    PROVE  ShapeIInv'
<1> USE DEF ShapeIInv
<1>1. UNCHANGED <<build, entries, refused, descriptors, warnedAbout, hinted, remembered, printed,
                  catalog>>
  BY DEF T!AppTakes, T!Answer, T!Forget
<1>2. ShapeTyped' /\ Told' /\ T!OddTimeoutIsHarmless' /\ Printed'
  BY <1>1 DEF ShapeTyped, Told, T!OddTimeoutIsHarmless, Printed, T!IsInjective
<1>3. CASE T!AppTakes
  <2>1. CASE entries[served.tool] = None
    BY <1>2, <1>3, <2>1 DEF T!AppTakes, CallInv
  <2>2. CASE entries[served.tool] # None
    <3>1. served' = [served EXCEPT !.stage = "taken", !.entry = entries[served.tool]]
          /\ served # T!Idle
      BY <1>3, <2>2 DEF T!AppTakes
    <3>2. entries[served.tool] \in Definitions
      BY <2>2, <3>1 DEF ShapeTyped, CallInv
    <3>3. CallInv'
      BY <2>2, <3>1, <3>2 DEF CallInv
    <3> QED  BY <1>2, <3>3
  <2> QED  BY <1>2, <2>1, <2>2
<1>4. CASE T!Answer
  <2>1. served # T!Idle
    BY <1>4 DEF T!Answer
  <2>2. PICK result \in {"input_error", "output_error", "structured", "text", "mcp_output_error"} :
          /\ served' = [served EXCEPT !.stage = "over", !.result = result]
          /\ served.via = "mcp" => /\ result = "text" => ~T!Emits(served.fetched.output)
                                   /\ result = "mcp_output_error" => T!Emits(served.fetched.output)
    <3>1. CASE served' = [served EXCEPT !.stage = "over", !.result = "input_error"]
      BY <3>1
    <3>2. ASSUME NEW made, served' = [served EXCEPT !.stage = "over", !.result = T!Outcome(made)]
          PROVE  \E result \in {"input_error", "output_error", "structured", "text", "mcp_output_error"} :
                   /\ served' = [served EXCEPT !.stage = "over", !.result = result]
                   /\ served.via = "mcp" =>
                        /\ result = "text" => ~T!Emits(served.fetched.output)
                        /\ result = "mcp_output_error" => T!Emits(served.fetched.output)
      <4>1. /\ T!Outcome(made) \in {"output_error", "structured", "text", "mcp_output_error"}
            /\ served.via = "mcp" =>
                 /\ T!Outcome(made) = "text" => ~T!Emits(served.fetched.output)
                 /\ T!Outcome(made) = "mcp_output_error" => T!Emits(served.fetched.output)
        BY DEF T!Outcome
      <4> QED  BY <3>2, <4>1
    <3> QED  BY <1>4, <3>1, <3>2 DEF T!Answer
  <2> QED  BY <1>2, <2>1, <2>2 DEF CallInv
<1>5. CASE T!Forget
  BY <1>2, <1>5 DEF T!Forget, CallInv
<1> QED  BY <1>3, <1>4, <1>5

LEMMA ShapeStep == ShapeIInv /\ [T!ShapeNext]_T!shapeVars => ShapeIInv'
<1> SUFFICES ASSUME ShapeIInv, [T!ShapeNext]_T!shapeVars PROVE ShapeIInv'
  OBVIOUS
<1>1. ASSUME NEW t \in Tools, NEW d \in Definitions, T!RegisterThrows(t, d)
      PROVE  ShapeIInv'
  BY <1>1 DEF T!RegisterThrows, ShapeIInv, ShapeTyped, Told, T!OddTimeoutIsHarmless, Printed, CallInv,
              T!IsInjective
<1>2. CASE UNCHANGED T!shapeVars
  BY <1>2 DEF T!shapeVars, ShapeIInv, ShapeTyped, Told, T!OddTimeoutIsHarmless, Printed, CallInv,
              T!IsInjective
<1>3. ASSUME NEW t \in Tools, T!Call(t, "mcp", None)
      PROVE  ShapeIInv'
  BY <1>3, CallIInv
<1>4. ASSUME NEW t \in Tools, NEW timeout \in Timeouts \union {None}, T!Call(t, "client", timeout)
      PROVE  ShapeIInv'
  BY <1>4, CallIInv
<1> QED  BY <1>1, <1>2, <1>3, <1>4, RegisterIInv, UnregisterIInv, ListToolIInv, ServingIInv
         DEF T!ShapeNext

LEMMA ShapeIInvSound == ShapeIInv => T!ShapesSound
<1> SUFFICES ASSUME ShapeIInv PROVE T!ShapesSound
  OBVIOUS
<1> USE DEF ShapeIInv
<1>1. ASSUME NEW t \in Tools, entries[t] # None
      PROVE  descriptors[t] = T!Descriptor(entries[t]) /\ descriptors[t] # None
             /\ entries[t] \in Definitions
  <2>1. entries[t] \in Definitions
    BY <1>1 DEF ShapeTyped
  <2> QED  BY <1>1, <2>1, Described DEF ShapeTyped
<1>2. T!ShapeTypeOK
  BY <1>1 DEF T!ShapeTypeOK, ShapeTyped
<1>3. T!TroubleIsTold
  <2> SUFFICES ASSUME NEW t \in Tools, NEW s \in T!Slots, entries[t] # None
               PROVE  /\ entries[t][s] # None /\ descriptors[t][s] = None =>
                           /\ build = "release" /\ <<t, s>> \in warnedAbout
                           /\ entries[t][s].form \in {"standard", "converter"}
                      /\ descriptors[t][s] = "other" => <<t, s>> \in hinted
    BY DEF T!TroubleIsTold, ShapeTyped
  <2>1. descriptors[t][s] = T!Export(entries[t][s])
    <3>1. descriptors[t] = T!Descriptor(entries[t])
      BY <1>1
    <3>2. CASE s = "input"
      BY <3>1, <3>2 DEF T!Descriptor
    <3>3. CASE s = "output"
      BY <3>1, <3>3 DEF T!Descriptor
    <3> QED  BY <3>2, <3>3 DEF T!Slots
  <2>2. /\ entries[t][s] # None => T!Classifies(entries[t][s])
        /\ build = "dev" => T!Shapeless(entries[t]) = {}
        /\ {t} \X T!Shapeless(entries[t]) \subseteq warnedAbout
        /\ {t} \X T!NotObjects(entries[t]) \subseteq hinted
    BY DEF Told
  <2>3. ASSUME entries[t][s] # None, descriptors[t][s] = None
        PROVE  /\ build = "release" /\ <<t, s>> \in warnedAbout
               /\ entries[t][s].form \in {"standard", "converter"}
    <3>1. s \in T!Shapeless(entries[t])
      BY <2>1, <2>3 DEF T!Shapeless
    <3>2. None \notin T!PlainSchemas
      BY AgentToolsConstants, Zenon DEF T!ToolShapeConstants
    <3>3. entries[t][s].gives \notin T!PlainSchemas
      BY <2>1, <2>3, <3>2 DEF T!Export
    <3> QED  BY <2>2, <2>3, <3>1, <3>3 DEF T!Classifies, ShapeTyped
  <2>4. ASSUME descriptors[t][s] = "other"
        PROVE  <<t, s>> \in hinted
    <3>1. s \in T!NotObjects(entries[t])
      BY <2>1, <2>4 DEF T!NotObjects, T!PlainSchemas
    <3> QED  BY <2>2, <3>1
  <2> QED  BY <2>3, <2>4
<1>4. ASSUME NEW l \in Listing
      PROVE  \E d \in Descriptors : l.of = d /\ l.shown = T!Mapped(d)
  BY DEF Listing
<1>5. T!DegradedIsTold
  <2> SUFFICES ASSUME NEW t \in Tools, NEW s \in T!Slots,
                      catalog[t] # None, catalog[t].shown[s] # catalog[t].of[s]
               PROVE  <<t, s, catalog[t].of[s]>> \in printed
    BY DEF T!DegradedIsTold
  <2>1. catalog[t] \in Listing
    BY DEF ShapeTyped
  <2>2. T!Rejected(catalog[t].of[s])
    <3>1. PICK d \in Descriptors : catalog[t].of = d /\ catalog[t].shown = T!Mapped(d)
      BY <1>4, <2>1
    <3>2. CASE s = "input"
      BY <3>1, <3>2 DEF T!Mapped
    <3>3. CASE s = "output"
      BY <3>1, <3>3 DEF T!Mapped
    <3> QED  BY <3>2, <3>3 DEF T!Slots
  <2> QED  BY <2>2 DEF Printed
<1>6. T!ResultFitsListing
  <2> SUFFICES ASSUME served # T!Idle, served.stage = "over", served.via = "mcp",
                      served.listed # None, served.listed.of = served.fetched
               PROVE  /\ served.result = "text" => served.listed.shown.output = None
                      /\ served.result = "mcp_output_error" => served.listed.shown.output # None
    BY DEF T!ResultFitsListing
  <2>1. served.listed \in Listing
    BY DEF CallInv
  <2>2. served.listed.shown = T!Mapped(served.fetched)
    BY <1>4, <2>1
  <2> QED  BY <2>2 DEF CallInv, T!Mapped, T!Emits
<1>7. T!OneDeadline
  BY DEF T!OneDeadline, CallInv, T!AppTimer
<1> QED  BY <1>2, <1>3, <1>5, <1>6, <1>7 DEF T!ShapesSound

\* No odd timeout costs an app its session, what is dropped of a schema on its way to the agent
\* is told to who can act on it, and app, daemon and agent agree on deadline and result
\* (schema.ts, tool-descriptor.ts, tool-mapping.ts, tool-invoker.ts), of the part alone.
THEOREM ShapeSpecSound == T!ShapeSpec => []T!ShapesSound
<1> QED  BY ShapeInitIInv, ShapeStep, ShapeIInvSound, PTL DEF T!ShapeSpec

\* And as the run has it, next to the MCP server.
THEOREM SpecShapesSound == Spec => []ShapesSound
<1>1. Init => ShapeIInv
  BY ShapeInitIInv DEF Init
<1>2. ShapeIInv /\ [Next]_vars => ShapeIInv'
  <2> SUFFICES ASSUME ShapeIInv, [Next]_vars PROVE ShapeIInv'
    OBVIOUS
  <2>1. [T!ShapeNext]_T!shapeVars
    BY DEF Next, vars, shapeVars, T!shapeVars
  <2> QED  BY <2>1, ShapeStep
<1>3. ShapeIInv => ShapesSound
  BY ShapeIInvSound DEF ShapesSound
<1> QED  BY <1>1, <1>2, <1>3, PTL DEF Spec

-------------------------------------------------------------------------------
(***************************************************************************)
(* The listing and the calls of the MCP server.                            *)
(***************************************************************************)
Names == Aliases \union {Bare}
ToolRecords == [selector : Aliases, tool : M!Descriptors \union {NoTool}]
JobRecords ==
    [doing : {"nothing", "refresh", "list", "call"},
     step : {"idle", "sessions", "tools", "human", "result", "done", "late"},
     listed : Seq(Aliases), fetched : Seq(ToolRecords), wanted : Names]
Requests ==
    [job : Jobs, asks : {"sessions", "tools", "call"}, of : Names,
     consent : {"none", "client", "elicitation"}, shown : SUBSET Aliases]
AnswerRecords ==
    [says : {"sessions"}, job : Jobs, aliases : Seq(Aliases)]
    \union [says : {"tools"}, job : Jobs, tools : ToolRecords]
    \union [says : {"result"}, job : Jobs]

Elems(q) == {q[i] : i \in 1..Len(q)}

DaemonTyped ==
    /\ live \in Seq(Aliases) /\ M!IsInjective(live)
    /\ tool \in [Aliases -> M!Descriptors \union {NoTool}]
    /\ \A a \in Aliases : a \notin M!LiveSet => tool[a] = NoTool
    /\ suspended \subseteq M!LiveSet
    /\ changes \in 0..MaxChanges

WireTyped ==
    /\ requests \in Seq(Requests)
    /\ replies \in Seq(AnswerRecords \union {M!Event})
    /\ open \in BOOLEAN

ServerTyped ==
    /\ jobs \in [Jobs -> JobRecords]
    /\ woken \in Seq(Jobs) /\ reading \in BOOLEAN
    /\ older \in [Jobs -> SUBSET M!Refreshing] /\ overtaken \subseteq M!Refreshing
    /\ keyBehind \in BOOLEAN
    /\ lastKey \in Seq(SUBSET M!Entry) /\ Len(lastKey) <= 1

AgentTyped ==
    /\ channel \in M!Channels
    /\ listing \in Seq(SUBSET M!Entry) /\ Len(listing) <= 1
    /\ notified \in BOOLEAN
    /\ emitted = IF listing = M!NoListing THEN {} ELSE M!Flagged(listing[1])

\* What is fetched is of the sessions that were listed, one after the other, and what a job
\* waits for is what its step says, unless it was given up.
JobFits(b) ==
    /\ b.step = "idle" => b = M!Idle
    /\ b.step = "late" => b = M!Late
    /\ b.doing = "refresh" => b.step \in {"sessions", "tools"}
    /\ b.step = "sessions" => b.fetched = <<>>
    /\ Len(b.fetched) <= Len(b.listed)
    /\ \A k \in 1..Len(b.fetched) : b.fetched[k].selector = b.listed[k]
RequestFits(r, b) ==
    /\ b.step # "late" =>
         /\ r.asks = "sessions" => b.step = "sessions" /\ b.listed = <<>>
         /\ r.asks = "tools" => /\ b.step = "tools" /\ Len(b.fetched) < Len(b.listed)
                                /\ r.of = b.listed[Len(b.fetched) + 1]
         /\ r.asks = "call" => b.step = "result"
    /\ r.asks = "tools" => r.of \in Aliases
    /\ r.consent # "none" => r.asks = "call" /\ r.shown # {}
ReplyFits(m, b) ==
    b.step # "late" =>
    /\ m.says = "sessions" => b.step = "sessions" /\ b.listed = <<>>
    /\ m.says = "tools" => /\ b.step = "tools" /\ Len(b.fetched) < Len(b.listed)
                           /\ m.tools.selector = b.listed[Len(b.fetched) + 1]
    /\ m.says = "result" => b.step = "result"

MessagesFit ==
    /\ \A j \in Jobs : JobFits(jobs[j])
    /\ \A r \in Elems(requests) : RequestFits(r, jobs[r.job])
    /\ \A m \in Elems(replies) \ {M!Event} : ReplyFits(m, jobs[m.job])
    /\ \A j \in Elems(woken) : jobs[j].step \in {"sessions", "tools", "done"}

\* A refresh that has seen nothing but what the daemon still has.
Fresh(last) ==
    /\ \A m \in Elems(replies) \ {M!Event} : m.job = last =>
         /\ m.says = "sessions" => m.aliases = live
         /\ m.says = "tools" => m.tools = M!ToolsOf(m.tools.selector)
    /\ jobs[last].step = "tools" \/ last \in Elems(woken) => jobs[last].listed = live
    /\ \A k \in 1..Len(jobs[last].fetched) :
         jobs[last].fetched[k] = M!ToolsOf(jobs[last].fetched[k].selector)

Youngest(last) ==
    \A k \in M!Refreshing \ {last} : k \in older[last] /\ last \notin older[k]

\* With no change unread, the youngest refresh will find what the daemon has, or it is over
\* and was the last one but for those it overtook.
Followed ==
    open /\ M!Event \notin Elems(replies) =>
        \/ \E last \in M!Refreshing \ overtaken : Youngest(last) /\ Fresh(last)
        \/ M!Refreshing \subseteq overtaken /\ (keyBehind \/ lastKey = <<M!Current>>)

OneAnswerEach ==
    \A j \in Jobs : M!InFlight(j) = IF jobs[j].step \in {"idle", "human"} THEN 0 ELSE 1

McpIInv ==
    /\ DaemonTyped /\ WireTyped /\ ServerTyped /\ AgentTyped
    /\ MessagesFit /\ OneAnswerEach /\ Followed
    /\ M!GateBeforeRun

-------------------------------------------------------------------------------
(***************************************************************************)
(* Counting messages.                                                      *)
(***************************************************************************)
Positions(q, P) == {i \in 1..Len(q) : q[i] \in P}
Count(q, P) == Cardinality(Positions(q, P))

LEMMA CountNat ==
    ASSUME NEW X, NEW q \in Seq(X), NEW P
    PROVE  /\ IsFiniteSet(Positions(q, P))
           /\ Count(q, P) \in Nat
           /\ Count(q, P) = 0 => \A i \in 1..Len(q) : q[i] \notin P
<1>1. Len(q) \in Nat
  OBVIOUS
<1>2. IsFiniteSet(1..Len(q)) /\ Positions(q, P) \in SUBSET (1..Len(q))
  BY <1>1, FS_Interval DEF Positions
<1>3. IsFiniteSet(Positions(q, P))
  BY <1>2, FS_Subset
<1>4. Count(q, P) \in Nat /\ (Count(q, P) = 0 => Positions(q, P) = {})
  BY <1>3, FS_CardinalityType, FS_EmptySet DEF Count
<1> QED  BY <1>3, <1>4 DEF Positions

LEMMA CountAppend ==
    ASSUME NEW X, NEW q \in Seq(X), NEW e \in X, NEW P
    PROVE  Count(Append(q, e), P) = Count(q, P) + (IF e \in P THEN 1 ELSE 0)
<1> DEFINE r == Append(q, e)
<1>1. /\ Len(q) \in Nat /\ Len(r) = Len(q) + 1
      /\ \A i \in 1..Len(q) : r[i] = q[i]
      /\ r[Len(q) + 1] = e
  OBVIOUS
<1>2. IsFiniteSet(Positions(q, P)) /\ Cardinality(Positions(q, P)) \in Nat
  BY CountNat DEF Count
<1> HIDE DEF r
<1>3. CASE e \in P
  <2>1. Positions(r, P) = Positions(q, P) \union {Len(q) + 1}
    BY <1>1, <1>3 DEF Positions
  <2>2. Len(q) + 1 \notin Positions(q, P)
    BY <1>1 DEF Positions
  <2>3. Cardinality(Positions(q, P) \union {Len(q) + 1}) = Cardinality(Positions(q, P)) + 1
    BY <1>2, <2>2, FS_AddElement
  <2> QED  BY <1>3, <2>1, <2>3 DEF Count, r
<1>4. CASE e \notin P
  <2>1. Positions(r, P) = Positions(q, P)
    BY <1>1, <1>4 DEF Positions
  <2> QED  BY <1>2, <1>4, <2>1 DEF Count, r
<1> QED  BY <1>3, <1>4

LEMMA CountTail ==
    ASSUME NEW X, NEW q \in Seq(X), q # <<>>, NEW P
    PROVE  Count(q, P) = Count(Tail(q), P) + (IF Head(q) \in P THEN 1 ELSE 0)
<1> DEFINE t == Tail(q)
           late == {i \in 2..Len(q) : q[i] \in P}
           shift == [i \in Positions(t, P) |-> i + 1]
<1>1. /\ Len(q) \in Nat /\ Len(q) > 0 /\ Len(t) = Len(q) - 1 /\ Head(q) = q[1]
      /\ \A i \in 1..Len(t) : t[i] = q[i + 1]
      /\ t \in Seq(X)
  OBVIOUS
<1> HIDE DEF t
<1>2. IsFiniteSet(Positions(t, P)) /\ Cardinality(Positions(t, P)) \in Nat
  BY <1>1, CountNat DEF Count
<1>3. shift \in Bijection(Positions(t, P), late)
  <2>1. shift \in [Positions(t, P) -> late]
    BY <1>1 DEF Positions
  <2>2. \A i, j \in Positions(t, P) : shift[i] = shift[j] => i = j
    BY <1>1 DEF Positions
  <2>3. \A i \in late : i - 1 \in Positions(t, P) /\ shift[i - 1] = i
    BY <1>1 DEF Positions
  <2> HIDE DEF shift, late
  <2> QED  BY <2>1, <2>2, <2>3, Zenon DEF Bijection, Injection, Surjection, IsInjective
<1>4. IsFiniteSet(late) /\ Cardinality(late) = Cardinality(Positions(t, P))
  BY <1>2, <1>3, FS_Bijection DEF ExistsBijection
<1>5. CASE Head(q) \in P
  <2>1. Positions(q, P) = late \union {1} /\ 1 \notin late
    BY <1>1, <1>5 DEF Positions
  <2> HIDE DEF late
  <2>2. Cardinality(late \union {1}) = Cardinality(late) + 1
    BY <1>4, <2>1, FS_AddElement
  <2> QED  BY <1>4, <1>5, <2>1, <2>2 DEF Count, t
<1>6. CASE Head(q) \notin P
  <2>1. Positions(q, P) = late
    BY <1>1, <1>6 DEF Positions
  <2> HIDE DEF late
  <2> QED  BY <1>2, <1>4, <1>6, <2>1 DEF Count, t
<1> QED  BY <1>5, <1>6

Replies == AnswerRecords \union {M!Event}
AskedBy(j) == {r \in Requests : r.job = j}
AnswersTo(j) == {m \in AnswerRecords : m.job = j}
Flying(rq, rp, wk, j) == Count(rq, AskedBy(j)) + Count(rp, AnswersTo(j)) + Count(wk, {j})
NoneOf(rq, rp, wk, j) ==
    /\ \A r \in Elems(rq) : r.job # j
    /\ \A m \in Elems(rp) \ {M!Event} : m.job # j
    /\ j \notin Elems(wk)

LEMMA EventIsNoAnswer == M!Event \notin AnswerRecords
  BY DEF M!Event, AnswerRecords

LEMMA FlyingIs ==
    ASSUME NEW rq \in Seq(Requests), NEW rp \in Seq(Replies), NEW wk \in Seq(Jobs), NEW j \in Jobs
    PROVE  /\ M!Cardinality({i \in 1..Len(rq) : rq[i].job = j})
              + M!Cardinality({i \in 1..Len(rp) : rp[i] # M!Event /\ rp[i].job = j})
              + M!Cardinality({i \in 1..Len(wk) : wk[i] = j})
                = Flying(rq, rp, wk, j)
           /\ Flying(rq, rp, wk, j) \in Nat
           /\ Flying(rq, rp, wk, j) = 0 => NoneOf(rq, rp, wk, j)
<1>1. {i \in 1..Len(rq) : rq[i].job = j} = Positions(rq, AskedBy(j))
  BY DEF Positions, AskedBy
<1>2. {i \in 1..Len(rp) : rp[i] # M!Event /\ rp[i].job = j} = Positions(rp, AnswersTo(j))
  BY EventIsNoAnswer DEF Positions, AnswersTo, Replies
<1>3. {i \in 1..Len(wk) : wk[i] = j} = Positions(wk, {j})
  BY DEF Positions
<1>4. \A S : M!Cardinality(S) = Cardinality(S)
  BY DEF M!Cardinality, Cardinality
<1>5. /\ Count(rq, AskedBy(j)) \in Nat /\ Count(rp, AnswersTo(j)) \in Nat /\ Count(wk, {j}) \in Nat
      /\ Count(rq, AskedBy(j)) = 0 => \A i \in 1..Len(rq) : rq[i] \notin AskedBy(j)
      /\ Count(rp, AnswersTo(j)) = 0 => \A i \in 1..Len(rp) : rp[i] \notin AnswersTo(j)
      /\ Count(wk, {j}) = 0 => \A i \in 1..Len(wk) : wk[i] \notin {j}
  BY CountNat
<1>6. Flying(rq, rp, wk, j) \in Nat
  BY <1>5 DEF Flying
<1>7. ASSUME Flying(rq, rp, wk, j) = 0 PROVE NoneOf(rq, rp, wk, j)
  <2>1. Count(rq, AskedBy(j)) = 0 /\ Count(rp, AnswersTo(j)) = 0 /\ Count(wk, {j}) = 0
    BY <1>5, <1>7 DEF Flying
  <2>2. /\ \A i \in 1..Len(rq) : rq[i] \in Requests
        /\ \A i \in 1..Len(rp) : rp[i] \in Replies
    OBVIOUS
  <2> QED  BY <1>5, <2>1, <2>2 DEF NoneOf, AskedBy, AnswersTo, Replies, Elems
<1> QED  BY <1>1, <1>2, <1>3, <1>4, <1>6, <1>7 DEF Flying, Count

LEMMA FlyingMoves ==
    ASSUME NEW rq \in Seq(Requests), NEW rp \in Seq(Replies), NEW wk \in Seq(Jobs), NEW j \in Jobs,
           NEW r \in Requests, NEW a \in Replies, NEW k \in Jobs
    PROVE  /\ Flying(Append(rq, r), rp, wk, j)
                = Flying(rq, rp, wk, j) + (IF r.job = j THEN 1 ELSE 0)
           /\ Flying(rq, Append(rp, a), wk, j)
                = Flying(rq, rp, wk, j) + (IF a # M!Event /\ a.job = j THEN 1 ELSE 0)
           /\ Flying(rq, rp, Append(wk, k), j)
                = Flying(rq, rp, wk, j) + (IF k = j THEN 1 ELSE 0)
           /\ rq # <<>> => Flying(rq, rp, wk, j)
                = Flying(Tail(rq), rp, wk, j) + (IF Head(rq).job = j THEN 1 ELSE 0)
           /\ rp # <<>> => Flying(rq, rp, wk, j)
                = Flying(rq, Tail(rp), wk, j)
                  + (IF Head(rp) # M!Event /\ Head(rp).job = j THEN 1 ELSE 0)
           /\ wk # <<>> => Flying(rq, rp, wk, j)
                = Flying(rq, rp, Tail(wk), j) + (IF Head(wk) = j THEN 1 ELSE 0)
<1>1. /\ Count(rq, AskedBy(j)) \in Nat /\ Count(rp, AnswersTo(j)) \in Nat /\ Count(wk, {j}) \in Nat
  BY CountNat
<1>2. Count(Append(rq, r), AskedBy(j)) = Count(rq, AskedBy(j)) + (IF r.job = j THEN 1 ELSE 0)
  <2>1. r \in AskedBy(j) <=> r.job = j
    BY DEF AskedBy
  <2> QED  BY <2>1, CountAppend
<1>3. Count(Append(rp, a), AnswersTo(j))
        = Count(rp, AnswersTo(j)) + (IF a # M!Event /\ a.job = j THEN 1 ELSE 0)
  <2>1. a \in AnswersTo(j) <=> a # M!Event /\ a.job = j
    BY EventIsNoAnswer DEF AnswersTo, Replies
  <2> QED  BY <2>1, CountAppend
<1>4. Count(Append(wk, k), {j}) = Count(wk, {j}) + (IF k = j THEN 1 ELSE 0)
  <2>1. k \in {j} <=> k = j
    OBVIOUS
  <2> QED  BY <2>1, CountAppend
<1>5. ASSUME rq # <<>>
      PROVE  /\ Count(rq, AskedBy(j)) = Count(Tail(rq), AskedBy(j)) + (IF Head(rq).job = j THEN 1 ELSE 0)
             /\ Count(Tail(rq), AskedBy(j)) \in Nat
  <2>1. Head(rq) \in Requests /\ Tail(rq) \in Seq(Requests)
    BY <1>5
  <2>2. Head(rq) \in AskedBy(j) <=> Head(rq).job = j
    BY <2>1 DEF AskedBy
  <2>3. Count(rq, AskedBy(j)) = Count(Tail(rq), AskedBy(j)) + (IF Head(rq) \in AskedBy(j) THEN 1 ELSE 0)
    BY <1>5, CountTail
  <2> QED  BY <2>1, <2>2, <2>3, CountNat
<1>6. ASSUME rp # <<>>
      PROVE  /\ Count(rp, AnswersTo(j)) = Count(Tail(rp), AnswersTo(j))
                  + (IF Head(rp) # M!Event /\ Head(rp).job = j THEN 1 ELSE 0)
             /\ Count(Tail(rp), AnswersTo(j)) \in Nat
  <2>1. Head(rp) \in Replies /\ Tail(rp) \in Seq(Replies)
    BY <1>6
  <2>2. Head(rp) \in AnswersTo(j) <=> Head(rp) # M!Event /\ Head(rp).job = j
    BY <2>1, EventIsNoAnswer DEF AnswersTo, Replies
  <2>3. Count(rp, AnswersTo(j)) = Count(Tail(rp), AnswersTo(j)) + (IF Head(rp) \in AnswersTo(j) THEN 1 ELSE 0)
    BY <1>6, CountTail
  <2> QED  BY <2>1, <2>2, <2>3, CountNat
<1>7. ASSUME wk # <<>>
      PROVE  /\ Count(wk, {j}) = Count(Tail(wk), {j}) + (IF Head(wk) = j THEN 1 ELSE 0)
             /\ Count(Tail(wk), {j}) \in Nat
  <2>1. Tail(wk) \in Seq(Jobs)
    BY <1>7
  <2>2. Head(wk) \in {j} <=> Head(wk) = j
    OBVIOUS
  <2>3. Count(wk, {j}) = Count(Tail(wk), {j}) + (IF Head(wk) \in {j} THEN 1 ELSE 0)
    BY <1>7, CountTail
  <2> QED  BY <2>1, <2>2, <2>3, CountNat
<1> DEFINE nr == Count(rq, AskedBy(j))
           np == Count(rp, AnswersTo(j))
           nw == Count(wk, {j})
           nr1 == Count(Tail(rq), AskedBy(j))
           np1 == Count(Tail(rp), AnswersTo(j))
           nw1 == Count(Tail(wk), {j})
<1>8. PICK d1 \in 0..1, d2 \in 0..1, d3 \in 0..1, d4 \in 0..1, d5 \in 0..1, d6 \in 0..1 :
        /\ d1 = (IF r.job = j THEN 1 ELSE 0)
        /\ d2 = (IF a # M!Event /\ a.job = j THEN 1 ELSE 0)
        /\ d3 = (IF k = j THEN 1 ELSE 0)
        /\ d4 = (IF Head(rq).job = j THEN 1 ELSE 0)
        /\ d5 = (IF Head(rp) # M!Event /\ Head(rp).job = j THEN 1 ELSE 0)
        /\ d6 = (IF Head(wk) = j THEN 1 ELSE 0)
  OBVIOUS
<1>9. /\ nr \in Nat /\ np \in Nat /\ nw \in Nat
      /\ Count(Append(rq, r), AskedBy(j)) = nr + d1
      /\ Count(Append(rp, a), AnswersTo(j)) = np + d2
      /\ Count(Append(wk, k), {j}) = nw + d3
      /\ rq # <<>> => nr = nr1 + d4 /\ nr1 \in Nat
      /\ rp # <<>> => np = np1 + d5 /\ np1 \in Nat
      /\ wk # <<>> => nw = nw1 + d6 /\ nw1 \in Nat
  BY <1>1, <1>2, <1>3, <1>4, <1>5, <1>6, <1>7, <1>8, Zenon
<1> SUFFICES
       /\ Count(Append(rq, r), AskedBy(j)) + np + nw = (nr + np + nw) + d1
       /\ nr + Count(Append(rp, a), AnswersTo(j)) + nw = (nr + np + nw) + d2
       /\ nr + np + Count(Append(wk, k), {j}) = (nr + np + nw) + d3
       /\ rq # <<>> => nr + np + nw = (nr1 + np + nw) + d4
       /\ rp # <<>> => nr + np + nw = (nr + np1 + nw) + d5
       /\ wk # <<>> => nr + np + nw = (nr + np + nw1) + d6
  BY <1>8, Zenon DEF Flying
<1> HIDE DEF nr, np, nw, nr1, np1, nw1
<1>10. Count(Append(rq, r), AskedBy(j)) + np + nw = (nr + np + nw) + d1
  BY <1>9
<1>11. nr + Count(Append(rp, a), AnswersTo(j)) + nw = (nr + np + nw) + d2
  BY <1>9
<1>12. nr + np + Count(Append(wk, k), {j}) = (nr + np + nw) + d3
  BY <1>9
<1>13. ASSUME rq # <<>> PROVE nr + np + nw = (nr1 + np + nw) + d4
  <2>1. nr = nr1 + d4 /\ nr1 \in Nat
    BY <1>9, <1>13, Zenon
  <2>2. nr \in Nat /\ np \in Nat /\ nw \in Nat
    BY <1>9, Zenon
  <2> QED  BY <2>1, <2>2
<1>14. ASSUME rp # <<>> PROVE nr + np + nw = (nr + np1 + nw) + d5
  <2>1. np = np1 + d5 /\ np1 \in Nat
    BY <1>9, <1>14, Zenon
  <2>2. nr \in Nat /\ np \in Nat /\ nw \in Nat
    BY <1>9, Zenon
  <2> QED  BY <2>1, <2>2
<1>15. ASSUME wk # <<>> PROVE nr + np + nw = (nr + np + nw1) + d6
  <2>1. nw = nw1 + d6 /\ nw1 \in Nat
    BY <1>9, <1>15, Zenon
  <2>2. nr \in Nat /\ np \in Nat /\ nw \in Nat
    BY <1>9, Zenon
  <2> QED  BY <2>1, <2>2
<1> QED  BY <1>10, <1>11, <1>12, <1>13, <1>14, <1>15, Zenon


LEMMA ElemsAppend ==
    ASSUME NEW X, NEW q \in Seq(X), NEW e \in X
    PROVE  /\ Append(q, e) \in Seq(X)
           /\ Elems(Append(q, e)) = Elems(q) \union {e}
<1>1. /\ Append(q, e) \in Seq(X) /\ Len(Append(q, e)) = Len(q) + 1 /\ Len(q) \in Nat
      /\ \A i \in 1..Len(q) : Append(q, e)[i] = q[i]
      /\ Append(q, e)[Len(q) + 1] = e
  OBVIOUS
<1>2. 1..Len(q) + 1 = (1..Len(q)) \union {Len(q) + 1}
  BY <1>1
<1> DEFINE r == Append(q, e)
<1> HIDE DEF r
<1>3. Elems(r) = {r[i] : i \in (1..Len(q)) \union {Len(q) + 1}}
  BY <1>1, <1>2 DEF Elems, r
<1> QED  BY <1>1, <1>3 DEF Elems, r

LEMMA ElemsTail ==
    ASSUME NEW X, NEW q \in Seq(X), q # <<>>
    PROVE  /\ Tail(q) \in Seq(X) /\ Head(q) \in X
           /\ Elems(q) = {Head(q)} \union Elems(Tail(q))
<1> DEFINE t == Tail(q)
<1>1. /\ t \in Seq(X) /\ Head(q) \in X /\ Head(q) = q[1]
      /\ Len(q) \in Nat \ {0} /\ Len(t) = Len(q) - 1
      /\ \A i \in 1..Len(t) : t[i] = q[i + 1]
  OBVIOUS
<1> HIDE DEF t
<1>2. ASSUME NEW e \in Elems(q) PROVE e \in {Head(q)} \union Elems(t)
  <2>1. PICK i \in 1..Len(q) : e = q[i]
    BY DEF Elems
  <2>2. CASE i = 1
    BY <1>1, <2>1, <2>2
  <2>3. CASE i # 1
    <3>1. i - 1 \in 1..Len(t) /\ t[i - 1] = q[(i - 1) + 1] /\ (i - 1) + 1 = i
      BY <1>1, <2>3
    <3> QED  BY <2>1, <3>1 DEF Elems
  <2> QED  BY <2>2, <2>3
<1>3. ASSUME NEW e \in {Head(q)} \union Elems(t) PROVE e \in Elems(q)
  <2>1. CASE e = Head(q)
    BY <1>1, <2>1 DEF Elems
  <2>2. CASE e \in Elems(t)
    <3>1. PICK i \in 1..Len(t) : e = t[i]
      BY <2>2 DEF Elems
    <3>2. i + 1 \in 1..Len(q)
      BY <1>1
    <3> QED  BY <1>1, <3>1, <3>2 DEF Elems
  <2> QED  BY <1>3, <2>1, <2>2
<1> QED  BY <1>1, <1>2, <1>3 DEF t

LEMMA ElemsTyped ==
    ASSUME NEW X, NEW q \in Seq(X)
    PROVE  Elems(q) \subseteq X
  BY DEF Elems

LEMMA NoElems == Elems(<<>>) = {}
  BY DEF Elems

-------------------------------------------------------------------------------
(***************************************************************************)
(* Listings.                                                               *)
(***************************************************************************)
LEMMA PolicyTyped ==
    ASSUME NEW a \in Aliases, NEW d
    PROVE  M!PolicyOf(a, d) \in M!Decisions
<1>1. /\ Override \in [Aliases -> M!Decisions \union {NoOverride}]
      /\ {PolicyDefault, PolicyDestructive} \subseteq M!Decisions
  BY AgentToolsConstants, Zenon DEF M!McpAssumption
<1> QED  BY <1>1 DEF M!PolicyOf

LEMMA NamespacedTyped ==
    ASSUME NEW fetched \in Seq(ToolRecords)
    PROVE  M!Namespaced(fetched) \in SUBSET M!Entry
<1> SUFFICES ASSUME NEW e \in M!Namespaced(fetched) PROVE e \in M!Entry
  OBVIOUS
<1>1. PICK i \in {k \in 1..Len(fetched) : fetched[k].tool # NoTool} :
        e = [name     |-> IF Len(fetched) > 1 THEN fetched[i].selector ELSE Bare,
             selector |-> fetched[i].selector,
             tool     |-> fetched[i].tool,
             policy   |-> M!PolicyOf(fetched[i].selector, fetched[i].tool)]
  BY DEF M!Namespaced
<1>2. fetched[i] \in ToolRecords /\ fetched[i].tool # NoTool
  BY <1>1
<1>3. M!PolicyOf(fetched[i].selector, fetched[i].tool) \in M!Decisions
  BY <1>2, PolicyTyped DEF ToolRecords
<1> QED  BY <1>1, <1>2, <1>3 DEF ToolRecords, M!Entry

LEMMA ToolsTyped ==
    ASSUME DaemonTyped, NEW a \in Aliases
    PROVE  M!ToolsOf(a) \in ToolRecords /\ M!ToolsOf(a).selector = a
  BY DEF DaemonTyped, M!ToolsOf, ToolRecords

LEMMA IdleTyped == M!Idle \in JobRecords /\ JobFits(M!Idle)
<1>1. <<>> \in Seq(Aliases) /\ <<>> \in Seq(ToolRecords) /\ Len(<<>>) = 0
  OBVIOUS
<1> QED  BY <1>1 DEF M!Idle, JobRecords, JobFits, Names

LEMMA StartedTyped ==
    ASSUME NEW doing \in {"refresh", "list", "call"}, NEW wanted \in Names
    PROVE  /\ M!Started(doing, wanted) \in JobRecords /\ JobFits(M!Started(doing, wanted))
           /\ M!Started(doing, wanted).doing = doing /\ M!Started(doing, wanted).step = "sessions"
           /\ M!Started(doing, wanted).listed = <<>> /\ M!Started(doing, wanted).fetched = <<>>
<1>1. <<>> \in Seq(Aliases) /\ <<>> \in Seq(ToolRecords) /\ Len(<<>>) = 0
  OBVIOUS
<1>2. /\ M!Started(doing, wanted) \in
             [doing : {"refresh", "list", "call"}, step : {"sessions"}, listed : {<<>>},
              fetched : {<<>>}, wanted : Names]
      /\ M!Started(doing, wanted).doing = doing
  BY DEF M!Started, M!Idle
<1>3. M!Started(doing, wanted) \in JobRecords
  BY <1>1, <1>2 DEF JobRecords
<1> QED  BY <1>1, <1>2, <1>3 DEF JobFits

LEMMA AskTyped ==
    ASSUME NEW j \in Jobs
    PROVE  /\ M!AskSessions(j) \in Requests /\ M!AskSessions(j).job = j
           /\ M!AskSessions(j).asks = "sessions" /\ M!AskSessions(j).consent = "none"
  BY DEF M!AskSessions, M!Asks, Requests, Names

LEMMA AtNext ==
    ASSUME NEW X, NEW q \in Seq(X), NEW Y, NEW p \in Seq(Y), Len(p) < Len(q)
    PROVE  /\ Len(p) \in Nat /\ Len(q) \in Nat
           /\ Len(p) + 1 \in 1..Len(q) /\ q[Len(p) + 1] \in X
<1>1. Len(p) \in Nat /\ Len(q) \in Nat
  OBVIOUS
<1>2. Len(p) + 1 \in 1..Len(q)
  BY <1>1
<1> QED  BY <1>1, <1>2

LEMMA FlyingTails ==
    ASSUME NEW rq \in Seq(Requests), NEW rp \in Seq(Replies), NEW wk \in Seq(Jobs), NEW j \in Jobs
    PROVE  /\ rq # <<>> => Flying(rq, rp, wk, j)
                = Flying(Tail(rq), rp, wk, j) + (IF Head(rq).job = j THEN 1 ELSE 0)
           /\ rp # <<>> => Flying(rq, rp, wk, j)
                = Flying(rq, Tail(rp), wk, j)
                  + (IF Head(rp) # M!Event /\ Head(rp).job = j THEN 1 ELSE 0)
           /\ wk # <<>> => Flying(rq, rp, wk, j)
                = Flying(rq, rp, Tail(wk), j) + (IF Head(wk) = j THEN 1 ELSE 0)
<1>1. M!AskSessions(j) \in Requests /\ M!Event \in Replies
  BY AskTyped DEF Replies
<1>2. PICK r \in Requests, a \in Replies : TRUE
  BY <1>1
<1>3. \A k \in Jobs :
        /\ rq # <<>> => Flying(rq, rp, wk, j)
             = Flying(Tail(rq), rp, wk, j) + (IF Head(rq).job = j THEN 1 ELSE 0)
        /\ rp # <<>> => Flying(rq, rp, wk, j)
             = Flying(rq, Tail(rp), wk, j)
               + (IF Head(rp) # M!Event /\ Head(rp).job = j THEN 1 ELSE 0)
        /\ wk # <<>> => Flying(rq, rp, wk, j)
             = Flying(rq, rp, Tail(wk), j) + (IF Head(wk) = j THEN 1 ELSE 0)
  BY <1>2, FlyingMoves
<1> QED  BY <1>3

LEMMA FlyingAsked ==
    ASSUME NEW rq \in Seq(Requests), NEW rp \in Seq(Replies), NEW wk \in Seq(Jobs), NEW j \in Jobs,
           NEW r \in Requests
    PROVE  Flying(Append(rq, r), rp, wk, j)
             = Flying(rq, rp, wk, j) + (IF r.job = j THEN 1 ELSE 0)
<1>1. M!AskSessions(j) \in Requests /\ M!Event \in Replies
  BY AskTyped DEF Replies
<1>2. PICK a \in Replies : TRUE
  BY <1>1
<1> QED  BY <1>2, FlyingMoves

LEMMA FlyingAnswered ==
    ASSUME NEW rq \in Seq(Requests), NEW rp \in Seq(Replies), NEW wk \in Seq(Jobs), NEW j \in Jobs,
           NEW a \in Replies
    PROVE  Flying(rq, Append(rp, a), wk, j)
             = Flying(rq, rp, wk, j) + (IF a # M!Event /\ a.job = j THEN 1 ELSE 0)
<1>1. M!AskSessions(j) \in Requests /\ M!Event \in Replies
  BY AskTyped DEF Replies
<1>2. PICK r \in Requests : TRUE
  BY <1>1
<1> QED  BY <1>2, FlyingMoves

LEMMA FlyingWoken ==
    ASSUME NEW rq \in Seq(Requests), NEW rp \in Seq(Replies), NEW wk \in Seq(Jobs), NEW j \in Jobs,
           NEW k \in Jobs
    PROVE  Flying(rq, rp, Append(wk, k), j)
             = Flying(rq, rp, wk, j) + (IF k = j THEN 1 ELSE 0)
<1>1. M!AskSessions(j) \in Requests /\ M!Event \in Replies
  BY AskTyped DEF Replies
<1>2. PICK r \in Requests, a \in Replies : TRUE
  BY <1>1
<1> QED  BY <1>2, FlyingMoves

-------------------------------------------------------------------------------
(***************************************************************************)
(* One job moves on.                                                       *)
(***************************************************************************)
LEMMA Moved ==
    ASSUME WireTyped, ServerTyped, MessagesFit, NEW j \in Jobs, NEW b \in JobRecords, JobFits(b),
           jobs' = [jobs EXCEPT ![j] = b],
           WireTyped', woken' \in Seq(Jobs),
           \A r \in Elems(requests') :
             IF r.job = j THEN RequestFits(r, b) ELSE r \in Elems(requests),
           \A m \in Elems(replies') \ {M!Event} :
             IF m.job = j THEN ReplyFits(m, b) ELSE m \in Elems(replies),
           \A k \in Elems(woken') :
             IF k = j THEN b.step \in {"sessions", "tools", "done"} ELSE k \in Elems(woken)
    PROVE  MessagesFit'
<1>1. \A k \in Jobs : jobs'[k] = IF k = j THEN b ELSE jobs[k]
  BY DEF ServerTyped
<1>2. \A r \in Elems(requests') : r.job \in Jobs
  <2>1. Elems(requests') \subseteq Requests
    BY ElemsTyped DEF WireTyped
  <2> QED  BY <2>1 DEF Requests
<1>3. \A m \in Elems(replies') \ {M!Event} : m.job \in Jobs
  <2>1. Elems(replies') \subseteq AnswerRecords \union {M!Event}
    BY ElemsTyped DEF WireTyped
  <2> QED  BY <2>1 DEF AnswerRecords
<1>4. Elems(woken') \subseteq Jobs
  BY ElemsTyped
<1>5. \A k \in Jobs : JobFits(jobs'[k])
  BY <1>1 DEF MessagesFit
<1>6. \A r \in Elems(requests') : RequestFits(r, jobs'[r.job])
  BY <1>1, <1>2 DEF MessagesFit
<1>7. \A m \in Elems(replies') \ {M!Event} : ReplyFits(m, jobs'[m.job])
  BY <1>1, <1>3 DEF MessagesFit
<1>8. \A k \in Elems(woken') : jobs'[k].step \in {"sessions", "tools", "done"}
  BY <1>1, <1>4 DEF MessagesFit
<1> QED  BY <1>5, <1>6, <1>7, <1>8 DEF MessagesFit, JobFits, RequestFits, ReplyFits

\* How many messages a job has, in the terms of the lemmas on counting.
LEMMA Accounted ==
    ASSUME WireTyped, ServerTyped, OneAnswerEach, NEW j \in Jobs
    PROVE  Flying(requests, replies, woken, j) = IF jobs[j].step \in {"idle", "human"} THEN 0 ELSE 1
<1>1. M!InFlight(j) = Flying(requests, replies, woken, j)
  BY FlyingIs DEF WireTyped, ServerTyped, M!InFlight, Replies
<1> QED  BY <1>1 DEF OneAnswerEach

LEMMA AccountedNext ==
    ASSUME WireTyped', woken' \in Seq(Jobs),
           \A j \in Jobs : Flying(requests', replies', woken', j)
                             = IF jobs'[j].step \in {"idle", "human"} THEN 0 ELSE 1
    PROVE  OneAnswerEach'
<1> SUFFICES ASSUME NEW j \in Jobs
             PROVE  M!InFlight(j)' = IF jobs'[j].step \in {"idle", "human"} THEN 0 ELSE 1
  BY DEF OneAnswerEach
<1>1. requests' \in Seq(Requests) /\ replies' \in Seq(Replies)
  BY DEF WireTyped, Replies
<1>2. M!Cardinality({i \in 1..Len(requests') : requests'[i].job = j})
        + M!Cardinality({i \in 1..Len(replies') : replies'[i] # M!Event /\ replies'[i].job = j})
        + M!Cardinality({i \in 1..Len(woken') : woken'[i] = j})
          = Flying(requests', replies', woken', j)
  BY <1>1, FlyingIs
<1> QED  BY <1>2 DEF M!InFlight

\* A job that waits for nothing has no message, and one that was just woken has no other.
LEMMA Silent ==
    ASSUME WireTyped, ServerTyped, OneAnswerEach, NEW j \in Jobs, jobs[j].step \in {"idle", "human"}
    PROVE  NoneOf(requests, replies, woken, j)
<1>1. Flying(requests, replies, woken, j) = 0
  BY Accounted
<1> QED  BY <1>1, FlyingIs DEF WireTyped, ServerTyped, Replies

LEMMA JustWoken ==
    ASSUME WireTyped, ServerTyped, MessagesFit, OneAnswerEach, woken # <<>>
    PROVE  /\ Head(woken) \in Jobs /\ Tail(woken) \in Seq(Jobs)
           /\ jobs[Head(woken)].step \in {"sessions", "tools", "done"}
           /\ NoneOf(requests, replies, Tail(woken), Head(woken))
           /\ \A k \in Jobs : Flying(requests, replies, Tail(woken), k)
                = IF k = Head(woken) \/ jobs[k].step \in {"idle", "human"} THEN 0 ELSE 1
<1>1. /\ Head(woken) \in Jobs /\ Tail(woken) \in Seq(Jobs)
      /\ Elems(woken) = {Head(woken)} \union Elems(Tail(woken))
  BY ElemsTail DEF ServerTyped
<1>2. jobs[Head(woken)].step \in {"sessions", "tools", "done"}
  BY <1>1 DEF MessagesFit
<1>3. requests \in Seq(Requests) /\ replies \in Seq(Replies)
  BY DEF WireTyped, Replies
<1>4. ASSUME NEW k \in Jobs
      PROVE  /\ Flying(requests, replies, woken, k)
                  = Flying(requests, replies, Tail(woken), k) + (IF Head(woken) = k THEN 1 ELSE 0)
             /\ Flying(requests, replies, Tail(woken), k) \in Nat
             /\ Flying(requests, replies, Tail(woken), k) = 0
                  => NoneOf(requests, replies, Tail(woken), k)
  <2>1. \A r \in Requests, a \in Replies : woken # <<>> =>
           Flying(requests, replies, woken, k)
             = Flying(requests, replies, Tail(woken), k) + (IF Head(woken) = k THEN 1 ELSE 0)
    BY <1>3, FlyingMoves DEF ServerTyped
  <2>2. M!AskSessions(k) \in Requests /\ M!Event \in Replies
    BY AskTyped DEF Replies
  <2> QED  BY <1>1, <1>3, <2>1, <2>2, FlyingIs
<1>5. \A k \in Jobs : Flying(requests, replies, woken, k)
                        = IF jobs[k].step \in {"idle", "human"} THEN 0 ELSE 1
  BY Accounted
<1>6. ASSUME NEW k \in Jobs
      PROVE  Flying(requests, replies, Tail(woken), k)
               = IF k = Head(woken) \/ jobs[k].step \in {"idle", "human"} THEN 0 ELSE 1
  BY <1>2, <1>4, <1>5
<1> QED  BY <1>1, <1>2, <1>4, <1>6

-------------------------------------------------------------------------------
(***************************************************************************)
(* What keeps a refresh fresh, and what a change of the daemon's tools     *)
(* leaves alone.                                                           *)
(***************************************************************************)
LEMMA FreshKept ==
    ASSUME NEW last, Fresh(last), UNCHANGED <<live, tool>>, jobs'[last] = jobs[last],
           \A m \in Elems(replies') \ {M!Event} : m.job = last => m \in Elems(replies),
           last \in Elems(woken') => last \in Elems(woken)
    PROVE  Fresh(last)'
<1>1. M!LiveSet' = M!LiveSet
  BY DEF M!LiveSet
<1>2. \A a : M!ToolsOf(a)' = M!ToolsOf(a)
  BY <1>1 DEF M!ToolsOf
<1>3. \A m \in Elems(replies') \ {M!Event} : m.job = last =>
         /\ m.says = "sessions" => m.aliases = live'
         /\ m.says = "tools" => m.tools = M!ToolsOf(m.tools.selector)'
  BY <1>2 DEF Fresh
<1>4. jobs'[last].step = "tools" \/ last \in Elems(woken') => jobs'[last].listed = live'
  BY DEF Fresh
<1>5. \A k \in 1..Len(jobs'[last].fetched) :
         jobs'[last].fetched[k] = M!ToolsOf(jobs[last].fetched[k].selector)'
  BY <1>2 DEF Fresh
<1> QED  BY <1>3, <1>4, <1>5 DEF Fresh, Elems, M!Event, M!ToolsOf

LEMMA FollowedKept ==
    ASSUME Followed, UNCHANGED <<open, live, tool, older, overtaken, keyBehind, lastKey>>,
           M!Event \notin Elems(replies') => M!Event \notin Elems(replies),
           M!Refreshing' = M!Refreshing,
           \A last \in M!Refreshing :
             open /\ M!Event \notin Elems(replies') /\ Fresh(last) => Fresh(last)'
    PROVE  Followed'
<1> SUFFICES ASSUME open, M!Event \notin Elems(replies')
             PROVE  \/ \E last \in (M!Refreshing \ overtaken)' : Youngest(last)' /\ Fresh(last)'
                    \/ /\ (M!Refreshing \subseteq overtaken)'
                       /\ (keyBehind \/ lastKey = <<M!Current>>)'
  BY DEF Followed, Elems, M!Event
<1>1. M!Current' = M!Current
  BY DEF M!Current, M!ToolsOf, M!LiveSet, M!Namespaced
<1>2. ASSUME NEW last, Youngest(last) PROVE Youngest(last)'
  BY <1>2, Zenon DEF Youngest
<1>3. CASE \E last \in M!Refreshing \ overtaken : Youngest(last) /\ Fresh(last)
  <2>1. PICK last \in M!Refreshing \ overtaken : Youngest(last) /\ Fresh(last)
    BY <1>3
  <2>2. last \in (M!Refreshing \ overtaken)' /\ Youngest(last)' /\ Fresh(last)'
    BY <1>2, <2>1
  <2> QED  BY <2>2
<1>4. CASE M!Refreshing \subseteq overtaken /\ (keyBehind \/ lastKey = <<M!Current>>)
  BY <1>1, <1>4
<1> QED  BY <1>3, <1>4 DEF Followed

LEMMA SameRefreshing ==
    ASSUME ServerTyped, NEW j \in Jobs, NEW b, jobs' = [jobs EXCEPT ![j] = b],
           b.doing = "refresh" <=> jobs[j].doing = "refresh"
    PROVE  M!Refreshing' = M!Refreshing
  BY DEF M!Refreshing, ServerTyped

LEMMA Announced ==
    ASSUME NEW q \in Seq(Replies), NEW n \in Nat \ {0}
    PROVE  LET r == q \o [i \in 1..n |-> M!Event]
           IN  /\ r \in Seq(Replies)
               /\ Elems(r) = Elems(q) \union {M!Event}
               /\ \A j : Positions(r, AnswersTo(j)) = Positions(q, AnswersTo(j))
<1> DEFINE events == [i \in 1..n |-> M!Event]
           r == q \o events
<1>1. events \in Seq(Replies) /\ Len(events) = n /\ \A i \in 1..n : events[i] = M!Event
  <2>1. events \in [1..n -> Replies]
    BY DEF Replies
  <2> QED  BY <2>1, IsASeq, LenProperties
<1> HIDE DEF events
<1>2. /\ r \in Seq(Replies) /\ Len(q) \in Nat /\ Len(r) = Len(q) + n
      /\ \A i \in 1..Len(q) + n : r[i] = IF i <= Len(q) THEN q[i] ELSE events[i - Len(q)]
  BY <1>1, ConcatProperties, LenProperties
<1> HIDE DEF r
<1>3. \A i \in 1..Len(r) :
        \/ i \in 1..Len(q) /\ r[i] = q[i]
        \/ i \notin 1..Len(q) /\ r[i] = M!Event
  BY <1>1, <1>2
<1>4. Len(q) + 1 \in 1..Len(r) /\ r[Len(q) + 1] = M!Event
  BY <1>1, <1>2
<1>5. \A i \in 1..Len(q) : i \in 1..Len(r) /\ r[i] = q[i]
  BY <1>2
<1>6. Elems(r) = Elems(q) \union {M!Event}
  BY <1>3, <1>4, <1>5 DEF Elems
<1>7. ASSUME NEW j PROVE Positions(r, AnswersTo(j)) = Positions(q, AnswersTo(j))
  <2>1. M!Event \notin AnswersTo(j)
    BY EventIsNoAnswer DEF AnswersTo
  <2> QED  BY <1>3, <1>5, <2>1 DEF Positions
<1> QED  BY <1>2, <1>6, <1>7 DEF r, events

LEMMA AnnounceIInv ==
    ASSUME McpIInv, NEW n \in Nat \ {0}, M!Announce(n), DaemonTyped'
    PROVE  McpIInv'
<1> USE DEF McpIInv
<1>1. /\ replies' = IF open THEN replies \o [i \in 1..n |-> M!Event] ELSE replies
      /\ UNCHANGED <<requests, open, jobs, woken, reading, older, overtaken, keyBehind, lastKey,
                     emitted, channel, listing, notified, ran>>
  BY DEF M!Announce, M!serverVars, M!agentVars, M!refreshVars
<1>2. /\ replies' \in Seq(Replies)
      /\ Elems(replies') \subseteq Elems(replies) \union {M!Event}
      /\ open => M!Event \in Elems(replies')
      /\ \A j : Positions(replies', AnswersTo(j)) = Positions(replies, AnswersTo(j))
  <2>1. replies \in Seq(Replies)
    BY DEF WireTyped, Replies
  <2> QED  BY <1>1, <2>1, Announced
<1>3. WireTyped'
  BY <1>1, <1>2 DEF WireTyped, Replies, M!Event, AnswerRecords
<1>4. M!Refreshing' = M!Refreshing
  BY <1>1 DEF M!Refreshing
<1>5. ServerTyped' /\ AgentTyped'
  BY <1>1, <1>4 DEF ServerTyped, AgentTyped, M!NoListing, M!Flagged, M!Entry
<1>6. MessagesFit'
  <2>1. \A m \in Elems(replies') \ {M!Event} : m \in Elems(replies)
    BY <1>2
  <2>2. Elems(requests') = Elems(requests) /\ Elems(woken') = Elems(woken)
    BY <1>1 DEF Elems
  <2> QED  BY <1>1, <2>1, <2>2 DEF MessagesFit, JobFits, RequestFits, ReplyFits, M!Event, M!Idle
<1>7. OneAnswerEach'
  <2>1. ASSUME NEW j \in Jobs
        PROVE  Flying(requests', replies', woken', j)
                 = IF jobs'[j].step \in {"idle", "human"} THEN 0 ELSE 1
    <3>1. Flying(requests', replies', woken', j) = Flying(requests, replies, woken, j)
      BY <1>1, <1>2 DEF Flying, Count
    <3> QED  BY <1>1, <3>1, Accounted
  <2>2. woken' \in Seq(Jobs)
    BY <1>1 DEF ServerTyped
  <2> QED  BY <1>3, <2>1, <2>2, AccountedNext
<1>8. Followed'
  BY <1>1, <1>2 DEF Followed
<1>9. M!GateBeforeRun'
  BY <1>1 DEF M!GateBeforeRun
<1> QED  BY <1>3, <1>5, <1>6, <1>7, <1>8, <1>9

LEMMA LiveFinite ==
    ASSUME DaemonTyped
    PROVE  /\ M!LiveSet = Elems(live) /\ IsFiniteSet(M!LiveSet)
           /\ M!LiveSet # {} => M!Cardinality(M!LiveSet) \in Nat \ {0}
<1>1. Len(live) \in Nat /\ live \in [1..Len(live) -> M!LiveSet]
  BY DEF DaemonTyped, M!LiveSet
<1>2. live \in Surjection(1..Len(live), M!LiveSet)
  BY <1>1 DEF Surjection, M!LiveSet
<1>3. IsFiniteSet(M!LiveSet)
  BY <1>1, <1>2, FS_Interval, FS_Surjection DEF ExistsSurjection
<1>4. M!Cardinality(M!LiveSet) = Cardinality(M!LiveSet)
  BY DEF M!Cardinality, Cardinality
<1>5. Cardinality(M!LiveSet) \in Nat /\ (Cardinality(M!LiveSet) = 0 => M!LiveSet = {})
  BY <1>3, FS_CardinalityType, FS_EmptySet
<1> QED  BY <1>3, <1>4, <1>5 DEF M!LiveSet, Elems

LEMMA DaemonIInv ==
    ASSUME McpIInv,
           \/ \E a \in Aliases : M!Claim(a) \/ M!RemoveTool(a) \/ M!Blink(a)
           \/ \E a \in Aliases, d \in M!Descriptors : M!Upsert(a, d)
           \/ \E S \in SUBSET Aliases : M!End(S)
    PROVE  McpIInv'
<1>0. DaemonTyped
  BY DEF McpIInv
<1> USE DEF DaemonTyped
<1>1. ASSUME NEW n, M!Announce(n) PROVE changes' \in 0..MaxChanges
  <2>1. MaxChanges \in Nat
    BY AgentToolsConstants, Zenon DEF M!McpAssumption
  <2> QED  BY <1>0, <1>1, <2>1 DEF M!Announce
<1>2. ASSUME NEW a \in Aliases, M!Claim(a) PROVE McpIInv'
  <2>1. live' = Append(live, a) /\ a \notin M!LiveSet /\ M!Announce(1) /\ UNCHANGED <<tool, suspended>>
    BY <1>2 DEF M!Claim
  <2>2. live' \in Seq(Aliases) /\ Elems(live') = Elems(live) \union {a}
    BY <1>0, <2>1, ElemsAppend
  <2>3. M!LiveSet' = M!LiveSet \union {a}
    BY <1>0, <2>2, LiveFinite DEF M!LiveSet, Elems
  <2>4. M!IsInjective(live')
    <3>1. /\ Len(live) \in Nat /\ Len(live') = Len(live) + 1 /\ live'[Len(live) + 1] = a
          /\ \A i \in 1..Len(live) : live'[i] = live[i] /\ live[i] # a
      BY <1>0, <2>1 DEF M!LiveSet
    <3>2. \A i \in 1..Len(live), k \in 1..Len(live) : live[i] = live[k] => i = k
      BY <1>0 DEF M!IsInjective
    <3>3. ASSUME NEW i \in 1..Len(live'), NEW k \in 1..Len(live'), live'[i] = live'[k] PROVE i = k
      <4>1. CASE i = Len(live) + 1
        <5>1. k \notin 1..Len(live)
          BY <3>1, <3>3, <4>1
        <5> QED  BY <3>1, <4>1, <5>1
      <4>2. CASE k = Len(live) + 1
        <5>1. i \notin 1..Len(live)
          BY <3>1, <3>3, <4>2
        <5> QED  BY <3>1, <4>2, <5>1
      <4>3. CASE i \in 1..Len(live) /\ k \in 1..Len(live)
        BY <3>1, <3>2, <3>3, <4>3
      <4> QED  BY <3>1, <4>1, <4>2, <4>3
    <3>4. DOMAIN live' = 1..Len(live')
      BY <2>2
    <3> QED  BY <3>3, <3>4 DEF M!IsInjective
  <2>5. DaemonTyped'
    BY <1>0, <1>1, <2>1, <2>2, <2>3, <2>4 DEF M!IsInjective
  <2> QED  BY <2>1, <2>5, AnnounceIInv
<1>3. ASSUME NEW a \in Aliases, M!RemoveTool(a) \/ M!Blink(a) PROVE McpIInv'
  <2>1. M!Announce(1) /\ live' = live /\ a \in M!LiveSet
        /\ \/ tool' = tool /\ suspended' \subseteq suspended \union {a}
           \/ tool' = [tool EXCEPT ![a] = NoTool] /\ suspended' = suspended
    BY <1>3 DEF M!RemoveTool, M!Blink
  <2>2. M!LiveSet' = M!LiveSet
    BY <2>1 DEF M!LiveSet
  <2>3. DaemonTyped'
    BY <1>0, <1>1, <2>1, <2>2 DEF M!IsInjective
  <2> QED  BY <2>1, <2>3, AnnounceIInv
<1>4. ASSUME NEW a \in Aliases, NEW d \in M!Descriptors, M!Upsert(a, d) PROVE McpIInv'
  <2>1. M!Announce(1) /\ live' = live /\ suspended' = suspended /\ a \in M!LiveSet
        /\ tool' = [tool EXCEPT ![a] = d]
    BY <1>4 DEF M!Upsert
  <2>2. M!LiveSet' = M!LiveSet
    BY <2>1 DEF M!LiveSet
  <2>3. DaemonTyped'
    BY <1>0, <1>1, <2>1, <2>2 DEF M!IsInjective
  <2> QED  BY <2>1, <2>3, AnnounceIInv
<1>5. ASSUME NEW S \in SUBSET Aliases, M!End(S) PROVE McpIInv'
  <2>1. /\ tool' = [a \in Aliases |-> IF a \in S THEN NoTool ELSE tool[a]]
        /\ suspended' = suspended \ S
        /\ M!Announce(M!Cardinality(S))
    BY <1>5 DEF M!End
  <2>2. /\ live' \in Seq(Aliases) /\ M!IsInjective(live')
        /\ Elems(live') = Elems(live) \ S
        /\ M!Cardinality(S) \in Nat \ {0}
    <3>1. CASE S = M!LiveSet /\ live' = <<>>
      <4>1. <<>> \in Seq(Aliases) /\ DOMAIN <<>> = {}
        OBVIOUS
      <4>2. M!IsInjective(<<>>)
        BY <4>1 DEF M!IsInjective
      <4>3. S # {}
        BY <1>5 DEF M!End
      <4> QED  BY <1>0, <3>1, <4>1, <4>2, <4>3, NoElems, LiveFinite
    <3>2. ASSUME NEW i \in 1..Len(live), S = {live[i]}, live' = M!RemoveAt(live, i)
          PROVE  /\ live' \in Seq(Aliases) /\ M!IsInjective(live')
                 /\ Elems(live') = Elems(live) \ S
                 /\ M!Cardinality(S) \in Nat \ {0}
      <4>1. M!Cardinality(S) = 1
        <5>1. Cardinality({live[i]}) = 1
          BY FS_Singleton
        <5> QED  BY <3>2, <5>1 DEF M!Cardinality, Cardinality
      <4>2. /\ Len(live) \in Nat /\ live' \in Seq(Aliases) /\ Len(live') = Len(live) - 1
            /\ \A k \in 1..Len(live) - 1 : live'[k] = IF k < i THEN live[k] ELSE live[k + 1]
        <5>1. live \in Seq(Aliases) /\ Len(live) \in Nat
          BY <1>0
        <5>2. /\ SubSeq(live, 1, i - 1) \in Seq(Aliases) /\ Len(SubSeq(live, 1, i - 1)) = i - 1
              /\ \A k \in 1..i - 1 : SubSeq(live, 1, i - 1)[k] = live[k]
          BY <5>1
        <5>3. /\ SubSeq(live, i + 1, Len(live)) \in Seq(Aliases)
              /\ Len(SubSeq(live, i + 1, Len(live))) = Len(live) - i
              /\ \A k \in 1..Len(live) - i : SubSeq(live, i + 1, Len(live))[k] = live[k + i]
          BY <5>1
        <5> DEFINE u == SubSeq(live, 1, i - 1)
                   v == SubSeq(live, i + 1, Len(live))
        <5>4. live' = u \o v
          BY <3>2 DEF M!RemoveAt
        <5> HIDE DEF u, v
        <5>5. u \in Seq(Aliases) /\ v \in Seq(Aliases) /\ Len(u) = i - 1 /\ Len(v) = Len(live) - i
          BY <5>2, <5>3 DEF u, v
        <5>6. /\ u \o v \in Seq(Aliases) /\ Len(u \o v) = Len(u) + Len(v)
              /\ \A k \in 1..Len(u) + Len(v) :
                   (u \o v)[k] = IF k <= Len(u) THEN u[k] ELSE v[k - Len(u)]
          BY <5>5, ConcatProperties
        <5>7. ASSUME NEW k \in 1..Len(live) - 1
              PROVE  live'[k] = IF k < i THEN live[k] ELSE live[k + 1]
          <6>1. CASE k < i
            <7>1. k \in 1..i - 1 /\ k \in 1..Len(u) + Len(v) /\ k <= Len(u)
              BY <5>1, <5>5, <6>1
            <7> QED  BY <5>2, <5>4, <5>6, <6>1, <7>1 DEF u
          <6>2. CASE ~(k < i)
            <7>1. /\ k - (i - 1) \in 1..Len(live) - i /\ k \in 1..Len(u) + Len(v) /\ ~(k <= Len(u))
                  /\ (k - (i - 1)) + i = k + 1 /\ k - Len(u) = k - (i - 1)
              BY <5>1, <5>5, <6>2
            <7> QED  BY <5>3, <5>4, <5>6, <6>2, <7>1 DEF v
          <6> QED  BY <6>1, <6>2
        <5> QED  BY <5>1, <5>4, <5>5, <5>6, <5>7
      <4>3. \A k \in 1..Len(live), m \in 1..Len(live) : live[k] = live[m] => k = m
        BY <1>0 DEF M!IsInjective
      <4>4. \A k \in 1..Len(live) - 1 : \E m \in 1..Len(live) \ {i} : live'[k] = live[m]
                                        /\ m = IF k < i THEN k ELSE k + 1
        BY <4>2
      <4>5. M!IsInjective(live')
        <5>1. DOMAIN live' = 1..Len(live) - 1
          BY <4>2
        <5>2. ASSUME NEW k \in 1..Len(live) - 1, NEW m \in 1..Len(live) - 1, live'[k] = live'[m]
              PROVE  k = m
          BY <4>2, <4>3, <4>4, <5>2
        <5> QED  BY <5>1, <5>2 DEF M!IsInjective
      <4>6. Elems(live') \subseteq Elems(live) \ {live[i]}
        BY <4>2, <4>3, <4>4 DEF Elems
      <4>7. ASSUME NEW m \in 1..Len(live), live[m] # live[i] PROVE live[m] \in Elems(live')
        <5>1. CASE m < i
          <6>1. m \in 1..Len(live) - 1 /\ live'[m] = live[m]
            BY <4>2, <5>1
          <6> QED  BY <4>2, <6>1 DEF Elems
        <5>2. CASE m > i
          <6>1. m - 1 \in 1..Len(live) - 1 /\ live'[m - 1] = live[(m - 1) + 1] /\ (m - 1) + 1 = m
            BY <4>2, <5>2
          <6> QED  BY <4>2, <6>1 DEF Elems
        <5> QED  BY <4>2, <4>7, <5>1, <5>2
      <4>8. Elems(live) \ {live[i]} \subseteq Elems(live')
        <5> SUFFICES ASSUME NEW a \in Elems(live) \ {live[i]} PROVE a \in Elems(live')
          OBVIOUS
        <5>1. PICK m \in 1..Len(live) : a = live[m]
          BY DEF Elems
        <5> QED  BY <4>7, <5>1
      <4>9. Elems(live') = Elems(live) \ S
        BY <3>2, <4>6, <4>8
      <4> QED  BY <4>1, <4>2, <4>5, <4>9
    <3> QED  BY <1>5, <3>1, <3>2 DEF M!End
  <2>3. M!LiveSet' = M!LiveSet \ S
    BY <2>2 DEF M!LiveSet, Elems
  <2>4. DaemonTyped'
    <3>1. tool' \in [Aliases -> M!Descriptors \union {NoTool}]
      BY <1>0, <2>1
    <3>2. \A a \in Aliases : a \notin M!LiveSet' => tool'[a] = NoTool
      BY <1>0, <2>1, <2>3
    <3>3. suspended' \subseteq M!LiveSet'
      BY <1>0, <2>1, <2>3
    <3> QED  BY <1>1, <2>1, <2>2, <3>1, <3>2, <3>3 DEF M!IsInjective
  <2> QED  BY <2>1, <2>2, <2>4, AnnounceIInv
<1> QED  BY <1>2, <1>3, <1>4, <1>5

-------------------------------------------------------------------------------
(***************************************************************************)
(* The daemon answers.                                                     *)
(***************************************************************************)
LEMMA AnswerFits ==
    ASSUME DaemonTyped, WireTyped, ServerTyped, MessagesFit, NEW r \in Elems(requests)
    PROVE  /\ r \in Requests /\ M!Answer(r) \in AnswerRecords /\ M!Answer(r).job = r.job
           /\ ReplyFits(M!Answer(r), jobs[r.job])
           /\ M!Answer(r).says = "sessions" => M!Answer(r).aliases = live
           /\ M!Answer(r).says = "tools" =>
                M!Answer(r).tools = M!ToolsOf(M!Answer(r).tools.selector)
<1>1. r \in Requests /\ RequestFits(r, jobs[r.job])
  BY ElemsTyped DEF WireTyped, MessagesFit
<1>2. r.job \in Jobs /\ jobs[r.job] \in JobRecords /\ r.asks \in {"sessions", "tools", "call"}
  BY <1>1 DEF Requests, ServerTyped
<1>3. CASE r.asks = "sessions"
  <2>1. M!Answer(r) = [says |-> "sessions", job |-> r.job, aliases |-> live]
    BY <1>3 DEF M!Answer
  <2> QED  BY <1>1, <1>2, <1>3, <2>1 DEF AnswerRecords, DaemonTyped, ReplyFits, RequestFits
<1>4. CASE r.asks = "tools"
  <2>1. M!Answer(r) = [says |-> "tools", job |-> r.job, tools |-> M!ToolsOf(r.of)]
    BY <1>4 DEF M!Answer
  <2>2. r.of \in Aliases
    BY <1>1, <1>4 DEF RequestFits
  <2>3. M!ToolsOf(r.of) \in ToolRecords /\ M!ToolsOf(r.of).selector = r.of
    BY <2>2, ToolsTyped
  <2> HIDE DEF M!ToolsOf
  <2>4. M!Answer(r) \in AnswerRecords
    BY <1>2, <2>1, <2>3 DEF AnswerRecords
  <2> QED  BY <1>1, <1>2, <1>4, <2>1, <2>3, <2>4 DEF ReplyFits, RequestFits
<1>5. CASE r.asks = "call"
  <2>1. M!Answer(r) = [says |-> "result", job |-> r.job]
    BY <1>5 DEF M!Answer
  <2> QED  BY <1>1, <1>2, <1>5, <2>1 DEF AnswerRecords, ReplyFits, RequestFits
<1> QED  BY <1>2, <1>3, <1>4, <1>5

LEMMA ServeIInv ==
    ASSUME McpIInv, M!Serve
    PROVE  McpIInv'
<1> DEFINE r == Head(requests)
           m == M!Answer(r)
<1>1. DaemonTyped /\ WireTyped /\ ServerTyped /\ AgentTyped /\ MessagesFit /\ OneAnswerEach
      /\ Followed /\ M!GateBeforeRun
  BY DEF McpIInv
<1>2. /\ requests # <<>> /\ requests' = Tail(requests) /\ replies' = Append(replies, m)
      /\ ran' = IF r.asks = "call" /\ M!Runs(r) THEN {M!Run(r)} ELSE ran
      /\ UNCHANGED <<live, tool, suspended, changes, open, jobs, woken, reading, older, overtaken,
                     keyBehind, lastKey, emitted, channel, listing, notified>>
  BY DEF M!Serve, M!daemonVars, M!serverVars, M!refreshVars
<1>3. /\ Tail(requests) \in Seq(Requests) /\ r \in Requests
      /\ Elems(requests) = {r} \union Elems(Tail(requests))
  BY <1>1, <1>2, ElemsTail DEF WireTyped
<1>4. /\ m \in AnswerRecords /\ m.job = r.job /\ ReplyFits(m, jobs[r.job])
      /\ m.says = "sessions" => m.aliases = live
      /\ m.says = "tools" => m.tools = M!ToolsOf(m.tools.selector)
  BY <1>1, <1>3, AnswerFits
<1>5. replies \in Seq(Replies) /\ m \in Replies /\ m # M!Event
  BY <1>1, <1>4, EventIsNoAnswer DEF WireTyped, Replies
<1> HIDE DEF m
<1>6. replies' \in Seq(Replies) /\ Elems(replies') = Elems(replies) \union {m}
  BY <1>2, <1>5, ElemsAppend
<1>7. WireTyped'
  BY <1>1, <1>2, <1>3, <1>6 DEF WireTyped, Replies, M!Event, AnswerRecords
<1>8. DaemonTyped'
  BY <1>1, <1>2 DEF DaemonTyped, M!LiveSet, M!IsInjective
<1>9. M!Refreshing' = M!Refreshing
  BY <1>2 DEF M!Refreshing
<1>10. ServerTyped' /\ AgentTyped'
  BY <1>1, <1>2, <1>9 DEF ServerTyped, AgentTyped, M!NoListing, M!Flagged, M!Entry
<1>11. MessagesFit'
  <2>1. Elems(requests') \subseteq Elems(requests) /\ Elems(woken') = Elems(woken)
    BY <1>2, <1>3 DEF Elems
  <2>2. \A q \in Elems(requests') : RequestFits(q, jobs'[q.job])
    BY <1>1, <1>2, <2>1 DEF MessagesFit
  <2>3. \A a \in Elems(replies') \ {M!Event} : ReplyFits(a, jobs'[a.job])
    BY <1>1, <1>2, <1>4, <1>6 DEF MessagesFit
  <2>4. /\ \A j \in Jobs : JobFits(jobs'[j])
        /\ \A j \in Elems(woken') : jobs'[j].step \in {"sessions", "tools", "done"}
    BY <1>1, <1>2, <2>1 DEF MessagesFit
  <2> QED  BY <2>2, <2>3, <2>4 DEF MessagesFit, JobFits, RequestFits, ReplyFits, M!Event, M!Idle
<1>12. OneAnswerEach'
  <2>1. ASSUME NEW j \in Jobs
        PROVE  Flying(requests', replies', woken', j)
                 = IF jobs'[j].step \in {"idle", "human"} THEN 0 ELSE 1
    <3>1. requests \in Seq(Requests) /\ woken \in Seq(Jobs)
      BY <1>1 DEF WireTyped, ServerTyped
    <3>2. Flying(requests, replies, woken, j) = IF jobs[j].step \in {"idle", "human"} THEN 0 ELSE 1
      BY <1>1, Accounted
    <3>3. Flying(requests, replies, woken, j)
            = Flying(Tail(requests), replies, woken, j) + (IF r.job = j THEN 1 ELSE 0)
      BY <1>2, <1>5, <3>1, FlyingTails
    <3>4. Flying(Tail(requests), Append(replies, m), woken, j)
            = Flying(Tail(requests), replies, woken, j) + (IF m # M!Event /\ m.job = j THEN 1 ELSE 0)
      <4>1. Tail(requests) \in Seq(Requests) /\ replies \in Seq(Replies) /\ woken \in Seq(Jobs)
            /\ m \in Replies
        BY <1>3, <1>5, <3>1
      <4>2. \A rq \in Seq(Requests) : Flying(rq, Append(replies, m), woken, j)
            = Flying(rq, replies, woken, j) + (IF m # M!Event /\ m.job = j THEN 1 ELSE 0)
        BY <4>1, FlyingAnswered
      <4> QED  BY <4>1, <4>2
    <3>5. (IF m # M!Event /\ m.job = j THEN 1 ELSE 0) = (IF r.job = j THEN 1 ELSE 0)
      BY <1>4, <1>5
    <3>6. Flying(requests', replies', woken', j) = Flying(requests, replies, woken, j)
      BY <1>2, <3>3, <3>4, <3>5, Zenon
    <3> QED  BY <1>2, <3>2, <3>6
  <2>2. woken' \in Seq(Jobs)
    BY <1>1, <1>2 DEF ServerTyped
  <2> QED  BY <1>7, <2>1, <2>2, AccountedNext
<1>13. Followed'
  <2>1. \A a : M!ToolsOf(a)' = M!ToolsOf(a)
    BY <1>2 DEF M!ToolsOf, M!LiveSet
  <2>2. ASSUME NEW last, Fresh(last) PROVE Fresh(last)'
    <3>1. \A a \in Elems(replies') \ {M!Event} : a.job = last =>
             /\ a.says = "sessions" => a.aliases = live'
             /\ a.says = "tools" => a.tools = M!ToolsOf(a.tools.selector)'
      BY <1>2, <1>4, <1>6, <2>1, <2>2 DEF Fresh
    <3>2. jobs'[last].step = "tools" \/ last \in Elems(woken') => jobs'[last].listed = live'
      BY <1>2, <2>2 DEF Fresh
    <3>3. \A k \in 1..Len(jobs'[last].fetched) :
             jobs'[last].fetched[k] = M!ToolsOf(jobs[last].fetched[k].selector)'
      BY <1>2, <2>1, <2>2 DEF Fresh
    <3> QED  BY <1>2, <3>1, <3>2, <3>3 DEF Fresh, Elems, M!Event, M!ToolsOf
  <2>3. M!Event \notin Elems(replies') => M!Event \notin Elems(replies)
    BY <1>6
  <2> QED  BY <1>1, <1>2, <1>9, <2>2, <2>3, FollowedKept
<1>14. M!GateBeforeRun'
  <2>1. CASE r.asks = "call" /\ M!Runs(r)
    <3>1. RequestFits(r, jobs[r.job])
      BY <1>1, <1>3 DEF MessagesFit
    <3>2. M!Run(r).policy = "prompt" => M!Run(r).shown # {}
      BY <2>1, <3>1 DEF M!Runs, M!Run, RequestFits
    <3> QED  BY <1>2, <2>1, <3>2 DEF M!GateBeforeRun
  <2>2. CASE ~(r.asks = "call" /\ M!Runs(r))
    BY <1>1, <1>2, <2>2 DEF M!GateBeforeRun
  <2> QED  BY <2>1, <2>2
<1> QED  BY <1>7, <1>8, <1>10, <1>11, <1>12, <1>13, <1>14 DEF McpIInv

-------------------------------------------------------------------------------
(***************************************************************************)
(* A job begins.                                                           *)
(***************************************************************************)
LEMMA Starting ==
    ASSUME WireTyped, ServerTyped, MessagesFit, OneAnswerEach, NEW j \in M!IdleJobs,
           NEW doing \in {"refresh", "list", "call"}, NEW wanted \in Names,
           jobs' = [jobs EXCEPT ![j] = M!Started(doing, wanted)],
           requests' = Append(requests, M!AskSessions(j)),
           \/ replies' = replies
           \/ replies # <<>> /\ Head(replies) = M!Event /\ replies' = Tail(replies),
           UNCHANGED <<open, woken>>
    PROVE  /\ WireTyped' /\ jobs' \in [Jobs -> JobRecords] /\ MessagesFit' /\ OneAnswerEach'
           /\ j \in Jobs /\ j \notin M!Refreshing /\ NoneOf(requests, replies, woken, j)
           /\ Elems(replies') \subseteq Elems(replies)
           /\ \A k \in Jobs : jobs'[k] = IF k = j THEN M!Started(doing, wanted) ELSE jobs[k]
<1> DEFINE b == M!Started(doing, wanted)
           ask == M!AskSessions(j)
<1>1. /\ j \in Jobs /\ jobs[j].step = "idle" /\ jobs[j].doing = "nothing"
      /\ jobs \in [Jobs -> JobRecords] /\ woken \in Seq(Jobs)
      /\ requests \in Seq(Requests) /\ replies \in Seq(Replies)
  BY DEF M!IdleJobs, M!Idle, ServerTyped, WireTyped, Replies
<1>2. NoneOf(requests, replies, woken, j)
  BY <1>1, Silent
<1>3. /\ b \in JobRecords /\ JobFits(b) /\ b.step = "sessions" /\ b.listed = <<>>
  BY StartedTyped
<1>4. ask \in Requests /\ ask.job = j /\ ask.asks = "sessions" /\ ask.consent = "none"
  BY <1>1, AskTyped
<1> HIDE DEF b, ask
<1>5. requests' \in Seq(Requests) /\ Elems(requests') = Elems(requests) \union {ask}
  BY <1>1, <1>4, ElemsAppend DEF ask
<1>6. /\ replies' \in Seq(Replies) /\ Elems(replies') \subseteq Elems(replies)
      /\ \A k \in Jobs : Flying(requests, replies', woken, k) = Flying(requests, replies, woken, k)
  <2>1. CASE replies' = replies
    BY <1>1, <2>1 DEF Elems
  <2>2. CASE replies # <<>> /\ Head(replies) = M!Event /\ replies' = Tail(replies)
    <3>1. Tail(replies) \in Seq(Replies) /\ Elems(Tail(replies)) \subseteq Elems(replies)
      BY <1>1, <2>2, ElemsTail
    <3>2. ASSUME NEW k \in Jobs
          PROVE  Flying(requests, Tail(replies), woken, k) = Flying(requests, replies, woken, k)
      <4>1. Flying(requests, replies, woken, k) = Flying(requests, Tail(replies), woken, k)
               + (IF Head(replies) # M!Event /\ Head(replies).job = k THEN 1 ELSE 0)
        BY <1>1, <2>2, FlyingTails
      <4>2. Flying(requests, Tail(replies), woken, k) \in Nat
        BY <1>1, <3>1, FlyingIs
      <4> QED  BY <2>2, <4>1, <4>2
    <3> QED  BY <2>2, <3>1, <3>2
  <2> QED  BY <2>1, <2>2
<1>7. WireTyped'
  BY <1>5, <1>6 DEF WireTyped, Replies, M!Event, AnswerRecords
<1>8. \A k \in Jobs : jobs'[k] = IF k = j THEN b ELSE jobs[k]
  BY <1>1 DEF b
<1>9. MessagesFit'
  <2>1. \A r \in Elems(requests') : IF r.job = j THEN RequestFits(r, b) ELSE r \in Elems(requests)
    BY <1>2, <1>3, <1>4, <1>5 DEF NoneOf, RequestFits
  <2>2. \A m \in Elems(replies') \ {M!Event} :
           IF m.job = j THEN ReplyFits(m, b) ELSE m \in Elems(replies)
    BY <1>2, <1>6 DEF NoneOf
  <2>3. \A k \in Elems(woken') :
           IF k = j THEN b.step \in {"sessions", "tools", "done"} ELSE k \in Elems(woken)
    BY <1>3 DEF Elems
  <2>4. jobs' = [jobs EXCEPT ![j] = b] /\ woken' \in Seq(Jobs)
    BY <1>1 DEF b
  <2> QED  BY <1>1, <1>3, <1>7, <2>1, <2>2, <2>3, <2>4, Moved
<1>10. OneAnswerEach'
  <2>1. ASSUME NEW k \in Jobs
        PROVE  Flying(requests', replies', woken', k)
                 = IF jobs'[k].step \in {"idle", "human"} THEN 0 ELSE 1
    <3>1. Flying(Append(requests, ask), replies', woken, k)
            = Flying(requests, replies', woken, k) + (IF ask.job = k THEN 1 ELSE 0)
      BY <1>1, <1>4, <1>6, FlyingAsked
    <3>2. Flying(requests, replies, woken, k) = IF jobs[k].step \in {"idle", "human"} THEN 0 ELSE 1
      BY Accounted
    <3> QED  BY <1>1, <1>3, <1>4, <1>6, <1>8, <3>1, <3>2 DEF ask
  <2> QED  BY <1>1, <1>7, <2>1, AccountedNext
<1>11. j \notin M!Refreshing
  BY <1>1 DEF M!Refreshing
<1>12. \A k \in Jobs : jobs'[k] = IF k = j THEN M!Started(doing, wanted) ELSE jobs[k]
  BY <1>8 DEF b
<1>13. jobs' \in [Jobs -> JobRecords]
  BY <1>1, <1>3 DEF b
<1> QED  BY <1>1, <1>2, <1>6, <1>7, <1>9, <1>10, <1>11, <1>12, <1>13

LEMMA HearEventIInv ==
    ASSUME McpIInv, M!HearEvent
    PROVE  McpIInv'
<1>1. DaemonTyped /\ WireTyped /\ ServerTyped /\ AgentTyped /\ MessagesFit /\ OneAnswerEach
      /\ M!GateBeforeRun
  BY DEF McpIInv
<1>2. PICK j \in M!IdleJobs :
        /\ jobs' = [jobs EXCEPT ![j] = M!Started("refresh", Bare)]
        /\ requests' = Append(requests, M!AskSessions(j))
        /\ older' = [older EXCEPT ![j] = M!Refreshing]
  BY DEF M!HearEvent
<1>3. /\ replies # <<>> /\ Head(replies) = M!Event /\ replies' = Tail(replies)
      /\ UNCHANGED <<live, tool, suspended, changes, open, woken, reading, overtaken, keyBehind,
                     lastKey, emitted, channel, listing, notified, ran>>
  BY DEF M!HearEvent, M!MayRead, M!daemonVars, M!agentVars
<1>4. /\ WireTyped' /\ jobs' \in [Jobs -> JobRecords] /\ MessagesFit' /\ OneAnswerEach'
      /\ j \in Jobs /\ j \notin M!Refreshing /\ NoneOf(requests, replies, woken, j)
      /\ Elems(replies') \subseteq Elems(replies)
      /\ \A k \in Jobs : jobs'[k] = IF k = j THEN M!Started("refresh", Bare) ELSE jobs[k]
  <2>1. Bare \in Names
    BY DEF Names
  <2> QED  BY <1>1, <1>2, <1>3, <2>1, Starting
<1>5. /\ jobs'[j].doing = "refresh" /\ jobs'[j].step = "sessions" /\ jobs'[j].fetched = <<>>
  <2>1. Bare \in Names
    BY DEF Names
  <2> QED  BY <1>4, <2>1, StartedTyped
<1>6. M!Refreshing' = M!Refreshing \union {j}
  BY <1>4, <1>5 DEF M!Refreshing
<1>7. /\ older \in [Jobs -> SUBSET M!Refreshing] /\ overtaken \subseteq M!Refreshing
  BY <1>1 DEF ServerTyped
<1>8. /\ older' \in [Jobs -> SUBSET M!Refreshing'] /\ overtaken' \subseteq M!Refreshing'
      /\ older'[j] = M!Refreshing /\ \A k \in Jobs \ {j} : older'[k] \subseteq M!Refreshing
  BY <1>2, <1>3, <1>4, <1>6, <1>7
<1>9. ServerTyped' /\ AgentTyped' /\ DaemonTyped'
  BY <1>1, <1>3, <1>4, <1>8
     DEF ServerTyped, AgentTyped, DaemonTyped, M!NoListing, M!Flagged, M!Entry, M!LiveSet,
         M!IsInjective
<1>10. Followed'
  <2>1. j \in (M!Refreshing \ overtaken)'
    BY <1>3, <1>4, <1>6, <1>7
  <2>2. Youngest(j)'
    <3>1. \A k \in M!Refreshing' \ {j} : k \in older'[j] /\ j \notin older'[k]
      BY <1>4, <1>6, <1>8 DEF M!Refreshing
    <3> QED  BY <3>1 DEF Youngest
  <2>3. Fresh(j)'
    <3>1. \A m \in Elems(replies') \ {M!Event} : m.job # j
      BY <1>4 DEF NoneOf
    <3>2. j \notin Elems(woken')
      BY <1>3, <1>4 DEF NoneOf, Elems
    <3>3. 1..Len(jobs'[j].fetched) = {}
      BY <1>5
    <3> QED  BY <1>5, <3>1, <3>2, <3>3 DEF Fresh, Elems, M!Event
  <2> QED  BY <2>1, <2>2, <2>3 DEF Followed
<1>11. M!GateBeforeRun'
  BY <1>1, <1>3 DEF M!GateBeforeRun
<1> QED  BY <1>4, <1>9, <1>10, <1>11 DEF McpIInv

LEMMA AgentAsksIInv ==
    ASSUME McpIInv, NEW doing \in {"list", "call"}, NEW wanted \in Names,
           M!AgentAsks(doing, wanted), notified' \in BOOLEAN
    PROVE  McpIInv'
<1>1. DaemonTyped /\ WireTyped /\ ServerTyped /\ AgentTyped /\ MessagesFit /\ OneAnswerEach
      /\ Followed /\ M!GateBeforeRun
  BY DEF McpIInv
<1>2. PICK j \in M!IdleJobs :
        /\ jobs' = [jobs EXCEPT ![j] = M!Started(doing, wanted)]
        /\ requests' = Append(requests, M!AskSessions(j))
  BY DEF M!AgentAsks
<1>3. UNCHANGED <<live, tool, suspended, changes, replies, open, woken, reading, older, overtaken,
                  keyBehind, lastKey, emitted, channel, listing, ran>>
  BY DEF M!AgentAsks, M!daemonVars, M!refreshVars
<1>4. /\ WireTyped' /\ jobs' \in [Jobs -> JobRecords] /\ MessagesFit' /\ OneAnswerEach'
      /\ j \in Jobs /\ j \notin M!Refreshing
      /\ \A k \in Jobs : jobs'[k] = IF k = j THEN M!Started(doing, wanted) ELSE jobs[k]
  BY <1>1, <1>2, <1>3, Starting
<1>5. jobs'[j].doing = doing
  BY <1>4, StartedTyped
<1>6. M!Refreshing' = M!Refreshing
  BY <1>4, <1>5 DEF M!Refreshing
<1>7. ServerTyped' /\ AgentTyped' /\ DaemonTyped'
  BY <1>1, <1>3, <1>4, <1>6
     DEF ServerTyped, AgentTyped, DaemonTyped, M!NoListing, M!Flagged, M!Entry, M!LiveSet,
         M!IsInjective
<1>8. Followed'
  <2>1. Elems(replies') = Elems(replies) /\ Elems(woken') = Elems(woken)
    BY <1>3 DEF Elems
  <2>2. ASSUME NEW last \in M!Refreshing, Fresh(last) PROVE Fresh(last)'
    <3>1. jobs'[last] = jobs[last]
      BY <1>4 DEF M!Refreshing
    <3> QED  BY <1>3, <2>1, <2>2, <3>1, FreshKept
  <2> QED  BY <1>1, <1>3, <1>6, <2>1, <2>2, FollowedKept
<1>9. M!GateBeforeRun'
  BY <1>1, <1>3 DEF M!GateBeforeRun
<1> QED  BY <1>4, <1>7, <1>8, <1>9 DEF McpIInv

-------------------------------------------------------------------------------
(***************************************************************************)
(* The server reads an answer.                                             *)
(***************************************************************************)
\* What an answer makes of the job that waits for it.
HeardBy(m, b) ==
    CASE m.says = "sessions" -> [b EXCEPT !.listed = m.aliases]
      [] m.says = "tools" -> [b EXCEPT !.fetched = Append(@, m.tools)]
      [] m.says = "result" -> [b EXCEPT !.step = "done"]

LEMMA HeardFits ==
    ASSUME WireTyped, ServerTyped, MessagesFit, NEW m \in Elems(replies) \ {M!Event},
           jobs[m.job].step # "late"
    PROVE  LET a == jobs[m.job]
               b == HeardBy(m, a)
           IN  /\ m \in AnswerRecords /\ m.job \in Jobs
               /\ b \in JobRecords /\ JobFits(b) /\ b.doing = a.doing
               /\ a.step \in {"sessions", "tools", "result"}
               /\ b.step \in {"sessions", "tools", "done"}
               /\ m.job \in M!Refreshing /\ Fresh(m.job) =>
                    /\ b.listed = live
                    /\ \A k \in 1..Len(b.fetched) :
                         b.fetched[k] = M!ToolsOf(b.fetched[k].selector)
<1> DEFINE a == jobs[m.job]
           b == HeardBy(m, a)
<1>1. m \in AnswerRecords
  BY ElemsTyped DEF WireTyped
<1>2. m.job \in Jobs /\ a \in JobRecords /\ JobFits(a) /\ ReplyFits(m, a)
  BY <1>1 DEF AnswerRecords, ServerTyped, MessagesFit
<1>0. a.step # "late"
  OBVIOUS
<1>3. a.listed \in Seq(Aliases) /\ a.fetched \in Seq(ToolRecords)
  BY <1>2 DEF JobRecords
<1>4. ASSUME m.job \in M!Refreshing, Fresh(m.job)
      PROVE  /\ a.doing = "refresh"
             /\ m.says = "sessions" => m.aliases = live
             /\ m.says = "tools" => m.tools = M!ToolsOf(m.tools.selector)
             /\ a.step = "tools" => a.listed = live
             /\ \A k \in 1..Len(a.fetched) : a.fetched[k] = M!ToolsOf(a.fetched[k].selector)
  BY <1>4 DEF Fresh, M!Refreshing
<1>5. CASE m.says = "sessions"
  <2>1. b = [a EXCEPT !.listed = m.aliases] /\ m.aliases \in Seq(Aliases)
    BY <1>1, <1>5 DEF HeardBy, AnswerRecords
  <2>2. a.step = "sessions" /\ a.fetched = <<>>
    BY <1>0, <1>2, <1>5 DEF ReplyFits, JobFits
  <2>3. /\ b \in JobRecords /\ b.listed = m.aliases /\ b.fetched = <<>> /\ b.doing = a.doing
        /\ b.step = "sessions" /\ b.wanted = a.wanted
    BY <1>2, <2>1, <2>2 DEF JobRecords
  <2>4. Len(b.fetched) = 0 /\ Len(b.listed) \in Nat
    BY <2>1, <2>3
  <2>5. JobFits(b)
    BY <1>2, <2>3, <2>4 DEF JobFits
  <2> HIDE DEF b, a
  <2>6. m.job \in M!Refreshing /\ Fresh(m.job) => b.listed = live
    BY <1>4, <1>5, <2>3
  <2>7. 1..Len(b.fetched) = {}
    BY <2>4
  <2> QED  BY <1>1, <1>2, <2>2, <2>3, <2>5, <2>6, <2>7 DEF a, b
<1>6. CASE m.says = "tools"
  <2>1. /\ b = [a EXCEPT !.fetched = Append(a.fetched, m.tools)] /\ m.tools \in ToolRecords
    BY <1>1, <1>6 DEF HeardBy, AnswerRecords
  <2>2. /\ a.step = "tools" /\ Len(a.fetched) < Len(a.listed)
        /\ m.tools.selector = a.listed[Len(a.fetched) + 1]
    BY <1>0, <1>2, <1>6 DEF ReplyFits
  <2>3. /\ Append(a.fetched, m.tools) \in Seq(ToolRecords) /\ Len(a.fetched) \in Nat
        /\ Len(Append(a.fetched, m.tools)) = Len(a.fetched) + 1 /\ Len(a.listed) \in Nat
        /\ \A k \in 1..Len(a.fetched) : Append(a.fetched, m.tools)[k] = a.fetched[k]
        /\ Append(a.fetched, m.tools)[Len(a.fetched) + 1] = m.tools
    BY <1>3, <2>1
  <2>4. /\ b \in JobRecords /\ b.listed = a.listed /\ b.fetched = Append(a.fetched, m.tools)
        /\ b.doing = a.doing /\ b.step = "tools"
    BY <1>2, <2>1, <2>2, <2>3 DEF JobRecords
  <2> HIDE DEF b, a
  <2>5. \A k \in 1..Len(b.fetched) : \/ k \in 1..Len(a.fetched) /\ b.fetched[k] = a.fetched[k]
                                     \/ k = Len(a.fetched) + 1 /\ b.fetched[k] = m.tools
    BY <2>3, <2>4
  <2>6. JobFits(b)
    <3>1. \A k \in 1..Len(b.fetched) : b.fetched[k].selector = b.listed[k]
      BY <1>2, <2>2, <2>4, <2>5 DEF JobFits
    <3>2. Len(b.fetched) <= Len(b.listed)
      BY <2>2, <2>3, <2>4
    <3> QED  BY <2>4, <3>1, <3>2 DEF JobFits
  <2>7. ASSUME m.job \in M!Refreshing, Fresh(m.job)
        PROVE  /\ b.listed = live
               /\ \A k \in 1..Len(b.fetched) : b.fetched[k] = M!ToolsOf(b.fetched[k].selector)
    BY <1>4, <1>6, <2>2, <2>4, <2>5, <2>7
  <2> QED  BY <1>1, <1>2, <2>2, <2>4, <2>6, <2>7 DEF a, b
<1>7. CASE m.says = "result"
  <2>1. b = [a EXCEPT !.step = "done"]
    BY <1>7 DEF HeardBy
  <2>2. a.step = "result" /\ a.doing # "refresh"
    BY <1>0, <1>2, <1>7 DEF ReplyFits, JobFits
  <2>3. /\ b \in JobRecords /\ b.listed = a.listed /\ b.fetched = a.fetched /\ b.doing = a.doing
        /\ b.step = "done"
    BY <1>2, <2>1 DEF JobRecords
  <2>4. JobFits(b)
    BY <1>2, <2>2, <2>3 DEF JobFits
  <2> HIDE DEF b
  <2> QED  BY <1>1, <1>2, <2>2, <2>3, <2>4 DEF b, M!Refreshing
<1> QED  BY <1>1, <1>5, <1>6, <1>7 DEF AnswerRecords

LEMMA HearAnswerIInv ==
    ASSUME McpIInv, M!HearAnswer
    PROVE  McpIInv'
<1>1. DaemonTyped /\ WireTyped /\ ServerTyped /\ AgentTyped /\ MessagesFit /\ OneAnswerEach
      /\ Followed /\ M!GateBeforeRun
  BY DEF McpIInv
<1> DEFINE m == Head(replies)
           j == m.job
           b == HeardBy(m, jobs[m.job])
<1>2. /\ replies # <<>> /\ m # M!Event /\ replies' = Tail(replies)
      /\ woken' = Append(woken, j) /\ reading' = TRUE
      /\ UNCHANGED <<live, tool, suspended, changes, requests, open, older, overtaken,
                     keyBehind, lastKey, emitted, channel, listing, notified, ran>>
  BY DEF M!HearAnswer, M!MayRead, M!daemonVars, M!refreshVars, M!agentVars
<1>3. /\ Tail(replies) \in Seq(Replies) /\ m \in Elems(replies) \ {M!Event}
      /\ Elems(replies) = {m} \union Elems(Tail(replies))
      /\ replies \in Seq(Replies) /\ requests \in Seq(Requests) /\ woken \in Seq(Jobs)
  <2>1. replies \in Seq(Replies) /\ requests \in Seq(Requests) /\ woken \in Seq(Jobs)
    BY <1>1 DEF WireTyped, ServerTyped, Replies
  <2> QED  BY <1>2, <2>1, ElemsTail
<1>4. /\ m \in AnswerRecords /\ j \in Jobs
      /\ b \in JobRecords /\ JobFits(b) /\ b.doing = jobs[j].doing
      /\ jobs[j].step \in {"sessions", "tools", "result"}
      /\ b.step \in {"sessions", "tools", "done"}
      /\ j \in M!Refreshing /\ Fresh(j) =>
           /\ b.listed = live
           /\ \A k \in 1..Len(b.fetched) : b.fetched[k] = M!ToolsOf(b.fetched[k].selector)
  <2>1. m \in AnswerRecords /\ jobs[j] \in JobRecords /\ JobFits(jobs[j]) /\ jobs[j] # M!Late
    BY <1>1, <1>3, ElemsTyped DEF WireTyped, ServerTyped, MessagesFit, M!HearAnswer, AnswerRecords
  <2>2. jobs[j].step # "late"
    BY <2>1 DEF JobFits
  <2> HIDE DEF m
  <2> QED  BY <1>1, <1>3, <2>2, HeardFits
<1>5. jobs' = [jobs EXCEPT ![j] = b]
  <2>1. m.says \in {"sessions", "tools", "result"}
    BY <1>4 DEF AnswerRecords
  <2>2. jobs' = CASE m.says = "sessions" -> [jobs EXCEPT ![j] = [jobs[j] EXCEPT !.listed = m.aliases]]
                  [] m.says = "tools" ->
                       [jobs EXCEPT ![j] = [jobs[j] EXCEPT !.fetched = Append(@, m.tools)]]
                  [] m.says = "result" -> [jobs EXCEPT ![j] = [jobs[j] EXCEPT !.step = "done"]]
    BY DEF M!HearAnswer
  <2> HIDE DEF m
  <2> QED  BY <2>1, <2>2 DEF HeardBy
<1> HIDE DEF m, b
<1>6. /\ woken' \in Seq(Jobs) /\ Elems(woken') = Elems(woken) \union {j}
  BY <1>2, <1>3, <1>4, ElemsAppend
<1>7. WireTyped'
  BY <1>1, <1>2, <1>3 DEF WireTyped, Replies, M!Event, AnswerRecords
<1>8. ASSUME NEW k \in Jobs
      PROVE  /\ Flying(requests, replies, woken, k)
                  = Flying(requests, Tail(replies), woken, k) + (IF j = k THEN 1 ELSE 0)
             /\ Flying(requests, Tail(replies), Append(woken, j), k)
                  = Flying(requests, Tail(replies), woken, k) + (IF j = k THEN 1 ELSE 0)
             /\ Flying(requests, Tail(replies), woken, k) \in Nat
             /\ Flying(requests, replies, woken, k)
                  = IF jobs[k].step \in {"idle", "human"} THEN 0 ELSE 1
  <2>1. Flying(requests, replies, woken, k) = Flying(requests, Tail(replies), woken, k)
          + (IF Head(replies) # M!Event /\ Head(replies).job = k THEN 1 ELSE 0)
    BY <1>2, <1>3, FlyingTails
  <2>2. (IF Head(replies) # M!Event /\ Head(replies).job = k THEN 1 ELSE 0)
          = (IF j = k THEN 1 ELSE 0)
    BY <1>2 DEF m
  <2>3. Flying(requests, Tail(replies), woken, k) \in Nat
    BY <1>3, FlyingIs
  <2>4. \A rp \in Seq(Replies) : Flying(requests, rp, Append(woken, j), k)
          = Flying(requests, rp, woken, k) + (IF j = k THEN 1 ELSE 0)
    BY <1>3, <1>4, FlyingWoken
  <2>5. Flying(requests, Tail(replies), Append(woken, j), k)
          = Flying(requests, Tail(replies), woken, k) + (IF j = k THEN 1 ELSE 0)
    BY <1>3, <2>4
  <2>6. Flying(requests, replies, woken, k)
          = IF jobs[k].step \in {"idle", "human"} THEN 0 ELSE 1
    BY <1>1, Accounted
  <2>7. Flying(requests, replies, woken, k)
          = Flying(requests, Tail(replies), woken, k) + (IF j = k THEN 1 ELSE 0)
    BY <2>1, <2>2, Zenon
  <2> QED  BY <2>3, <2>5, <2>6, <2>7
<1>9. NoneOf(requests, Tail(replies), woken, j)
  <2>1. Flying(requests, Tail(replies), woken, j) = 0
    BY <1>4, <1>8
  <2>2. \A rp \in Seq(Replies) :
          Flying(requests, rp, woken, j) = 0 => NoneOf(requests, rp, woken, j)
    BY <1>3, <1>4, FlyingIs
  <2> QED  BY <1>3, <2>1, <2>2
<1>10. \A k \in Jobs : jobs'[k] = IF k = j THEN b ELSE jobs[k]
  BY <1>1, <1>5 DEF ServerTyped
<1>11. MessagesFit'
  <2>1. \A r \in Elems(requests') : IF r.job = j THEN RequestFits(r, b) ELSE r \in Elems(requests)
    BY <1>2, <1>9 DEF NoneOf, Elems
  <2>2. \A a \in Elems(replies') \ {M!Event} :
           IF a.job = j THEN ReplyFits(a, b) ELSE a \in Elems(replies)
    BY <1>2, <1>3, <1>9 DEF NoneOf
  <2>3. \A k \in Elems(woken') :
           IF k = j THEN b.step \in {"sessions", "tools", "done"} ELSE k \in Elems(woken)
    BY <1>4, <1>6
  <2> HIDE DEF j
  <2> QED  BY <1>1, <1>4, <1>5, <1>6, <1>7, <2>1, <2>2, <2>3, Moved
<1>12. OneAnswerEach'
  <2>1. ASSUME NEW k \in Jobs
        PROVE  Flying(requests', replies', woken', k)
                 = IF jobs'[k].step \in {"idle", "human"} THEN 0 ELSE 1
    <3>1. Flying(requests', replies', woken', k) = Flying(requests, replies, woken, k)
      BY <1>2, <1>8, Zenon
    <3>2. jobs'[k].step \in {"idle", "human"} <=> jobs[k].step \in {"idle", "human"}
      BY <1>4, <1>10
    <3> QED  BY <1>8, <3>1, <3>2
  <2> QED  BY <1>6, <1>7, <2>1, AccountedNext
<1>13. M!Refreshing' = M!Refreshing
  BY <1>4, <1>10 DEF M!Refreshing
<1>14. DaemonTyped' /\ ServerTyped' /\ AgentTyped'
  <2>1. jobs' \in [Jobs -> JobRecords]
    BY <1>1, <1>4, <1>5 DEF ServerTyped
  <2> QED  BY <1>1, <1>2, <1>6, <1>13, <2>1
           DEF ServerTyped, AgentTyped, DaemonTyped, M!NoListing, M!Flagged, M!Entry, M!LiveSet,
               M!IsInjective
<1>15. Followed'
  <2>1. M!Event \notin Elems(replies') => M!Event \notin Elems(replies)
    BY <1>2, <1>3
  <2>2. ASSUME NEW last \in M!Refreshing, Fresh(last) PROVE Fresh(last)'
    <3>1. CASE last # j
      <4>1. jobs'[last] = jobs[last]
        BY <1>10, <3>1 DEF M!Refreshing
      <4>2. \A a \in Elems(replies') \ {M!Event} : a.job = last => a \in Elems(replies)
        BY <1>2, <1>3
      <4>3. last \in Elems(woken') => last \in Elems(woken)
        BY <1>6, <3>1
      <4> QED  BY <1>2, <2>2, <4>1, <4>2, <4>3, FreshKept
    <3>2. CASE last = j
      <4>1. \A a : M!ToolsOf(a)' = M!ToolsOf(a)
        BY <1>2 DEF M!ToolsOf, M!LiveSet
      <4>2. \A a \in Elems(replies') \ {M!Event} : a.job # last
        BY <1>2, <1>9, <3>2 DEF NoneOf
      <4>3. /\ jobs'[last].listed = live'
            /\ \A k \in 1..Len(jobs'[last].fetched) :
                  jobs'[last].fetched[k] = M!ToolsOf(jobs'[last].fetched[k].selector)
        BY <1>2, <1>4, <1>10, <2>2, <3>2
      <4>4. \A k \in 1..Len(jobs'[last].fetched) :
              jobs'[last].fetched[k] = M!ToolsOf(jobs[last].fetched[k].selector)'
        BY <4>1, <4>3
      <4> QED  BY <4>2, <4>3, <4>4 DEF Fresh, Elems, M!Event, M!ToolsOf
    <3> QED  BY <3>1, <3>2
  <2> QED  BY <1>1, <1>2, <1>13, <2>1, <2>2, FollowedKept
<1>16. M!GateBeforeRun'
  BY <1>1, <1>2 DEF M!GateBeforeRun
<1> QED  BY <1>7, <1>11, <1>12, <1>14, <1>15, <1>16 DEF McpIInv

-------------------------------------------------------------------------------
(***************************************************************************)
(* A job goes on: a continuation, or what a human said.                    *)
(***************************************************************************)
\* It is the turn of job j, for which no message is left,
Turn(j) ==
    /\ woken' \in Seq(Jobs) /\ Elems(woken') \subseteq Elems(woken) /\ reading' \in BOOLEAN
    /\ NoneOf(requests, replies, woken', j)
    /\ \A k \in Jobs : Flying(requests, replies, woken', k)
                         = IF k = j \/ jobs[k].step \in {"idle", "human"} THEN 0 ELSE 1
\* and job j becomes b, which waits for no answer, or for that to one request.
Becomes(j, b) ==
    /\ jobs' = [jobs EXCEPT ![j] = b]
    /\ UNCHANGED <<live, tool, suspended, changes, replies, open>>
    /\ \/ requests' = requests /\ b.step \in {"idle", "human"}
       \/ /\ b.step \in {"sessions", "tools", "result", "done"}
          /\ \E r \in Requests :
               r.job = j /\ RequestFits(r, b) /\ requests' = Append(requests, r)

LEMMA TurnOf ==
    ASSUME WireTyped, ServerTyped, MessagesFit, OneAnswerEach, NEW j \in Jobs,
           M!Continue(j) \/ (jobs[j].step = "human" /\ UNCHANGED <<woken, reading>>)
    PROVE  /\ Turn(j)
           /\ M!Continue(j) => j \in Elems(woken)
<1>1. CASE M!Continue(j)
  <2>1. /\ woken # <<>> /\ j = Head(woken) /\ woken' = Tail(woken) /\ reading' = FALSE
    BY <1>1 DEF M!Continue
  <2>2. Elems(woken) = {Head(woken)} \union Elems(Tail(woken))
    BY <2>1, ElemsTail DEF ServerTyped
  <2> QED  BY <2>1, <2>2, JustWoken DEF Turn
<1>2. CASE jobs[j].step = "human" /\ UNCHANGED <<woken, reading>>
  <2>1. NoneOf(requests, replies, woken, j)
    BY <1>2, Silent
  <2>2. \A k \in Jobs : Flying(requests, replies, woken, k)
                          = IF jobs[k].step \in {"idle", "human"} THEN 0 ELSE 1
    BY Accounted
  <2>3. woken' \in Seq(Jobs) /\ Elems(woken') \subseteq Elems(woken) /\ reading' \in BOOLEAN
    BY <1>2 DEF ServerTyped, Elems
  <2>4. ~M!Continue(j)
    <3>1. ASSUME M!Continue(j) PROVE FALSE
      <4>1. woken # <<>> /\ j = Head(woken)
        BY <3>1 DEF M!Continue
      <4>2. jobs[j].step \in {"sessions", "tools", "done"}
        BY <4>1, JustWoken
      <4> QED  BY <1>2, <4>2
    <3> QED  BY <3>1
  <2> QED  BY <1>2, <2>1, <2>2, <2>3, <2>4 DEF Turn
<1> QED  BY <1>1, <1>2

LEMMA Resumed ==
    ASSUME WireTyped, ServerTyped, MessagesFit, OneAnswerEach, NEW j \in Jobs, Turn(j),
           NEW b \in JobRecords, JobFits(b), Becomes(j, b)
    PROVE  /\ WireTyped' /\ MessagesFit' /\ OneAnswerEach' /\ jobs' \in [Jobs -> JobRecords]
           /\ woken' \in Seq(Jobs) /\ reading' \in BOOLEAN
           /\ \A k \in Jobs : jobs'[k] = IF k = j THEN b ELSE jobs[k]
<1>1. /\ woken' \in Seq(Jobs) /\ Elems(woken') \subseteq Elems(woken) /\ reading' \in BOOLEAN
      /\ NoneOf(requests, replies, woken', j)
      /\ \A k \in Jobs : Flying(requests, replies, woken', k)
                           = IF k = j \/ jobs[k].step \in {"idle", "human"} THEN 0 ELSE 1
  BY DEF Turn
<1>2. jobs' = [jobs EXCEPT ![j] = b] /\ UNCHANGED <<replies, open>>
  BY DEF Becomes
<1>3. /\ requests \in Seq(Requests) /\ replies \in Seq(Replies)
      /\ jobs \in [Jobs -> JobRecords]
  BY DEF WireTyped, ServerTyped, Replies
<1>4. \A k \in Jobs : jobs'[k] = IF k = j THEN b ELSE jobs[k]
  BY <1>2, <1>3
<1>5. /\ requests' \in Seq(Requests)
      /\ \A r \in Elems(requests') : IF r.job = j THEN RequestFits(r, b) ELSE r \in Elems(requests)
      /\ \A k \in Jobs : Flying(requests', replies, woken', k)
                           = IF jobs'[k].step \in {"idle", "human"} THEN 0 ELSE 1
  <2>1. CASE requests' = requests /\ b.step \in {"idle", "human"}
    <3>1. \A k \in Jobs : k = j \/ jobs[k].step \in {"idle", "human"}
                            <=> jobs'[k].step \in {"idle", "human"}
      BY <1>4, <2>1
    <3>2. \A k \in Jobs : Flying(requests', replies, woken', k)
                            = IF jobs'[k].step \in {"idle", "human"} THEN 0 ELSE 1
      BY <1>1, <2>1, <3>1
    <3>3. \A r \in Elems(requests') : r \in Elems(requests) /\ r.job # j
      BY <1>1, <2>1 DEF NoneOf, Elems
    <3> QED  BY <1>3, <2>1, <3>2, <3>3
  <2>2. CASE /\ b.step \in {"sessions", "tools", "result", "done"}
             /\ \E r \in Requests :
                  r.job = j /\ RequestFits(r, b) /\ requests' = Append(requests, r)
    <3>1. PICK r \in Requests : r.job = j /\ RequestFits(r, b) /\ requests' = Append(requests, r)
      BY <2>2
    <3>2. requests' \in Seq(Requests) /\ Elems(requests') = Elems(requests) \union {r}
      BY <1>3, <3>1, ElemsAppend
    <3>3. \A q \in Elems(requests') :
            IF q.job = j THEN RequestFits(q, b) ELSE q \in Elems(requests)
      BY <1>1, <3>1, <3>2 DEF NoneOf
    <3>4. ASSUME NEW k \in Jobs
          PROVE  Flying(requests', replies, woken', k)
                   = IF jobs'[k].step \in {"idle", "human"} THEN 0 ELSE 1
      <4>1. Flying(Append(requests, r), replies, woken', k)
              = Flying(requests, replies, woken', k) + (IF r.job = k THEN 1 ELSE 0)
        BY <1>1, <1>3, FlyingAsked
      <4>2. Flying(requests, replies, woken', k)
              = IF k = j \/ jobs[k].step \in {"idle", "human"} THEN 0 ELSE 1
        BY <1>1
      <4>3. CASE k = j
        BY <1>4, <2>2, <3>1, <4>1, <4>2, <4>3
      <4>4. CASE k # j
        BY <1>4, <3>1, <4>1, <4>2, <4>4
      <4> QED  BY <4>3, <4>4
    <3> QED  BY <3>2, <3>3, <3>4
  <2> QED  BY <2>1, <2>2 DEF Becomes
<1>6. WireTyped'
  BY <1>2, <1>5 DEF WireTyped, M!Event, AnswerRecords
<1>7. MessagesFit'
  <2>1. \A m \in Elems(replies') \ {M!Event} :
           IF m.job = j THEN ReplyFits(m, b) ELSE m \in Elems(replies)
    BY <1>1, <1>2 DEF NoneOf, Elems
  <2>2. \A k \in Elems(woken') :
           IF k = j THEN b.step \in {"sessions", "tools", "done"} ELSE k \in Elems(woken)
    BY <1>1 DEF NoneOf
  <2> QED  BY <1>1, <1>2, <1>5, <1>6, <2>1, <2>2, Moved
<1>8. OneAnswerEach'
  BY <1>1, <1>2, <1>5, <1>6, AccountedNext
<1> QED  BY <1>1, <1>2, <1>3, <1>4, <1>6, <1>7, <1>8

\* A job that is no refresh goes on: the refreshes do not notice.
LEMMA OtherIInv ==
    ASSUME McpIInv, NEW j \in Jobs, Turn(j), NEW b \in JobRecords, JobFits(b), Becomes(j, b),
           jobs[j].doing # "refresh", b.doing # "refresh",
           UNCHANGED <<older, overtaken, keyBehind, lastKey>>, AgentTyped', M!GateBeforeRun'
    PROVE  McpIInv'
<1>1. DaemonTyped /\ WireTyped /\ ServerTyped /\ MessagesFit /\ OneAnswerEach /\ Followed
  BY DEF McpIInv
<1>2. /\ WireTyped' /\ MessagesFit' /\ OneAnswerEach' /\ jobs' \in [Jobs -> JobRecords]
      /\ woken' \in Seq(Jobs) /\ reading' \in BOOLEAN
      /\ \A k \in Jobs : jobs'[k] = IF k = j THEN b ELSE jobs[k]
  BY <1>1, Resumed
<1>3. UNCHANGED <<live, tool, suspended, changes, replies, open>>
  BY DEF Becomes
<1>4. M!Refreshing' = M!Refreshing
  BY <1>2 DEF M!Refreshing
<1>5. DaemonTyped' /\ ServerTyped'
  BY <1>1, <1>2, <1>3, <1>4 DEF ServerTyped, DaemonTyped, M!Entry, M!LiveSet, M!IsInjective
<1>6. Followed'
  <2>1. Elems(replies') = Elems(replies) /\ Elems(woken') \subseteq Elems(woken)
    BY <1>3 DEF Elems, Turn
  <2>2. ASSUME NEW last \in M!Refreshing, Fresh(last) PROVE Fresh(last)'
    <3>1. jobs'[last] = jobs[last]
      BY <1>2 DEF M!Refreshing
    <3> QED  BY <1>3, <2>1, <2>2, <3>1, FreshKept
  <2> QED  BY <1>1, <1>3, <1>4, <2>1, <2>2, FollowedKept
<1> QED  BY <1>2, <1>5, <1>6 DEF McpIInv

LEMMA FetchNextIInv ==
    ASSUME McpIInv, NEW j \in Jobs, M!FetchNext(j)
    PROVE  McpIInv'
<1>1. DaemonTyped /\ WireTyped /\ ServerTyped /\ AgentTyped /\ MessagesFit /\ OneAnswerEach
      /\ Followed /\ M!GateBeforeRun
  BY DEF McpIInv
<1> DEFINE a == jobs[j]
           b == [a EXCEPT !.step = "tools"]
           r == M!Asks(j, "tools", a.listed[Len(a.fetched) + 1], "none", {})
<1>2. /\ M!Continue(j) /\ a.step \in {"sessions", "tools"} /\ Len(a.fetched) # Len(a.listed)
      /\ requests' = Append(requests, r)
      /\ UNCHANGED <<live, tool, suspended, changes, replies, open, older, overtaken, keyBehind,
                     lastKey, emitted, channel, listing, notified, ran>>
  BY DEF M!FetchNext, M!Fetched, M!daemonVars, M!refreshVars, M!agentVars
<1>3. jobs' = [jobs EXCEPT ![j] = b]
  BY DEF M!FetchNext
<1>4. a \in JobRecords /\ JobFits(a)
  BY <1>1 DEF ServerTyped, MessagesFit
<1>5. Turn(j) /\ j \in Elems(woken)
  BY <1>1, <1>2, TurnOf
<1> HIDE DEF a
<1>6. /\ b \in JobRecords /\ b.step = "tools" /\ b.listed = a.listed /\ b.fetched = a.fetched
      /\ b.doing = a.doing
  BY <1>4 DEF JobRecords
<1>7. a.listed \in Seq(Aliases) /\ a.fetched \in Seq(ToolRecords)
  BY <1>4 DEF JobRecords
<1> HIDE DEF b
<1>8. Len(a.fetched) < Len(a.listed)
  <2>1. Len(a.fetched) \in Nat /\ Len(a.listed) \in Nat
    BY <1>7
  <2> QED  BY <1>2, <1>4, <2>1 DEF JobFits
<1>9. a.listed[Len(a.fetched) + 1] \in Aliases
  BY <1>7, <1>8, AtNext
<1>10. JobFits(b)
  BY <1>4, <1>6 DEF JobFits
<1>11. r \in Requests /\ r.job = j /\ RequestFits(r, b)
  <2>1. r \in Requests /\ r.job = j /\ r.asks = "tools" /\ r.consent = "none"
        /\ r.of = a.listed[Len(a.fetched) + 1]
    BY <1>9 DEF M!Asks, Requests, Names
  <2> HIDE DEF r
  <2> QED  BY <1>6, <1>8, <1>9, <2>1 DEF RequestFits
<1> HIDE DEF r
<1>12. Becomes(j, b)
  BY <1>2, <1>3, <1>6, <1>11 DEF Becomes
<1>13. /\ WireTyped' /\ MessagesFit' /\ OneAnswerEach' /\ jobs' \in [Jobs -> JobRecords]
       /\ woken' \in Seq(Jobs) /\ reading' \in BOOLEAN
       /\ \A k \in Jobs : jobs'[k] = IF k = j THEN b ELSE jobs[k]
  BY <1>1, <1>5, <1>6, <1>10, <1>12, Resumed
<1>14. M!Refreshing' = M!Refreshing
  BY <1>6, <1>13 DEF M!Refreshing, a
<1>15. DaemonTyped' /\ ServerTyped' /\ AgentTyped'
  BY <1>1, <1>2, <1>13, <1>14
     DEF ServerTyped, AgentTyped, DaemonTyped, M!NoListing, M!Flagged, M!Entry, M!LiveSet,
         M!IsInjective
<1>16. Followed'
  <2>1. Elems(replies') = Elems(replies) /\ Elems(woken') \subseteq Elems(woken)
    BY <1>2, <1>5 DEF Elems, Turn
  <2>2. ASSUME NEW last \in M!Refreshing, Fresh(last) PROVE Fresh(last)'
    <3>1. CASE last # j
      <4>1. jobs'[last] = jobs[last]
        BY <1>13, <3>1 DEF M!Refreshing
      <4> QED  BY <1>2, <2>1, <2>2, <4>1, FreshKept
    <3>2. CASE last = j
      <4>1. \A c : M!ToolsOf(c)' = M!ToolsOf(c)
        BY <1>2 DEF M!ToolsOf, M!LiveSet
      <4>2. \A m \in Elems(replies') \ {M!Event} : m.job # last
        BY <1>5, <2>1, <3>2 DEF NoneOf, Turn
      <4>3. jobs'[last].listed = live' /\ jobs'[last].fetched = jobs[last].fetched
        BY <1>2, <1>5, <1>6, <1>13, <2>2, <3>2 DEF Fresh, a
      <4>4. \A k \in 1..Len(jobs'[last].fetched) :
              jobs'[last].fetched[k] = M!ToolsOf(jobs[last].fetched[k].selector)'
        BY <2>2, <4>1, <4>3 DEF Fresh
      <4> QED  BY <4>2, <4>3, <4>4 DEF Fresh, Elems, M!Event, M!ToolsOf
    <3> QED  BY <3>1, <3>2
  <2> QED  BY <1>1, <1>2, <1>14, <2>1, <2>2, FollowedKept
<1>17. M!GateBeforeRun'
  BY <1>1, <1>2 DEF M!GateBeforeRun
<1> QED  BY <1>13, <1>15, <1>16, <1>17 DEF McpIInv

\* A job that is no refresh is done.
LEMMA DoneIInv ==
    ASSUME McpIInv, NEW j \in Jobs,
           M!Continue(j) \/ (jobs[j].step = "human" /\ UNCHANGED <<woken, reading>>),
           jobs[j].doing # "refresh", jobs' = [jobs EXCEPT ![j] = M!Idle],
           UNCHANGED <<live, tool, suspended, changes, requests, replies, open, older, overtaken,
                       keyBehind, lastKey>>,
           AgentTyped', M!GateBeforeRun'
    PROVE  McpIInv'
<1>1. WireTyped /\ ServerTyped /\ MessagesFit /\ OneAnswerEach
  BY DEF McpIInv
<1>2. Turn(j)
  BY <1>1, TurnOf
<1>3. M!Idle \in JobRecords /\ JobFits(M!Idle)
  BY IdleTyped
<1>4. M!Idle.step = "idle" /\ M!Idle.doing = "nothing"
  BY DEF M!Idle
<1>5. Becomes(j, M!Idle)
  BY <1>4 DEF Becomes
<1> QED  BY <1>2, <1>3, <1>4, <1>5, OtherIInv

LEMMA EntriesTyped ==
    ASSUME ServerTyped, NEW j \in Jobs
    PROVE  M!Entries(j) \in SUBSET M!Entry
<1>1. jobs[j].fetched \in Seq(ToolRecords)
  BY DEF ServerTyped, JobRecords
<1> QED  BY <1>1, NamespacedTyped DEF M!Entries

LEMMA ListedIInv ==
    ASSUME McpIInv, NEW j \in Jobs, M!Listed(j)
    PROVE  McpIInv'
<1>1. ServerTyped /\ AgentTyped /\ M!GateBeforeRun
  BY DEF McpIInv
<1>2. /\ M!Continue(j) /\ jobs[j].doing = "list" /\ jobs' = [jobs EXCEPT ![j] = M!Idle]
      /\ emitted' = M!Flagged(M!Entries(j)) /\ listing' = <<M!Entries(j)>>
      /\ UNCHANGED <<live, tool, suspended, changes, requests, replies, open, older, overtaken,
                     keyBehind, lastKey, channel, notified, ran>>
  BY DEF M!Listed, M!HasFetched, M!daemonVars, M!wireVars, M!refreshVars
<1>3. AgentTyped'
  <2>1. PICK E \in SUBSET M!Entry : E = M!Entries(j)
    BY <1>1, EntriesTyped
  <2>2. listing' = <<E>> /\ listing' \in Seq(SUBSET M!Entry) /\ Len(listing') = 1
        /\ listing'[1] = E /\ listing' # <<>>
    BY <1>2, <2>1
  <2>3. emitted' = M!Flagged(listing'[1])
    BY <1>2, <2>1, <2>2
  <2>4. M!Flagged(listing[1])' = M!Flagged(listing'[1])
    BY <1>2 DEF M!Flagged
  <2> HIDE DEF M!Entries
  <2> QED  BY <1>1, <1>2, <2>2, <2>3, <2>4 DEF AgentTyped, M!NoListing, M!Flagged, M!Entry
<1>4. M!GateBeforeRun'
  BY <1>1, <1>2 DEF M!GateBeforeRun
<1> QED  BY <1>2, <1>3, <1>4, DoneIInv

LEMMA NotFoundIInv ==
    ASSUME McpIInv, NEW j \in Jobs, M!NotFound(j)
    PROVE  McpIInv'
<1>1. ServerTyped /\ AgentTyped /\ M!GateBeforeRun
  BY DEF McpIInv
<1>2. /\ M!Continue(j) /\ jobs[j].doing = "call" /\ jobs' = [jobs EXCEPT ![j] = M!Idle]
      /\ UNCHANGED <<live, tool, suspended, changes, requests, replies, open, older, overtaken,
                     keyBehind, lastKey, emitted, channel, listing, notified, ran>>
  BY DEF M!NotFound, M!HasFetched, M!daemonVars, M!wireVars, M!refreshVars, M!agentVars
<1>3. AgentTyped' /\ M!GateBeforeRun'
  BY <1>1, <1>2 DEF AgentTyped, M!NoListing, M!Flagged, M!Entry, M!GateBeforeRun
<1> QED  BY <1>2, <1>3, DoneIInv

LEMMA HumanDeclinesIInv ==
    ASSUME McpIInv, NEW j \in Jobs, M!HumanDeclines(j)
    PROVE  McpIInv'
<1>1. ServerTyped /\ AgentTyped /\ MessagesFit /\ M!GateBeforeRun
  BY DEF McpIInv
<1>2. /\ jobs[j].step = "human" /\ jobs' = [jobs EXCEPT ![j] = M!Idle]
      /\ UNCHANGED <<live, tool, suspended, changes, requests, replies, open, woken, reading, older,
                     overtaken, keyBehind, lastKey, emitted, channel, listing, notified, ran>>
  BY DEF M!HumanDeclines, M!daemonVars, M!wireVars, M!refreshVars, M!agentVars
<1>3. AgentTyped' /\ M!GateBeforeRun'
  BY <1>1, <1>2 DEF AgentTyped, M!NoListing, M!Flagged, M!Entry, M!GateBeforeRun
<1>4. jobs[j].doing # "refresh"
  BY <1>1, <1>2 DEF MessagesFit, JobFits
<1> QED  BY <1>2, <1>3, <1>4, DoneIInv

LEMMA CallDoneIInv ==
    ASSUME McpIInv, NEW j \in Jobs, M!CallDone(j)
    PROVE  McpIInv'
<1>1. ServerTyped /\ AgentTyped /\ MessagesFit
  BY DEF McpIInv
<1>2. /\ M!Continue(j) /\ jobs[j].step = "done" /\ jobs' = [jobs EXCEPT ![j] = M!Idle] /\ ran' = {}
      /\ UNCHANGED <<live, tool, suspended, changes, requests, replies, open, older, overtaken,
                     keyBehind, lastKey, emitted, channel, listing, notified>>
  BY DEF M!CallDone, M!daemonVars, M!wireVars, M!refreshVars
<1>3. AgentTyped' /\ M!GateBeforeRun'
  BY <1>1, <1>2 DEF AgentTyped, M!NoListing, M!Flagged, M!Entry, M!GateBeforeRun
<1>4. jobs[j].doing # "refresh"
  BY <1>1, <1>2 DEF MessagesFit, JobFits
<1> QED  BY <1>2, <1>3, <1>4, DoneIInv

LEMMA AskHumanIInv ==
    ASSUME McpIInv, NEW j \in Jobs, M!AskHuman(j)
    PROVE  McpIInv'
<1>1. WireTyped /\ ServerTyped /\ AgentTyped /\ MessagesFit /\ OneAnswerEach /\ M!GateBeforeRun
  BY DEF McpIInv
<1> DEFINE a == jobs[j]
           b == [a EXCEPT !.step = "human"]
<1>2. /\ M!Continue(j) /\ a.doing = "call" /\ jobs' = [jobs EXCEPT ![j] = b]
      /\ UNCHANGED <<live, tool, suspended, changes, requests, replies, open, older, overtaken,
                     keyBehind, lastKey, emitted, channel, listing, notified, ran>>
  BY DEF M!AskHuman, M!Found, M!HasFetched, M!daemonVars, M!wireVars, M!refreshVars, M!agentVars
<1>3. AgentTyped' /\ M!GateBeforeRun'
  BY <1>1, <1>2 DEF AgentTyped, M!NoListing, M!Flagged, M!Entry, M!GateBeforeRun
<1>4. a \in JobRecords /\ JobFits(a)
  BY <1>1 DEF ServerTyped, MessagesFit
<1>5. /\ b \in JobRecords /\ b.step = "human" /\ b.listed = a.listed /\ b.fetched = a.fetched
      /\ b.doing = "call"
  BY <1>2, <1>4 DEF JobRecords
<1> HIDE DEF b
<1>6. JobFits(b)
  BY <1>4, <1>5 DEF JobFits
<1>7. Becomes(j, b)
  BY <1>2, <1>5 DEF Becomes
<1>8. Turn(j)
  BY <1>1, <1>2, TurnOf
<1> QED  BY <1>2, <1>3, <1>5, <1>6, <1>7, <1>8, OtherIInv

\* A call is sent, with a consent that rests on something.
LEMMA SendCallIInv ==
    ASSUME McpIInv, NEW j \in Jobs, NEW e \in M!Entries(j),
           M!Continue(j) \/ (jobs[j].step = "human" /\ UNCHANGED <<woken, reading>>),
           jobs[j].doing # "refresh",
           NEW consent \in {"none", "client", "elicitation"}, NEW shown \in SUBSET Aliases,
           consent # "none" => shown # {}, M!SendCall(j, e, consent, shown)
    PROVE  McpIInv'
<1>1. WireTyped /\ ServerTyped /\ AgentTyped /\ MessagesFit /\ OneAnswerEach /\ M!GateBeforeRun
  BY DEF McpIInv
<1> DEFINE b == [M!Idle EXCEPT !.doing = "call", !.step = "result"]
           r == M!Asks(j, "call", e.selector, consent, shown)
<1>2. /\ jobs' = [jobs EXCEPT ![j] = b] /\ requests' = Append(requests, r)
      /\ UNCHANGED <<live, tool, suspended, changes, replies, open, older, overtaken,
                     keyBehind, lastKey, emitted, channel, listing, notified, ran>>
  BY DEF M!SendCall, M!daemonVars, M!refreshVars, M!agentVars
<1>3. AgentTyped' /\ M!GateBeforeRun'
  BY <1>1, <1>2 DEF AgentTyped, M!NoListing, M!Flagged, M!Entry, M!GateBeforeRun
<1>4. /\ b \in JobRecords /\ JobFits(b) /\ b.step = "result" /\ b.doing = "call"
  <2>1. <<>> \in Seq(Aliases) /\ <<>> \in Seq(ToolRecords) /\ Len(<<>>) = 0
    OBVIOUS
  <2>2. b \in [doing : {"call"}, step : {"result"}, listed : {<<>>}, fetched : {<<>>},
               wanted : {Bare}]
    BY DEF M!Idle
  <2> HIDE DEF b
  <2>3. b \in JobRecords
    BY <2>1, <2>2 DEF JobRecords, Names
  <2>4. b.step = "result" /\ b.doing = "call" /\ b.listed = <<>> /\ b.fetched = <<>>
    BY <2>2
  <2> QED  BY <2>1, <2>3, <2>4 DEF JobFits
<1> HIDE DEF b
<1>5. e.selector \in Aliases
  BY <1>1, EntriesTyped DEF M!Entry
<1>6. r \in Requests /\ r.job = j /\ RequestFits(r, b)
  <2>1. /\ r \in Requests /\ r.job = j /\ r.asks = "call" /\ r.consent = consent
        /\ r.shown = shown
    BY <1>5 DEF M!Asks, Requests, Names
  <2> HIDE DEF r
  <2> QED  BY <1>4, <2>1 DEF RequestFits
<1> HIDE DEF r
<1>7. Becomes(j, b)
  BY <1>2, <1>4, <1>6 DEF Becomes
<1>8. Turn(j)
  BY <1>1, TurnOf
<1> QED  BY <1>2, <1>3, <1>4, <1>7, <1>8, OtherIInv

LEMMA CallAtOnceIInv ==
    ASSUME McpIInv, NEW j \in Jobs, M!CallAtOnce(j)
    PROVE  McpIInv'
<1>1. ServerTyped /\ AgentTyped
  BY DEF McpIInv
<1>2. PICK e \in M!Entries(j) :
        /\ M!Found(j, e)
        /\ M!SendCall(j, e, M!Consent(e), IF M!Consent(e) = "client" THEN M!ShownAs(e.name) ELSE {})
  BY DEF M!CallAtOnce
<1>3. M!Continue(j) /\ jobs[j].doing = "call"
  BY <1>2 DEF M!Found, M!HasFetched
<1>4. M!ShownAs(e.name) \in SUBSET Aliases
  <2>1. CASE listing = M!NoListing
    BY <2>1 DEF M!ShownAs
  <2>2. CASE listing # M!NoListing
    <3>1. listing[1] \in SUBSET M!Entry
      BY <1>1, <2>2 DEF AgentTyped, M!NoListing
    <3>2. \A a \in M!ShownAs(e.name) : \E d \in listing[1] : a = d.selector
      BY <2>2 DEF M!ShownAs
    <3> QED  BY <3>1, <3>2 DEF M!Entry
  <2> QED  BY <2>1, <2>2
<1>5. ASSUME M!Consent(e) = "client" PROVE M!ShownAs(e.name) # {}
  <2>1. e.name \in emitted
    BY <1>5 DEF M!Consent
  <2>2. listing # M!NoListing /\ e.name \in M!Flagged(listing[1])
    BY <1>1, <2>1 DEF AgentTyped
  <2>3. PICK d \in listing[1] : d.name = e.name
    BY <2>2 DEF M!Flagged
  <2>4. d.selector \in M!ShownAs(e.name)
    BY <2>2, <2>3 DEF M!ShownAs
  <2> QED  BY <2>4
<1>6. M!Consent(e) \in {"client", "none"}
  BY DEF M!Consent
<1>7. PICK consent \in {"none", "client", "elicitation"}, shown \in SUBSET Aliases :
        consent = M!Consent(e) /\ shown = IF consent = "client" THEN M!ShownAs(e.name) ELSE {}
  BY <1>4, <1>6
<1>8. (consent # "none" => shown # {}) /\ M!SendCall(j, e, consent, shown)
  BY <1>2, <1>5, <1>6, <1>7
<1> QED  BY <1>3, <1>8, SendCallIInv

LEMMA HumanAnswersIInv ==
    ASSUME McpIInv, NEW j \in Jobs, NEW accepts \in BOOLEAN, M!HumanAnswers(j, accepts)
    PROVE  McpIInv'
<1>1. ServerTyped /\ MessagesFit
  BY DEF McpIInv
<1>2. jobs[j].step = "human" /\ UNCHANGED <<woken, reading>>
  BY DEF M!HumanAnswers
<1>3. PICK e \in M!Entries(j) :
        \/ M!SendCall(j, e, "elicitation", {e.selector})
        \/ M!SendCall(j, e, "none", {})
  BY DEF M!HumanAnswers
<1>4. {e.selector} \in SUBSET Aliases
  BY <1>1, EntriesTyped DEF M!Entry
<1>5. jobs[j].doing # "refresh"
  BY <1>1, <1>2 DEF MessagesFit, JobFits
<1>6. CASE M!SendCall(j, e, "elicitation", {e.selector})
  BY <1>2, <1>4, <1>5, <1>6, SendCallIInv
<1>7. CASE M!SendCall(j, e, "none", {})
  BY <1>2, <1>5, <1>7, SendCallIInv
<1> QED  BY <1>3, <1>6, <1>7

-------------------------------------------------------------------------------
(***************************************************************************)
(* A refresh is done, and the connection is lost.                          *)
(***************************************************************************)
\* What a fresh refresh has fetched is what a listing would say now.
LEMMA FetchedIsCurrent ==
    ASSUME DaemonTyped, ServerTyped, MessagesFit, NEW j \in Jobs, Fresh(j), j \in Elems(woken),
           M!Fetched(j)
    PROVE  M!Entries(j) = M!Current
<1> DEFINE a == jobs[j]
<1>1. a.fetched \in Seq(ToolRecords) /\ live \in Seq(Aliases) /\ JobFits(a)
  BY DEF ServerTyped, JobRecords, DaemonTyped, MessagesFit
<1>2. a.listed = live /\ Len(a.fetched) = Len(live)
  BY DEF Fresh, M!Fetched
<1>3. \A k \in 1..Len(a.fetched) : a.fetched[k] = M!ToolsOf(live[k])
  BY <1>1, <1>2 DEF Fresh, JobFits
<1>4. a.fetched = [k \in 1..Len(live) |-> M!ToolsOf(live[k])]
  <2> HIDE DEF a
  <2>1. a.fetched = [k \in 1..Len(a.fetched) |-> a.fetched[k]]
    BY <1>1
  <2> QED  BY <1>2, <1>3, <2>1
<1> QED  BY <1>4 DEF M!Entries, M!Current

LEMMA RefreshedIInv ==
    ASSUME McpIInv, NEW j \in Jobs, M!Refreshed(j)
    PROVE  McpIInv'
<1>1. DaemonTyped /\ WireTyped /\ ServerTyped /\ AgentTyped /\ MessagesFit /\ OneAnswerEach
      /\ Followed /\ M!GateBeforeRun
  BY DEF McpIInv
<1>2. /\ M!Continue(j) /\ M!Fetched(j) /\ jobs[j].doing = "refresh"
      /\ jobs' = [jobs EXCEPT ![j] = M!Idle]
      /\ older' = [k \in Jobs |-> IF k = j THEN {} ELSE older[k] \ {j}]
      /\ overtaken' = (overtaken \union older[j]) \ {j}
      /\ keyBehind' = (j \in overtaken)
      /\ lastKey' = <<M!Entries(j)>>
      /\ notified' \in BOOLEAN
      /\ UNCHANGED <<live, tool, suspended, changes, requests, replies, open, emitted, channel,
                     listing, ran>>
  BY <1>1 DEF M!Refreshed, M!HasFetched, M!daemonVars, M!wireVars, AgentTyped
<1>3. Turn(j) /\ j \in Elems(woken)
  BY <1>1, <1>2, TurnOf
<1>4. M!Idle \in JobRecords /\ JobFits(M!Idle)
  BY IdleTyped
<1>5. M!Idle.step = "idle" /\ M!Idle.doing = "nothing"
  BY DEF M!Idle
<1>6. Becomes(j, M!Idle)
  BY <1>2, <1>5 DEF Becomes
<1>7. /\ WireTyped' /\ MessagesFit' /\ OneAnswerEach' /\ jobs' \in [Jobs -> JobRecords]
      /\ woken' \in Seq(Jobs) /\ reading' \in BOOLEAN
      /\ \A k \in Jobs : jobs'[k] = IF k = j THEN M!Idle ELSE jobs[k]
  BY <1>1, <1>3, <1>4, <1>6, Resumed
<1>8. M!Refreshing' = M!Refreshing \ {j} /\ j \in M!Refreshing
  BY <1>2, <1>5, <1>7 DEF M!Refreshing
<1>9. older \in [Jobs -> SUBSET M!Refreshing] /\ overtaken \subseteq M!Refreshing
  BY <1>1 DEF ServerTyped
<1>10. /\ older' \in [Jobs -> SUBSET M!Refreshing'] /\ overtaken' \subseteq M!Refreshing'
       /\ \A k \in Jobs \ {j} : older'[k] = older[k] \ {j}
  BY <1>2, <1>8, <1>9
<1>11. ServerTyped'
  <2>1. lastKey' \in Seq(SUBSET M!Entry) /\ Len(lastKey') <= 1
    <3>1. PICK E \in SUBSET M!Entry : E = M!Entries(j)
      BY <1>1, EntriesTyped
    <3> QED  BY <1>2, <3>1
  <2> QED  BY <1>2, <1>7, <1>10, <2>1 DEF ServerTyped, M!Entry
<1>12. DaemonTyped' /\ AgentTyped'
  BY <1>1, <1>2 DEF AgentTyped, DaemonTyped, M!NoListing, M!Flagged, M!Entry, M!LiveSet,
                    M!IsInjective
<1>13. Followed'
  <2> SUFFICES ASSUME open', M!Event \notin Elems(replies')
               PROVE  \/ \E last \in (M!Refreshing \ overtaken)' : Youngest(last)' /\ Fresh(last)'
                      \/ /\ (M!Refreshing \subseteq overtaken)'
                         /\ (keyBehind \/ lastKey = <<M!Current>>)'
    BY DEF Followed, Elems, M!Event
  <2>1. Elems(replies') = Elems(replies) /\ Elems(woken') \subseteq Elems(woken)
    BY <1>2, <1>3 DEF Elems, Turn
  <2>2. open /\ M!Event \notin Elems(replies)
    BY <1>2, <2>1
  <2>3. M!Current' = M!Current
    BY <1>2 DEF M!Current, M!ToolsOf, M!LiveSet, M!Namespaced
  <2>4. CASE M!Refreshing \subseteq overtaken
    <3>1. keyBehind' = TRUE
      BY <1>2, <1>8, <2>4
    <3>2. M!Refreshing' \subseteq overtaken'
      BY <1>2, <1>8, <2>4
    <3> QED  BY <3>1, <3>2
  <2>5. ASSUME NEW last \in M!Refreshing \ overtaken, Youngest(last), Fresh(last), last = j
        PROVE  M!Refreshing' \subseteq overtaken' /\ lastKey' = <<M!Current>>
    <3>1. \A k \in M!Refreshing \ {j} : k \in older[j]
      BY <2>5 DEF Youngest
    <3>2. M!Refreshing' \subseteq overtaken'
      BY <1>2, <1>8, <3>1
    <3>3. M!Entries(j) = M!Current
      BY <1>1, <1>2, <1>3, <2>5, FetchedIsCurrent
    <3> QED  BY <1>2, <3>2, <3>3
  <2>6. ASSUME NEW last \in M!Refreshing \ overtaken, Youngest(last), Fresh(last), last # j
        PROVE  last \in (M!Refreshing \ overtaken)' /\ Youngest(last)' /\ Fresh(last)'
    <3>1. last \in Jobs /\ \A k \in M!Refreshing \ {last} : k \in older[last] /\ last \notin older[k]
      BY <2>6 DEF Youngest, M!Refreshing
    <3>2. last \in (M!Refreshing \ overtaken)'
      BY <1>2, <1>8, <2>6, <3>1
    <3>3. Youngest(last)'
      <4>1. \A k \in M!Refreshing' \ {last} : k \in older'[last] /\ last \notin older'[k]
        BY <1>8, <1>10, <2>6, <3>1 DEF M!Refreshing
      <4> QED  BY <4>1 DEF Youngest
    <3>4. jobs'[last] = jobs[last]
      BY <1>7, <2>6, <3>1
    <3>5. Fresh(last)'
      BY <1>2, <2>1, <2>6, <3>4, FreshKept
    <3> QED  BY <3>2, <3>3, <3>5
  <2>7. \/ \E last \in M!Refreshing \ overtaken : Youngest(last) /\ Fresh(last)
        \/ M!Refreshing \subseteq overtaken
    BY <1>1, <2>2 DEF Followed
  <2>8. CASE \E last \in M!Refreshing \ overtaken : Youngest(last) /\ Fresh(last)
    <3>1. PICK last \in M!Refreshing \ overtaken : Youngest(last) /\ Fresh(last)
      BY <2>8
    <3>2. CASE last = j
      <4>1. M!Refreshing' \subseteq overtaken' /\ lastKey' = <<M!Current>>
        BY <2>5, <3>1, <3>2
      <4> QED  BY <2>3, <4>1
    <3>3. CASE last # j
      <4>1. last \in (M!Refreshing \ overtaken)' /\ Youngest(last)' /\ Fresh(last)'
        BY <2>6, <3>1, <3>3
      <4> QED  BY <4>1
    <3> QED  BY <3>2, <3>3
  <2> QED  BY <2>4, <2>7, <2>8
<1>14. M!GateBeforeRun'
  BY <1>1, <1>2 DEF M!GateBeforeRun
<1> QED  BY <1>7, <1>11, <1>12, <1>13, <1>14 DEF McpIInv

-------------------------------------------------------------------------------
(***************************************************************************)
(* A request is given up.                                                  *)
(***************************************************************************)
LEMMA LateTyped ==
    /\ M!Late \in JobRecords /\ JobFits(M!Late)
    /\ M!Late.step = "late" /\ M!Late.doing = "nothing"
<1>1. M!Late = [M!Idle EXCEPT !.step = "late"]
  BY DEF M!Late
<1>2. M!Idle \in JobRecords /\ M!Idle.doing = "nothing" /\ JobFits(M!Idle)
  BY IdleTyped DEF M!Idle
<1>3. M!Late \in JobRecords /\ M!Late.step = "late" /\ M!Late.doing = "nothing"
  BY <1>1, <1>2 DEF JobRecords
<1>4. M!Late.fetched = M!Idle.fetched /\ M!Late.listed = M!Idle.listed
  BY <1>1, <1>2 DEF JobRecords
<1> QED  BY <1>2, <1>3, <1>4 DEF JobFits

\* Nothing moves but job j, whose one message is now nobody's.
LEMMA GivenUpFits ==
    ASSUME McpIInv, NEW j \in Jobs, M!GivenUp(j)
    PROVE  /\ DaemonTyped' /\ WireTyped' /\ MessagesFit' /\ OneAnswerEach' /\ AgentTyped'
           /\ M!GateBeforeRun' /\ jobs' \in [Jobs -> JobRecords]
           /\ \A k \in Jobs : jobs'[k] = IF k = j THEN M!Late ELSE jobs[k]
<1>1. DaemonTyped /\ WireTyped /\ ServerTyped /\ AgentTyped /\ MessagesFit /\ OneAnswerEach
      /\ M!GateBeforeRun
  BY DEF McpIInv
<1>2. /\ woken = <<>> /\ jobs[j].step \in {"sessions", "tools", "result"}
      /\ jobs' = [jobs EXCEPT ![j] = M!Late]
      /\ changes < MaxChanges /\ changes' = changes + 1
      /\ UNCHANGED <<live, tool, suspended, requests, replies, open, woken, reading, lastKey,
                     emitted, channel, listing, notified, ran>>
  BY DEF M!GivenUp, M!wireVars, M!agentVars
<1>3. /\ jobs' \in [Jobs -> JobRecords]
      /\ \A k \in Jobs : jobs'[k] = IF k = j THEN M!Late ELSE jobs[k]
  BY <1>1, <1>2, LateTyped DEF ServerTyped
<1>4. DaemonTyped'
  <2>1. MaxChanges \in Nat
    BY AgentToolsConstants, Zenon DEF M!McpAssumption
  <2>2. changes' \in 0..MaxChanges
    BY <1>1, <1>2, <2>1 DEF DaemonTyped
  <2> QED  BY <1>1, <1>2, <2>2 DEF DaemonTyped, M!LiveSet, M!IsInjective
<1>5. WireTyped' /\ AgentTyped' /\ M!GateBeforeRun'
  BY <1>1, <1>2 DEF WireTyped, AgentTyped, M!NoListing, M!Flagged, M!Entry, M!GateBeforeRun, M!Event,
                    AnswerRecords
<1>6. /\ Elems(requests') = Elems(requests) /\ Elems(replies') = Elems(replies)
      /\ Elems(woken') = {} /\ woken' \in Seq(Jobs)
  <2>1. Elems(woken') = {}
    BY <1>2, NoElems
  <2> QED  BY <1>1, <1>2, <2>1 DEF Elems, ServerTyped
<1>7. MessagesFit'
  <2>1. \A r \in Elems(requests') :
          IF r.job = j THEN RequestFits(r, M!Late) ELSE r \in Elems(requests)
    BY <1>1, <1>6, LateTyped DEF MessagesFit, RequestFits
  <2>2. \A m \in Elems(replies') \ {M!Event} :
          IF m.job = j THEN ReplyFits(m, M!Late) ELSE m \in Elems(replies)
    BY <1>6, LateTyped DEF ReplyFits
  <2> QED  BY <1>1, <1>2, <1>5, <1>6, <2>1, <2>2, LateTyped, Moved
<1>8. OneAnswerEach'
  <2>1. ASSUME NEW k \in Jobs
        PROVE  Flying(requests', replies', woken', k)
                 = IF jobs'[k].step \in {"idle", "human"} THEN 0 ELSE 1
    <3>1. Flying(requests, replies, woken, k) = IF jobs[k].step \in {"idle", "human"} THEN 0 ELSE 1
      BY <1>1, Accounted
    <3>2. jobs'[k].step \in {"idle", "human"} <=> jobs[k].step \in {"idle", "human"}
      BY <1>2, <1>3, LateTyped
    <3> QED  BY <1>2, <3>1, <3>2, Zenon
  <2> QED  BY <1>5, <1>6, <2>1, AccountedNext
<1> QED  BY <1>3, <1>4, <1>5, <1>7, <1>8

LEMMA RequestTimesOutIInv ==
    ASSUME McpIInv, NEW j \in Jobs, M!RequestTimesOut(j)
    PROVE  McpIInv'
<1>1. ServerTyped /\ Followed
  BY DEF McpIInv
<1>2. /\ M!GivenUp(j) /\ jobs[j].doing # "refresh" /\ woken = <<>>
      /\ UNCHANGED <<live, tool, replies, open, woken, reading, lastKey, older, overtaken, keyBehind>>
  BY DEF M!RequestTimesOut, M!GivenUp, M!refreshVars, M!wireVars
<1>3. /\ DaemonTyped' /\ WireTyped' /\ MessagesFit' /\ OneAnswerEach' /\ AgentTyped'
      /\ M!GateBeforeRun' /\ jobs' \in [Jobs -> JobRecords]
      /\ \A k \in Jobs : jobs'[k] = IF k = j THEN M!Late ELSE jobs[k]
  BY <1>2, GivenUpFits
<1>4. M!Refreshing' = M!Refreshing
  BY <1>2, <1>3, LateTyped DEF M!Refreshing
<1>5. ServerTyped'
  BY <1>1, <1>2, <1>3, <1>4 DEF ServerTyped, M!Entry
<1>6. Followed'
  <2>1. Elems(replies') = Elems(replies) /\ Elems(woken') = Elems(woken)
    BY <1>2 DEF Elems
  <2>2. ASSUME NEW last \in M!Refreshing, Fresh(last) PROVE Fresh(last)'
    <3>1. jobs'[last] = jobs[last]
      BY <1>2, <1>3 DEF M!Refreshing
    <3> QED  BY <1>2, <2>1, <2>2, <3>1, FreshKept
  <2> QED  BY <1>1, <1>2, <1>4, <2>1, <2>2, FollowedKept
<1> QED  BY <1>3, <1>5, <1>6 DEF McpIInv

LEMMA RefreshTimesOutIInv ==
    ASSUME McpIInv, NEW j \in Jobs, M!RefreshTimesOut(j)
    PROVE  McpIInv'
<1>1. ServerTyped /\ Followed
  BY DEF McpIInv
<1>2. /\ M!GivenUp(j) /\ jobs[j].doing = "refresh" /\ woken = <<>>
      /\ older' = [k \in Jobs |-> IF k = j THEN {} ELSE older[k] \ {j}]
      /\ overtaken' = (overtaken \union older[j]) \ {j}
      /\ keyBehind' = (keyBehind \/ j \notin overtaken)
      /\ UNCHANGED <<live, tool, replies, open, woken, reading, lastKey>>
  BY DEF M!RefreshTimesOut, M!GivenUp, M!wireVars
<1>3. /\ DaemonTyped' /\ WireTyped' /\ MessagesFit' /\ OneAnswerEach' /\ AgentTyped'
      /\ M!GateBeforeRun' /\ jobs' \in [Jobs -> JobRecords]
      /\ \A k \in Jobs : jobs'[k] = IF k = j THEN M!Late ELSE jobs[k]
  BY <1>2, GivenUpFits
<1>4. M!Refreshing' = M!Refreshing \ {j} /\ j \in M!Refreshing
  BY <1>2, <1>3, LateTyped DEF M!Refreshing
<1>5. older \in [Jobs -> SUBSET M!Refreshing] /\ overtaken \subseteq M!Refreshing
  BY <1>1 DEF ServerTyped
<1>6. /\ older' \in [Jobs -> SUBSET M!Refreshing'] /\ overtaken' \subseteq M!Refreshing'
      /\ \A k \in Jobs \ {j} : older'[k] = older[k] \ {j}
  BY <1>2, <1>4, <1>5
<1>7. ServerTyped'
  <2>1. keyBehind' \in BOOLEAN
    BY <1>2, Zenon
  <2> QED  BY <1>1, <1>2, <1>3, <1>6, <2>1 DEF ServerTyped, M!Entry
<1>8. Followed'
  <2> SUFFICES ASSUME open', M!Event \notin Elems(replies')
               PROVE  \/ \E last \in (M!Refreshing \ overtaken)' : Youngest(last)' /\ Fresh(last)'
                      \/ /\ (M!Refreshing \subseteq overtaken)'
                         /\ (keyBehind \/ lastKey = <<M!Current>>)'
    BY DEF Followed, Elems, M!Event
  <2>1. Elems(replies') = Elems(replies) /\ Elems(woken') = Elems(woken)
    BY <1>2 DEF Elems
  <2>2. open /\ M!Event \notin Elems(replies)
    BY <1>2, <2>1
  <2>3. M!Current' = M!Current
    BY <1>2 DEF M!Current, M!ToolsOf, M!LiveSet, M!Namespaced
  <2>4. CASE M!Refreshing \subseteq overtaken /\ (keyBehind \/ lastKey = <<M!Current>>)
    <3>1. M!Refreshing' \subseteq overtaken'
      BY <1>2, <1>4, <2>4
    <3>2. keyBehind' \/ lastKey' = <<M!Current>>'
      BY <1>2, <2>3, <2>4
    <3> QED  BY <3>1, <3>2
  <2>5. ASSUME NEW last \in M!Refreshing \ overtaken, Youngest(last), Fresh(last), last = j
        PROVE  M!Refreshing' \subseteq overtaken' /\ keyBehind'
    <3>1. \A k \in M!Refreshing \ {j} : k \in older[j]
      BY <2>5 DEF Youngest
    <3>2. M!Refreshing' \subseteq overtaken'
      BY <1>2, <1>4, <3>1
    <3> QED  BY <1>2, <2>5, <3>2
  <2>6. ASSUME NEW last \in M!Refreshing \ overtaken, Youngest(last), Fresh(last), last # j
        PROVE  last \in (M!Refreshing \ overtaken)' /\ Youngest(last)' /\ Fresh(last)'
    <3>1. last \in Jobs /\ \A k \in M!Refreshing \ {last} : k \in older[last] /\ last \notin older[k]
      BY <2>6 DEF Youngest, M!Refreshing
    <3>2. last \in (M!Refreshing \ overtaken)'
      BY <1>2, <1>4, <2>6, <3>1
    <3>3. \A k \in M!Refreshing' \ {last} : k \in older'[last] /\ last \notin older'[k]
      BY <1>4, <1>6, <2>6, <3>1 DEF M!Refreshing
    <3>4. Youngest(last)'
      BY <3>3 DEF Youngest
    <3>5. jobs'[last] = jobs[last]
      BY <1>3, <2>6, <3>1
    <3>6. Fresh(last)'
      BY <1>2, <2>1, <2>6, <3>5, FreshKept
    <3> QED  BY <3>2, <3>4, <3>6
  <2>7. CASE \E last \in M!Refreshing \ overtaken : Youngest(last) /\ Fresh(last)
    <3>1. PICK last \in M!Refreshing \ overtaken : Youngest(last) /\ Fresh(last)
      BY <2>7
    <3>2. CASE last = j
      <4>1. M!Refreshing' \subseteq overtaken' /\ keyBehind'
        BY <2>5, <3>1, <3>2
      <4> QED  BY <4>1
    <3>3. CASE last # j
      <4>1. last \in (M!Refreshing \ overtaken)' /\ Youngest(last)' /\ Fresh(last)'
        BY <2>6, <3>1, <3>3
      <4> QED  BY <4>1
    <3> QED  BY <3>2, <3>3
  <2> QED  BY <1>1, <2>2, <2>4, <2>7 DEF Followed
<1> QED  BY <1>3, <1>7, <1>8 DEF McpIInv

\* The answer that is nobody's frees the job.
LEMMA HearLateIInv ==
    ASSUME McpIInv, M!HearLate
    PROVE  McpIInv'
<1>1. DaemonTyped /\ WireTyped /\ ServerTyped /\ AgentTyped /\ MessagesFit /\ OneAnswerEach
      /\ Followed /\ M!GateBeforeRun
  BY DEF McpIInv
<1> DEFINE m == Head(replies)
           j == m.job
<1>2. /\ replies # <<>> /\ m # M!Event /\ replies' = Tail(replies) /\ jobs[j] = M!Late
      /\ jobs' = [jobs EXCEPT ![j] = M!Idle]
      /\ ran' = IF m.says = "result" THEN {} ELSE ran
      /\ UNCHANGED <<live, tool, suspended, changes, requests, open, woken, reading, older, overtaken,
                     keyBehind, lastKey, emitted, channel, listing, notified>>
  BY DEF M!HearLate, M!MayRead, M!daemonVars, M!refreshVars
<1>3. /\ Tail(replies) \in Seq(Replies) /\ m \in Elems(replies) \ {M!Event}
      /\ Elems(replies) = {m} \union Elems(Tail(replies))
      /\ replies \in Seq(Replies) /\ requests \in Seq(Requests) /\ woken \in Seq(Jobs)
  <2>1. replies \in Seq(Replies) /\ requests \in Seq(Requests) /\ woken \in Seq(Jobs)
    BY <1>1 DEF WireTyped, ServerTyped, Replies
  <2> QED  BY <1>2, <2>1, ElemsTail
<1>4. m \in AnswerRecords /\ j \in Jobs
  <2>1. m \in AnswerRecords
    BY <1>1, <1>3, ElemsTyped DEF WireTyped
  <2> QED  BY <2>1 DEF AnswerRecords
<1>5. M!Idle \in JobRecords /\ JobFits(M!Idle) /\ M!Idle.step = "idle" /\ M!Idle.doing = "nothing"
  <2>1. M!Idle.step = "idle" /\ M!Idle.doing = "nothing"
    BY DEF M!Idle
  <2> QED  BY <2>1, IdleTyped
<1>6. ASSUME NEW k \in Jobs
      PROVE  /\ Flying(requests, replies, woken, k)
                  = Flying(requests, Tail(replies), woken, k) + (IF j = k THEN 1 ELSE 0)
             /\ Flying(requests, Tail(replies), woken, k) \in Nat
             /\ Flying(requests, replies, woken, k)
                  = IF jobs[k].step \in {"idle", "human"} THEN 0 ELSE 1
  <2>1. Flying(requests, replies, woken, k) = Flying(requests, Tail(replies), woken, k)
          + (IF Head(replies) # M!Event /\ Head(replies).job = k THEN 1 ELSE 0)
    BY <1>2, <1>3, FlyingTails
  <2>2. (IF Head(replies) # M!Event /\ Head(replies).job = k THEN 1 ELSE 0)
          = (IF j = k THEN 1 ELSE 0)
    BY <1>2 DEF m
  <2>3. Flying(requests, Tail(replies), woken, k) \in Nat
    BY <1>3, FlyingIs
  <2>4. Flying(requests, replies, woken, k)
          = IF jobs[k].step \in {"idle", "human"} THEN 0 ELSE 1
    BY <1>1, Accounted
  <2>5. Flying(requests, replies, woken, k)
          = Flying(requests, Tail(replies), woken, k) + (IF j = k THEN 1 ELSE 0)
    BY <2>1, <2>2, Zenon
  <2> QED  BY <2>3, <2>4, <2>5
<1> HIDE DEF m
<1>7. NoneOf(requests, Tail(replies), woken, j)
  <2>1. jobs[j].step = "late"
    BY <1>2, LateTyped
  <2>2. Flying(requests, Tail(replies), woken, j) = 0
    BY <1>4, <1>6, <2>1
  <2>3. \A rp \in Seq(Replies) :
          Flying(requests, rp, woken, j) = 0 => NoneOf(requests, rp, woken, j)
    BY <1>3, <1>4, FlyingIs
  <2> QED  BY <1>3, <2>2, <2>3
<1>8. /\ jobs' \in [Jobs -> JobRecords]
      /\ \A k \in Jobs : jobs'[k] = IF k = j THEN M!Idle ELSE jobs[k]
  BY <1>1, <1>2, <1>4, <1>5 DEF ServerTyped
<1>9. M!Refreshing' = M!Refreshing
  BY <1>2, <1>5, <1>8, LateTyped DEF M!Refreshing
<1>10. DaemonTyped' /\ WireTyped' /\ ServerTyped' /\ AgentTyped'
  <2>1. WireTyped'
    BY <1>1, <1>2, <1>3 DEF WireTyped, Replies, M!Event, AnswerRecords
  <2>2. ServerTyped'
    BY <1>1, <1>2, <1>8, <1>9 DEF ServerTyped, M!Entry
  <2>3. DaemonTyped'
    BY <1>1, <1>2 DEF DaemonTyped, M!LiveSet, M!IsInjective
  <2>4. AgentTyped'
    BY <1>1, <1>2 DEF AgentTyped, M!NoListing, M!Flagged, M!Entry
  <2> QED  BY <2>1, <2>2, <2>3, <2>4
<1>11. MessagesFit'
  <2>1. \A r \in Elems(requests') :
          IF r.job = j THEN RequestFits(r, M!Idle) ELSE r \in Elems(requests)
    BY <1>2, <1>7 DEF NoneOf, Elems
  <2>2. \A a \in Elems(replies') \ {M!Event} :
          IF a.job = j THEN ReplyFits(a, M!Idle) ELSE a \in Elems(replies)
    BY <1>2, <1>3, <1>7 DEF NoneOf
  <2>3. \A k \in Elems(woken') :
          IF k = j THEN M!Idle.step \in {"sessions", "tools", "done"} ELSE k \in Elems(woken)
    BY <1>2, <1>7 DEF NoneOf, Elems
  <2>4. woken' \in Seq(Jobs)
    BY <1>2, <1>3
  <2> HIDE DEF j
  <2> QED  BY <1>1, <1>2, <1>4, <1>5, <1>10, <2>1, <2>2, <2>3, <2>4, Moved
<1>12. OneAnswerEach'
  <2>1. ASSUME NEW k \in Jobs
        PROVE  Flying(requests', replies', woken', k)
                 = IF jobs'[k].step \in {"idle", "human"} THEN 0 ELSE 1
    <3>1. Flying(requests', replies', woken', k) = Flying(requests, Tail(replies), woken, k)
      BY <1>2, Zenon
    <3>2. CASE k = j
      <4>1. jobs[j].step = "late" /\ jobs'[j].step = "idle"
        BY <1>2, <1>4, <1>5, <1>8, LateTyped
      <4> QED  BY <1>6, <3>1, <3>2, <4>1
    <3>3. CASE k # j
      BY <1>6, <1>8, <3>1, <3>3
    <3> QED  BY <3>2, <3>3
  <2>2. woken' \in Seq(Jobs)
    BY <1>2, <1>3
  <2> QED  BY <1>10, <2>1, <2>2, AccountedNext
<1>13. Followed'
  <2>1. M!Event \notin Elems(replies') => M!Event \notin Elems(replies)
    BY <1>2, <1>3
  <2>2. ASSUME NEW last \in M!Refreshing, Fresh(last) PROVE Fresh(last)'
    <3>1. last # j
      BY <1>2, LateTyped DEF M!Refreshing
    <3>2. jobs'[last] = jobs[last]
      BY <1>8, <3>1 DEF M!Refreshing
    <3>3. \A a \in Elems(replies') \ {M!Event} : a.job = last => a \in Elems(replies)
      BY <1>2, <1>3
    <3>4. last \in Elems(woken') => last \in Elems(woken)
      BY <1>2 DEF Elems
    <3> QED  BY <1>2, <2>2, <3>2, <3>3, <3>4, FreshKept
  <2> QED  BY <1>1, <1>2, <1>9, <2>1, <2>2, FollowedKept
<1>14. M!GateBeforeRun'
  BY <1>1, <1>2 DEF M!GateBeforeRun
<1> QED  BY <1>10, <1>11, <1>12, <1>13, <1>14 DEF McpIInv

LEMMA FlyingNone ==
    ASSUME NEW j \in Jobs
    PROVE  Flying(<<>>, <<>>, <<>>, j) = 0
<1>1. \A P : Positions(<<>>, P) = {}
  BY DEF Positions
<1>2. Cardinality({}) = 0
  BY FS_EmptySet
<1>3. \A P : Count(<<>>, P) = 0
  BY <1>1, <1>2, Zenon DEF Count
<1>4. Count(<<>>, AskedBy(j)) = 0 /\ Count(<<>>, AnswersTo(j)) = 0 /\ Count(<<>>, {j}) = 0
  BY <1>3
<1> QED  BY <1>4 DEF Flying

LEMMA ConnectionLostIInv ==
    ASSUME McpIInv, M!ConnectionLost
    PROVE  McpIInv'
<1>1. DaemonTyped /\ WireTyped /\ ServerTyped /\ AgentTyped /\ MessagesFit /\ M!GateBeforeRun
  BY DEF McpIInv
<1>2. /\ woken = <<>> /\ open' = FALSE /\ requests' = <<>> /\ replies' = <<>>
      /\ jobs' = [j \in Jobs |-> IF jobs[j].step = "human" THEN jobs[j] ELSE M!Idle]
      /\ older' = [j \in Jobs |-> {}] /\ overtaken' = {}
      /\ UNCHANGED <<live, tool, suspended, changes, woken, reading, keyBehind, lastKey, emitted,
                     channel, listing, notified, ran>>
  BY DEF M!ConnectionLost, M!daemonVars, M!agentVars
<1>3. M!Idle \in JobRecords /\ JobFits(M!Idle) /\ M!Idle.step = "idle" /\ M!Idle.doing = "nothing"
  <2>1. M!Idle.step = "idle" /\ M!Idle.doing = "nothing"
    BY DEF M!Idle
  <2> QED  BY <2>1, IdleTyped
<1>4. \A j \in Jobs : /\ jobs[j] \in JobRecords /\ JobFits(jobs[j])
                      /\ jobs[j].step = "human" => jobs[j].doing # "refresh"
  BY <1>1 DEF ServerTyped, MessagesFit, JobFits
<1>5. /\ jobs' \in [Jobs -> JobRecords]
      /\ \A j \in Jobs : JobFits(jobs'[j]) /\ jobs'[j].step \in {"idle", "human"}
                         /\ jobs'[j].doing # "refresh"
  BY <1>2, <1>3, <1>4
<1>6. M!Refreshing' = {}
  BY <1>5 DEF M!Refreshing
<1>7. WireTyped'
  <2>1. <<>> \in Seq(Requests) /\ <<>> \in Seq(AnswerRecords \union {M!Event})
    OBVIOUS
  <2>2. open' \in BOOLEAN
    BY <1>2
  <2> QED  BY <1>2, <2>1, <2>2 DEF WireTyped, M!Event, AnswerRecords
<1>8. ServerTyped' /\ DaemonTyped' /\ AgentTyped'
  BY <1>1, <1>2, <1>5, <1>6
     DEF ServerTyped, AgentTyped, DaemonTyped, M!NoListing, M!Flagged, M!Entry, M!LiveSet,
         M!IsInjective
<1>9. MessagesFit'
  <2>1. Elems(requests') = {} /\ Elems(replies') = {} /\ Elems(woken') = {}
    BY <1>2, NoElems
  <2> QED  BY <1>5, <2>1 DEF MessagesFit, JobFits, RequestFits, ReplyFits, M!Event, M!Idle
<1>10. OneAnswerEach'
  <2>1. woken' \in Seq(Jobs)
    BY <1>1, <1>2 DEF ServerTyped
  <2> QED  BY <1>2, <1>5, <1>7, <2>1, FlyingNone, AccountedNext
<1>11. Followed'
  BY <1>2 DEF Followed
<1>12. M!GateBeforeRun'
  BY <1>1, <1>2 DEF M!GateBeforeRun
<1> QED  BY <1>7, <1>8, <1>9, <1>10, <1>11, <1>12 DEF McpIInv

-------------------------------------------------------------------------------
(***************************************************************************)
(* The invariant, from the start and in every step.                        *)
(***************************************************************************)
LEMMA McpInitIInv == M!McpInit => McpIInv
<1> SUFFICES ASSUME M!McpInit PROVE McpIInv
  OBVIOUS
<1>1. PICK start \in Starts : live = start.live /\ tool = start.tool
  BY DEF M!McpInit
<1>2. PICK j \in Jobs :
        /\ jobs = [i \in Jobs |-> IF i = j THEN M!Started("refresh", Bare) ELSE M!Idle]
        /\ requests = <<M!AskSessions(j)>>
  BY DEF M!McpInit
<1>3. /\ suspended = {} /\ changes = 0 /\ older = [k \in Jobs |-> {}] /\ overtaken = {}
      /\ keyBehind = FALSE /\ replies = <<>> /\ open = TRUE /\ woken = <<>> /\ reading = FALSE
      /\ lastKey = <<>> /\ emitted = {} /\ channel \in M!Channels /\ listing = <<>>
      /\ notified = FALSE /\ ran = {}
  BY DEF M!McpInit, M!NoListing
<1>4. DaemonTyped
  <2>1. /\ start.live \in Seq(Aliases) /\ M!IsInjective(start.live)
        /\ start.tool \in [Aliases -> M!Descriptors \union {NoTool}]
        /\ \A a \in Aliases \ M!ToSet(start.live) : start.tool[a] = NoTool
        /\ MaxChanges \in Nat
    BY AgentToolsConstants, Zenon DEF M!McpAssumption
  <2>2. M!LiveSet = M!ToSet(start.live)
    BY <1>1, <2>1 DEF M!LiveSet, M!ToSet
  <2> QED  BY <1>1, <1>3, <2>1, <2>2 DEF DaemonTyped
<1>5. /\ M!Idle \in JobRecords /\ JobFits(M!Idle) /\ M!Idle.step = "idle"
      /\ M!Idle.doing = "nothing"
  <2>1. M!Idle.step = "idle" /\ M!Idle.doing = "nothing"
    BY DEF M!Idle
  <2> QED  BY <2>1, IdleTyped
<1> DEFINE b == M!Started("refresh", Bare)
           ask == M!AskSessions(j)
<1>6. /\ b \in JobRecords /\ JobFits(b) /\ b.step = "sessions" /\ b.doing = "refresh"
      /\ b.listed = <<>> /\ b.fetched = <<>>
  <2>1. Bare \in Names
    BY DEF Names
  <2> QED  BY <2>1, StartedTyped
<1>7. ask \in Requests /\ ask.job = j /\ ask.asks = "sessions" /\ ask.consent = "none"
  BY AskTyped
<1>8. \A k \in Jobs : jobs[k] = IF k = j THEN b ELSE M!Idle
  BY <1>2
<1> HIDE DEF b, ask
<1>9. M!Refreshing = {j}
  BY <1>5, <1>6, <1>8 DEF M!Refreshing
<1>10. /\ requests = Append(<<>>, ask) /\ requests \in Seq(Requests) /\ Elems(requests) = {ask}
  <2>1. <<>> \in Seq(Requests) /\ requests = Append(<<>>, ask)
    BY <1>2 DEF ask
  <2>2. PICK q \in Seq(Requests) : q = <<>>
    BY <2>1
  <2>3. Append(q, ask) \in Seq(Requests) /\ Elems(Append(q, ask)) = Elems(q) \union {ask}
    BY <1>7, ElemsAppend
  <2>4. Elems(q) = {}
    BY <2>2, NoElems
  <2> QED  BY <2>1, <2>2, <2>3, <2>4
<1>11. WireTyped
  <2>1. <<>> \in Seq(AnswerRecords \union {M!Event})
    OBVIOUS
  <2> QED  BY <1>3, <1>10, <2>1 DEF WireTyped
<1>12. ServerTyped
  <2>1. <<>> \in Seq(Jobs) /\ <<>> \in Seq(SUBSET M!Entry) /\ Len(<<>>) = 0
    OBVIOUS
  <2>2. jobs \in [Jobs -> JobRecords]
    BY <1>2, <1>5, <1>6 DEF b
  <2>3. older \in [Jobs -> SUBSET M!Refreshing] /\ overtaken \subseteq M!Refreshing
    BY <1>3
  <2>4. woken \in Seq(Jobs) /\ lastKey \in Seq(SUBSET M!Entry) /\ Len(lastKey) <= 1
    BY <1>3, <2>1
  <2>5. reading \in BOOLEAN /\ keyBehind \in BOOLEAN
    BY <1>3
  <2> QED  BY <2>2, <2>3, <2>4, <2>5, Zenon DEF ServerTyped
<1>13. AgentTyped
  <2>1. <<>> \in Seq(SUBSET M!Entry) /\ Len(<<>>) = 0
    OBVIOUS
  <2>2. listing \in Seq(SUBSET M!Entry) /\ Len(listing) <= 1
    BY <1>3, <2>1
  <2>3. channel \in M!Channels /\ notified \in BOOLEAN
    BY <1>3, Zenon
  <2>4. emitted = IF listing = M!NoListing THEN {} ELSE M!Flagged(listing[1])
    BY <1>3 DEF M!NoListing
  <2> QED  BY <2>2, <2>3, <2>4, Zenon DEF AgentTyped
<1>14. Elems(replies) = {} /\ Elems(woken) = {}
  BY <1>3, NoElems
<1>15. MessagesFit
  <2>1. \A k \in Jobs : JobFits(jobs[k])
    BY <1>5, <1>6, <1>8
  <2>2. \A r \in Elems(requests) : RequestFits(r, jobs[r.job])
    BY <1>6, <1>7, <1>8, <1>10 DEF RequestFits
  <2> QED  BY <1>14, <2>1, <2>2 DEF MessagesFit
<1>16. OneAnswerEach
  <2> SUFFICES ASSUME NEW k \in Jobs
               PROVE  M!InFlight(k) = IF jobs[k].step \in {"idle", "human"} THEN 0 ELSE 1
    BY DEF OneAnswerEach
  <2>1. <<>> \in Seq(Requests) /\ <<>> \in Seq(Replies) /\ <<>> \in Seq(Jobs)
    OBVIOUS
  <2>2. M!InFlight(k) = Flying(requests, replies, woken, k)
    BY <1>3, <1>10, <2>1, FlyingIs DEF M!InFlight
  <2>3. Flying(Append(<<>>, ask), <<>>, <<>>, k)
          = Flying(<<>>, <<>>, <<>>, k) + (IF ask.job = k THEN 1 ELSE 0)
    BY <1>7, <2>1, FlyingAsked
  <2>4. Flying(<<>>, <<>>, <<>>, k) = 0
    BY FlyingNone
  <2> QED  BY <1>3, <1>5, <1>6, <1>7, <1>8, <1>10, <2>2, <2>3, <2>4
<1>17. Followed
  <2>1. j \in M!Refreshing \ overtaken /\ Youngest(j)
    BY <1>3, <1>9 DEF Youngest
  <2>2. jobs[j].step = "sessions" /\ jobs[j].fetched = <<>>
    BY <1>6, <1>8
  <2>3. Fresh(j)
    <3>1. 1..Len(jobs[j].fetched) = {}
      BY <2>2
    <3> QED  BY <1>14, <2>2, <3>1 DEF Fresh
  <2> QED  BY <2>1, <2>3 DEF Followed
<1>18. M!GateBeforeRun
  BY <1>3 DEF M!GateBeforeRun
<1> QED  BY <1>4, <1>11, <1>12, <1>13, <1>15, <1>16, <1>17, <1>18 DEF McpIInv

LEMMA RestIInv ==
    ASSUME McpIInv, UNCHANGED M!mcpVars
    PROVE  McpIInv'
<1>1. UNCHANGED <<live, tool, suspended, changes, requests, replies, open, jobs, woken, reading,
                  older, overtaken, keyBehind, lastKey, emitted, channel, listing, notified, ran>>
  BY DEF M!mcpVars, M!daemonVars, M!wireVars, M!serverVars, M!refreshVars, M!agentVars
<1>2. M!Refreshing' = M!Refreshing
  BY <1>1 DEF M!Refreshing
<1>3. DaemonTyped' /\ WireTyped' /\ ServerTyped' /\ AgentTyped'
  BY <1>1, <1>2
     DEF McpIInv, WireTyped, ServerTyped, AgentTyped, DaemonTyped, M!NoListing, M!Flagged, M!Entry,
         M!LiveSet, M!IsInjective, M!Event, AnswerRecords
<1>4. Elems(replies') = Elems(replies) /\ Elems(requests') = Elems(requests)
      /\ Elems(woken') = Elems(woken)
  BY <1>1 DEF Elems
<1>5. MessagesFit'
  BY <1>1, <1>4 DEF McpIInv, MessagesFit, JobFits, RequestFits, ReplyFits, M!Event, M!Idle
<1>6. OneAnswerEach'
  BY <1>1 DEF McpIInv, OneAnswerEach, M!InFlight, M!Event
<1>7. Followed'
  <2>1. ASSUME NEW last \in M!Refreshing, Fresh(last) PROVE Fresh(last)'
    BY <1>1, <1>4, <2>1, FreshKept
  <2> QED  BY <1>1, <1>2, <1>4, <2>1, FollowedKept DEF McpIInv
<1>8. M!GateBeforeRun'
  BY <1>1 DEF McpIInv, M!GateBeforeRun
<1> QED  BY <1>3, <1>5, <1>6, <1>7, <1>8 DEF McpIInv

LEMMA McpStep == McpIInv /\ [M!McpNext]_M!mcpVars => McpIInv'
<1> SUFFICES ASSUME McpIInv, [M!McpNext]_M!mcpVars PROVE McpIInv'
  OBVIOUS
<1>1. CASE \/ \E a \in Aliases : M!Claim(a) \/ M!RemoveTool(a) \/ M!Blink(a)
           \/ \E a \in Aliases, d \in M!Descriptors : M!Upsert(a, d)
           \/ \E S \in SUBSET Aliases : M!End(S)
  BY <1>1, DaemonIInv
<1>2. CASE M!Serve
  BY <1>2, ServeIInv
<1>3. CASE M!HearEvent
  BY <1>3, HearEventIInv
<1>4. CASE M!HearAnswer \/ M!HearLate
  BY <1>4, HearAnswerIInv, HearLateIInv
<1>5. ASSUME NEW j \in Jobs,
             \/ M!FetchNext(j) \/ M!Refreshed(j) \/ M!Listed(j) \/ M!NotFound(j)
             \/ M!CallAtOnce(j) \/ M!AskHuman(j) \/ M!HumanDeclines(j) \/ M!CallDone(j)
             \/ M!RequestTimesOut(j) \/ M!RefreshTimesOut(j)
             \/ \E accepts \in BOOLEAN : M!HumanAnswers(j, accepts)
      PROVE  McpIInv'
  BY <1>5, FetchNextIInv, RefreshedIInv, ListedIInv, NotFoundIInv, CallAtOnceIInv, AskHumanIInv,
     HumanDeclinesIInv, CallDoneIInv, HumanAnswersIInv, RequestTimesOutIInv, RefreshTimesOutIInv
<1>6. CASE M!AgentLists
  <2>1. M!AgentAsks("list", Bare) /\ notified' \in BOOLEAN /\ Bare \in Names
    BY <1>6 DEF M!AgentLists, Names
  <2> QED  BY <2>1, AgentAsksIInv
<1>7. ASSUME NEW name \in Aliases \union {Bare}, M!AgentCalls(name) PROVE McpIInv'
  <2>1. M!AgentAsks("call", name) /\ notified' \in BOOLEAN /\ name \in Names
    BY <1>7 DEF M!AgentCalls, Names, McpIInv, AgentTyped
  <2> QED  BY <2>1, AgentAsksIInv
<1>8. CASE M!ConnectionLost
  BY <1>8, ConnectionLostIInv
<1>9. CASE UNCHANGED M!mcpVars
  BY <1>9, RestIInv
<1> QED  BY <1>1, <1>2, <1>3, <1>4, <1>5, <1>6, <1>7, <1>8, <1>9 DEF M!McpNext

LEMMA McpNextIInv == McpIInv /\ [Next]_vars => McpIInv'
<1> SUFFICES ASSUME McpIInv, [Next]_vars PROVE McpIInv'
  OBVIOUS
<1>1. [M!McpNext]_M!mcpVars
  BY DEF Next, vars, mcpVars, M!mcpVars, M!daemonVars, M!wireVars, M!serverVars, M!refreshVars,
         M!agentVars
<1> QED  BY <1>1, McpStep

LEMMA McpIInvSound == McpIInv => M!McpSound
<1> SUFFICES ASSUME McpIInv PROVE M!McpSound
  OBVIOUS
<1>1. DaemonTyped /\ WireTyped /\ ServerTyped /\ AgentTyped /\ OneAnswerEach /\ Followed
  BY DEF McpIInv
<1>2. M!McpTypeOK
  <2>1. /\ live \in Seq(Aliases) /\ M!IsInjective(live)
        /\ tool \in [Aliases -> M!Descriptors \union {NoTool}]
        /\ \A a \in Aliases : a \notin M!LiveSet => tool[a] = NoTool
        /\ suspended \subseteq M!LiveSet
        /\ changes \in 0..MaxChanges
    BY <1>1, Zenon DEF DaemonTyped
  <2>2. open \in BOOLEAN /\ reading \in BOOLEAN
    BY <1>1, Zenon DEF WireTyped, ServerTyped
  <2>3. \A j \in Jobs :
          /\ jobs[j].step \in {"idle", "sessions", "tools", "human", "result", "done", "late"}
          /\ M!InFlight(j) = IF jobs[j].step \in {"idle", "human"} THEN 0 ELSE 1
    <3>1. \A j \in Jobs : jobs[j] \in JobRecords
      BY <1>1 DEF ServerTyped
    <3>2. \A j \in Jobs :
            jobs[j].step \in {"idle", "sessions", "tools", "human", "result", "done", "late"}
      BY <3>1 DEF JobRecords
    <3> QED  BY <1>1, <3>2, Zenon DEF OneAnswerEach
  <2>4. /\ older \in [Jobs -> SUBSET M!Refreshing] /\ overtaken \subseteq M!Refreshing
        /\ keyBehind \in BOOLEAN
    BY <1>1, Zenon DEF ServerTyped
  <2>5. {lastKey, listing} \subseteq Seq(SUBSET M!Entry) /\ Len(lastKey) <= 1 /\ Len(listing) <= 1
    BY <1>1 DEF ServerTyped, AgentTyped
  <2>6. emitted \subseteq Aliases \union {Bare}
    <3>1. CASE listing = M!NoListing
      BY <1>1, <3>1 DEF AgentTyped
    <3>2. CASE listing # M!NoListing
      <4>1. listing[1] \in SUBSET M!Entry
        BY <1>1, <3>2 DEF AgentTyped, M!NoListing
      <4>2. \A name \in M!Flagged(listing[1]) : \E e \in listing[1] : name = e.name
        BY DEF M!Flagged
      <4> QED  BY <1>1, <3>2, <4>1, <4>2 DEF AgentTyped, M!Entry
    <3> QED  BY <3>1, <3>2
  <2>7. channel \in M!Channels /\ notified \in BOOLEAN
    BY <1>1, Zenon DEF AgentTyped
  <2> QED  BY <2>1, <2>2, <2>3, <2>4, <2>5, <2>6, <2>7, Zenon DEF M!McpTypeOK
<1>3. M!KeyIsCurrent
  <2> SUFFICES ASSUME M!Quiet, ~keyBehind PROVE lastKey = <<M!Current>>
    BY DEF M!KeyIsCurrent
  <2>1. open /\ Elems(replies) = {} /\ M!Refreshing = {}
    BY NoElems DEF M!Quiet
  <2> QED  BY <1>1, <2>1 DEF Followed
<1> QED  BY <1>2, <1>3 DEF M!McpSound

\* What an agent is offered tracks the daemon's tools: types, one answer for each request, and once
\* every event has been followed up the key that the next change is compared with is current, unless
\* a younger refresh was done before the one that set it, or one timed out since that no younger
\* one made good (refreshAndMaybeNotifyListChanged).
THEOREM McpSpecSound == M!McpSpec => []M!McpSound
  BY McpInitIInv, McpStep, McpIInvSound, PTL DEF M!McpSpec

\* The same of the composition.
THEOREM SpecMcpSound == Spec => []McpSound
<1>1. Init => McpIInv
  BY McpInitIInv DEF Init
<1>2. McpIInv /\ [Next]_vars => McpIInv'
  BY McpNextIInv
<1>3. McpIInv => McpSound
  BY McpIInvSound DEF McpSound
<1> QED  BY <1>1, <1>2, <1>3, PTL DEF Spec

\* A call of a tool that the daemon holds to be a human's to approve ran only if a human was asked
\* under the name that was called, or the agent's last listing flagged it (resolveToolCallConsent,
\* and the policy of tools.call).
THEOREM SpecGateBeforeRun == Spec => []GateBeforeRun
<1>1. Init => McpIInv
  BY McpInitIInv DEF Init
<1>2. McpIInv /\ [Next]_vars => McpIInv'
  BY McpNextIInv
<1>3. McpIInv => GateBeforeRun
  BY DEF McpIInv, GateBeforeRun
<1> QED  BY <1>1, <1>2, <1>3, PTL DEF Spec

===============================================================================
