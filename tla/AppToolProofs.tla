----------------------------- MODULE AppToolProofs -----------------------------
(***************************************************************************)
(* Proofs about the React Native side: the tools that hooks register, for  *)
(* any hooks, names and shapes, and the start of the app, for any links.   *)
(***************************************************************************)
EXTENDS MCAppTools, FiniteSetTheorems, FunctionTheorems, SequenceTheorems, TLAPS

-------------------------------------------------------------------------------
(***************************************************************************)
(* The start of the app.                                                   *)
(***************************************************************************)
Runtimes ==
    [stage : A!Stages, listens : BOOLEAN, initial : Links \union {None}, known : BOOLEAN,
     answer : BOOLEAN]
Clients ==
    [state : {"idle", "connecting", "active", "reconnecting", "closed"},
     session : Links \union {None}, socket : {"none", "own", "old"}]

StartupTyped ==
    /\ launch \in Links \union {None}
    /\ runtime \in Runtimes
    /\ client \in Clients
    /\ lease \in Links \union {None}
    /\ used \subseteq Links
    /\ wanted \in Links \union {None}
    /\ obstructed \subseteq Links
    /\ runtime.stage = "down" => runtime = A!Down
    /\ ~linked => client = A!NoClient /\ runtime \in {A!Down, A!Inert}

\* A session that is held, or that the lease remembers, was claimed once.
ClaimedOnce ==
    /\ client.state \in {"active", "reconnecting"} => client.session \in used
    /\ lease # None => lease \in used
    /\ client.state = "connecting" => client.session # None
    /\ client.state = "closed" => client.session = None

\* The link the operator launched the app with is good, is what the runtime will find or
\* found, and is not lost once the runtime has looked at it, unless to an earlier socket.
WantedIsLaunch ==
    wanted # None =>
      /\ launch = wanted /\ wanted \notin expired
      /\ runtime.known => runtime.initial = wanted
      /\ linked /\ runtime.stage = "over" =>
           client.session = wanted \/ wanted \in used \union obstructed

StartupIInv == StartupTyped /\ ClaimedOnce /\ WantedIsLaunch

LEMMA StartupInitIInv == A!StartupInit => StartupIInv
  BY AppToolsConstants DEF A!StartupConstants, A!StartupInit, StartupIInv, StartupTyped, Runtimes,
     Clients, A!Down, A!NoClient, A!Stages, ClaimedOnce, WantedIsLaunch

\* What handleUrl makes of a link.
LEMMA UrlHandled ==
    ASSUME StartupTyped, ClaimedOnce, NEW l \in Links, A!HandleUrl(l)
    PROVE  /\ client' \in Clients /\ lease' \in {lease, None}
           /\ obstructed \subseteq obstructed' /\ obstructed' \subseteq Links
           /\ client'.state \in {"active", "reconnecting"} => client' = client
           /\ client'.state = "connecting" => client'.session # None
           /\ client'.state = "closed" => client'.session = None
           /\ l \notin expired => client'.session = l \/ l \in obstructed'
  BY AppToolsConstants DEF A!StartupConstants, A!HandleUrl, A!Ignored, A!Holds, A!Dials,
     StartupTyped, ClaimedOnce, Clients

LEMMA ClientIInv ==
    ASSUME StartupIInv,
           \/ A!ClaimAnswered \/ A!ClaimObstructed \/ A!OldSocketCloses
           \/ A!ResumeTried \/ A!ResumeAnswered \/ A!SocketDrops \/ A!GraceEnds
    PROVE  StartupIInv'
<1> USE AppToolsConstants DEF A!StartupConstants, StartupIInv, A!Closed
<1>1. /\ UNCHANGED <<linked, launch, runtime, started, expired, wanted>>
      /\ used \subseteq used' /\ obstructed \subseteq obstructed'
  BY DEF A!ClaimAnswered, A!ClaimObstructed, A!OldSocketCloses, A!ResumeTried, A!ResumeAnswered,
         A!SocketDrops, A!GraceEnds
<1>2. linked
  BY DEF StartupTyped, A!NoClient, A!ClaimAnswered, A!ClaimObstructed, A!OldSocketCloses,
         A!ResumeTried, A!ResumeAnswered, A!SocketDrops, A!GraceEnds
<1>3. /\ client' \in Clients /\ lease' \in Links \union {None} /\ used' \subseteq Links
      /\ obstructed' \subseteq Links /\ ClaimedOnce'
      /\ \/ client'.session = client.session
         \/ client.session \in used \union obstructed'
         \/ client.state = "closed"
  <2>1. CASE A!ClaimAnswered \/ A!ClaimObstructed
    <3>1. client.session \in Links
      BY <2>1 DEF A!ClaimAnswered, A!ClaimObstructed, StartupTyped, ClaimedOnce, Clients
    <3>2. CASE A!ClaimAnswered
      BY <3>1, <3>2 DEF A!ClaimAnswered, StartupTyped, ClaimedOnce, Clients
    <3>3. CASE A!ClaimObstructed
      BY <3>1, <3>3 DEF A!ClaimObstructed, StartupTyped, ClaimedOnce, Clients
    <3> QED  BY <2>1, <3>2, <3>3
  <2>2. CASE A!ResumeTried \/ A!ResumeAnswered \/ A!SocketDrops
    BY <2>2 DEF A!ResumeTried, A!ResumeAnswered, A!SocketDrops, StartupTyped, ClaimedOnce, Clients
  <2>3. CASE A!GraceEnds
    BY <2>3 DEF A!GraceEnds, StartupTyped, ClaimedOnce, Clients
  <2>4. CASE A!OldSocketCloses
    BY <2>4 DEF A!OldSocketCloses, StartupTyped, ClaimedOnce, Clients
  <2> QED  BY <2>1, <2>2, <2>3, <2>4
<1>4. StartupTyped'
  BY <1>1, <1>2, <1>3 DEF StartupTyped
<1>5. WantedIsLaunch'
  BY <1>1, <1>3 DEF WantedIsLaunch, ClaimedOnce
<1> QED  BY <1>3, <1>4, <1>5

LEMMA RuntimeIInv ==
    ASSUME StartupIInv,
           A!Install \/ A!Restored \/ A!RestoreFails \/ A!InitialUrl \/ A!HandleInitial
    PROVE  StartupIInv'
<1> USE AppToolsConstants DEF A!StartupConstants, StartupIInv
<1>1. CASE A!Install
  <2>1. runtime = A!Down /\ UNCHANGED <<linked, launch, client, lease, used, expired, wanted, obstructed>>
    BY <1>1 DEF A!Install, StartupTyped
  <2>2. /\ runtime' \in Runtimes /\ runtime'.known = FALSE
        /\ linked => runtime'.stage = "restoring"
        /\ ~linked => runtime' = A!Inert
        /\ runtime'.stage # "down"
    BY <1>1 DEF A!Install, A!Available, A!Installed, A!Inert, A!Down, Runtimes, A!Stages
  <2> QED  BY <2>1, <2>2 DEF StartupTyped, ClaimedOnce, WantedIsLaunch
<1>2. CASE A!Restored \/ A!RestoreFails
  <2>1. /\ runtime.stage = "restoring" /\ linked
        /\ UNCHANGED <<linked, launch, lease, used, expired, wanted, obstructed>>
    BY <1>2 DEF A!Restored, A!RestoreFails, StartupTyped, A!Down, A!Inert
  <2>2. /\ runtime' \in Runtimes /\ runtime'.stage = "settled"
        /\ runtime'.known = runtime.known /\ runtime'.initial = runtime.initial
    BY <1>2 DEF A!Restored, A!RestoreFails, StartupTyped, Runtimes, A!Stages
  <2>3. \/ client' = client
        \/ /\ client = A!NoClient /\ lease # None
           /\ client' = [state |-> "reconnecting", session |-> lease, socket |-> "none"]
    BY <1>2 DEF A!Restored, A!RestoreFails
  <2>4. client' \in Clients /\ ClaimedOnce'
    BY <2>1, <2>3 DEF StartupTyped, ClaimedOnce, Clients
  <2> QED  BY <2>1, <2>2, <2>4 DEF StartupTyped, WantedIsLaunch
<1>3. CASE A!InitialUrl
  <2>1. /\ runtime.stage \in {"restoring", "settled"} /\ linked
        /\ UNCHANGED <<linked, launch, client, lease, used, expired, obstructed>>
    BY <1>3 DEF A!InitialUrl, StartupTyped, A!Down, A!Inert
  <2>2. PICK url \in {launch, None} : runtime' = [runtime EXCEPT !.known = TRUE, !.initial = url]
    BY <1>3 DEF A!InitialUrl
  <2>3. /\ runtime' \in Runtimes /\ runtime'.stage = runtime.stage /\ runtime'.initial = url
    BY <2>2 DEF StartupTyped, Runtimes
  <2>4. wanted' = IF url = launch THEN wanted ELSE None
    BY <1>3, <2>3 DEF A!InitialUrl
  <2> QED  BY <2>1, <2>3, <2>4 DEF StartupTyped, ClaimedOnce, WantedIsLaunch
<1>4. CASE A!HandleInitial
  <2>1. /\ runtime.stage = "settled" /\ runtime.known /\ linked
        /\ runtime' = [runtime EXCEPT !.stage = "over"]
        /\ UNCHANGED <<linked, launch, used, expired, wanted>>
        /\ IF runtime.initial = None THEN UNCHANGED <<client, lease, obstructed>>
           ELSE A!HandleUrl(runtime.initial)
    BY <1>4 DEF A!HandleInitial, A!Considers, StartupTyped, A!Down, A!Inert
  <2>2. /\ runtime' \in Runtimes /\ runtime'.stage = "over" /\ runtime'.known
        /\ runtime'.initial = runtime.initial /\ runtime.initial \in Links \union {None}
    BY <2>1 DEF StartupTyped, Runtimes, A!Stages
  <2>3. CASE runtime.initial = None
    BY <2>1, <2>2, <2>3 DEF StartupTyped, ClaimedOnce, WantedIsLaunch
  <2>4. CASE runtime.initial # None
    <3>1. /\ client' \in Clients /\ lease' \in {lease, None}
          /\ obstructed' \subseteq Links
          /\ client'.state \in {"active", "reconnecting"} => client' = client
          /\ client'.state = "connecting" => client'.session # None
          /\ client'.state = "closed" => client'.session = None
          /\ runtime.initial \notin expired =>
               client'.session = runtime.initial \/ runtime.initial \in obstructed'
      BY <2>1, <2>2, <2>4, UrlHandled
    <3> QED  BY <2>1, <2>2, <3>1 DEF StartupTyped, ClaimedOnce, WantedIsLaunch
  <2> QED  BY <2>3, <2>4
<1> QED  BY <1>1, <1>2, <1>3, <1>4

LEMMA PlatformIInv ==
    ASSUME StartupIInv, NEW l \in Links,
           A!Launch(l) \/ A!Deliver(l) \/ A!RunsOut(l)
    PROVE  StartupIInv'
<1> USE AppToolsConstants DEF A!StartupConstants, StartupIInv
<1>1. CASE A!Launch(l)
  BY <1>1 DEF A!Launch, StartupTyped, ClaimedOnce, WantedIsLaunch, A!Down
<1>2. CASE A!Deliver(l)
  <2>1. /\ runtime.listens /\ A!HandleUrl(l) /\ wanted' = None
        /\ UNCHANGED <<linked, launch, runtime, used>>
    BY <1>2 DEF A!Deliver
  <2>2. linked
    BY <2>1 DEF StartupTyped, A!Down, A!Inert
  <2>3. /\ client' \in Clients /\ lease' \in {lease, None}
        /\ obstructed' \subseteq Links
        /\ client'.state \in {"active", "reconnecting"} => client' = client
        /\ client'.state = "connecting" => client'.session # None
        /\ client'.state = "closed" => client'.session = None
    BY <2>1, UrlHandled
  <2> QED  BY <2>1, <2>2, <2>3 DEF StartupTyped, ClaimedOnce, WantedIsLaunch
<1>3. CASE A!RunsOut(l)
  BY <1>3 DEF A!RunsOut, StartupTyped, ClaimedOnce, WantedIsLaunch
<1> QED  BY <1>1, <1>2, <1>3

LEMMA StartupStep == StartupIInv /\ [A!StartupNext]_A!startupVars => StartupIInv'
<1> SUFFICES ASSUME StartupIInv, [A!StartupNext]_A!startupVars PROVE StartupIInv'
  OBVIOUS
<1>1. CASE A!Reload
  <2>1. A!Down \in Runtimes /\ A!NoClient \in Clients /\ None \in Links \union {None}
    BY DEF Runtimes, Clients, A!Down, A!NoClient, A!Stages
  <2> QED  BY <1>1, <2>1 DEF A!Reload, StartupIInv, StartupTyped, ClaimedOnce, WantedIsLaunch,
                             A!NoClient
<1>2. CASE UNCHANGED A!startupVars
  BY <1>2 DEF A!startupVars, StartupIInv, StartupTyped, ClaimedOnce, WantedIsLaunch
<1> QED  BY <1>1, <1>2, ClientIInv, RuntimeIInv, PlatformIInv DEF A!StartupNext

LEMMA StartupIInvSound == StartupIInv => A!StartupSound
  BY DEF StartupIInv, StartupTyped, Runtimes, Clients, WantedIsLaunch, A!StartupSound,
     A!StartupTypeOK, A!LaunchLinkWins

\* Of one part alone: the link that an app was launched with is not left for a session that
\* the process remembered, unless a socket of that session was still there (obstructed;
\* deep-link-install.ts, AppductConnectionManager.kt:603).
THEOREM StartupSpecSound == A!StartupSpec => []A!StartupSound
<1>1. A!StartupSpec => []StartupIInv
  BY StartupInitIInv, StartupStep, PTL DEF A!StartupSpec
<1> QED  BY <1>1, StartupIInvSound, PTL

\* And as the run has it, next to the registry.
THEOREM SpecStartupSound == Spec => []StartupSound
<1>1. Init => StartupIInv
  BY StartupInitIInv DEF Init
<1>2. StartupIInv /\ [Next]_vars => StartupIInv'
  <2> SUFFICES ASSUME StartupIInv, [Next]_vars PROVE StartupIInv'
    OBVIOUS
  <2>1. [A!StartupNext]_A!startupVars
    BY DEF Next, vars, startupVars, A!startupVars
  <2> QED  BY <2>1, StartupStep
<1>3. StartupIInv => StartupSound
  BY StartupIInvSound DEF StartupSound
<1> QED  BY <1>1, <1>2, <1>3, PTL DEF Spec

-------------------------------------------------------------------------------
(***************************************************************************)
(* The tools. First what a commit's effects are: for each hook at most one  *)
(* cleanup and one registration, the cleanups first.                       *)
(***************************************************************************)
Effects == [do : {"remove", "register"}, hook : Hooks]
Rendered == Definitions \union {Off}

LEMMA KeyTellsApart ==
    ASSUME NEW d \in Rendered, NEW e \in Rendered, R!Key(d) = R!Key(e)
    PROVE  /\ d = Off <=> e = Off
           /\ d # Off => /\ d.name = e.name /\ d.shape = e.shape
                         /\ d.shape = Shapeless => d.object = e.object
<1>1. /\ d # Off => d \in [name : ToolNames, shape : Shapes \union {Shapeless, Invalid},
                           object : Objects]
      /\ e # Off => e \in [name : ToolNames, shape : Shapes \union {Shapeless, Invalid},
                           object : Objects]
  BY AppToolsConstants DEF R!RegistryConstants, Rendered
<1>2. \A x \in Rendered : Len(R!Key(x)) = IF x = Off THEN 1 ELSE IF x.shape = Shapeless THEN 3 ELSE 2
  BY DEF R!Key
<1>3. (d = Off <=> e = Off) /\ (d # Off => (d.shape = Shapeless <=> e.shape = Shapeless))
  BY <1>2
<1>4. CASE d # Off /\ d.shape = Shapeless
  BY <1>3, <1>4 DEF R!Key
<1>5. CASE d # Off /\ d.shape # Shapeless
  BY <1>3, <1>5 DEF R!Key
<1> QED  BY <1>3, <1>4, <1>5

LEMMA ListedOnce ==
    ASSUME NEW T, IsFiniteSet(T)
    PROVE  /\ R!SetToSeq(T) \in Seq(T)
           /\ R!IsInjective(R!SetToSeq(T))
           /\ \A x \in T : \E i \in DOMAIN R!SetToSeq(T) : R!SetToSeq(T)[i] = x
<1>1. R!Cardinality(T) = Cardinality(T)
  BY DEF R!Cardinality, Cardinality, R!IsFiniteSet, IsFiniteSet
<1>2. PICK n \in Nat : n = Cardinality(T)
  BY FS_CardinalityType
<1>3. PICK f : f \in Bijection(1..n, T)
  BY <1>2, FS_CardinalityType DEF ExistsBijection
<1>4. f \in [1..n -> T] /\ R!IsInjective(f)
  BY <1>3 DEF Bijection, Injection, R!IsInjective, IsInjective
<1> DEFINE s == R!SetToSeq(T)
<1>5. s \in [1..n -> T] /\ R!IsInjective(s)
  <2>1. \E g \in [1..n -> T] : R!IsInjective(g)
    BY <1>4
  <2>2. s = CHOOSE g \in [1..n -> T] : R!IsInjective(g)
    BY <1>1, <1>2 DEF R!SetToSeq
  <2> HIDE DEF s
  <2> QED  BY <2>1, <2>2
<1> HIDE DEF s
<1>6. s \in Injection(1..n, T)
  BY <1>5 DEF Injection, R!IsInjective, IsInjective
<1>7. IsFiniteSet(1..n) /\ Cardinality(1..n) = n
  BY FS_Interval
<1>8. s \in Surjection(1..n, T)
  BY <1>2, <1>6, <1>7, FS_Injection
<1>9. \A x \in T : \E i \in DOMAIN s : s[i] = x
  BY <1>5, <1>8 DEF Surjection
<1>10. s \in Seq(T)
  BY <1>5
<1> QED  BY <1>5, <1>9, <1>10 DEF s

\* What is still to be done for a hook.
Pending(q, do, h) == \E i \in DOMAIN q : q[i] = [do |-> do, hook |-> h]

\* One cleanup and one registration of a hook at most, the cleanup first.
InTurn(q) ==
  \A i, j \in DOMAIN q :
    i < j /\ q[i].hook = q[j].hook => q[i].do = "remove" /\ q[j].do = "register"

LEMMA WorkOfCommit ==
    ASSUME NEW before \in [Hooks -> Rendered], NEW after \in [Hooks -> Rendered]
    PROVE  /\ R!Work(before, after) \in Seq(Effects)
           /\ InTurn(R!Work(before, after))
           /\ \A h \in Hooks :
                /\ Pending(R!Work(before, after), "remove", h)
                     <=> R!Key(before[h]) # R!Key(after[h]) /\ before[h] # Off
                /\ Pending(R!Work(before, after), "register", h)
                     <=> R!Key(before[h]) # R!Key(after[h]) /\ after[h] # Off
<1> DEFINE changed == {h \in Hooks : R!Key(before[h]) # R!Key(after[h])}
           gone == {h \in changed : before[h] # Off}
           new == {h \in changed : after[h] # Off}
           l == R!SetToSeq(gone)
           c == R!SetToSeq(new)
           rs == [i \in DOMAIN l |-> [do |-> "remove", hook |-> l[i]]]
           gs == [i \in DOMAIN c |-> [do |-> "register", hook |-> c[i]]]
           w == R!Work(before, after)
<1>1. IsFiniteSet(Hooks)
  BY AppToolsConstants DEF R!RegistryConstants, R!IsFiniteSet, IsFiniteSet
<1>2. IsFiniteSet(gone) /\ IsFiniteSet(new)
  BY <1>1, FS_Subset
<1>3. w = rs \o gs
  BY DEF R!Work
<1>4. /\ gone \subseteq Hooks /\ new \subseteq Hooks
      /\ \A h \in Hooks : (h \in gone <=> R!Key(before[h]) # R!Key(after[h]) /\ before[h] # Off)
      /\ \A h \in Hooks : (h \in new <=> R!Key(before[h]) # R!Key(after[h]) /\ after[h] # Off)
  OBVIOUS
<1> HIDE DEF w, changed, gone, new
<1>5. /\ l \in Seq(gone) /\ R!IsInjective(l) /\ \A x \in gone : \E i \in DOMAIN l : l[i] = x
  BY <1>2, ListedOnce
<1>6. /\ c \in Seq(new) /\ R!IsInjective(c) /\ \A x \in new : \E i \in DOMAIN c : c[i] = x
  BY <1>2, ListedOnce
<1> HIDE DEF l, c
<1>7. PICK m \in Nat, k \in Nat : Len(l) = m /\ DOMAIN l = 1..m /\ Len(c) = k /\ DOMAIN c = 1..k
  BY <1>5, <1>6
<1>8. /\ rs \in Seq(Effects) /\ Len(rs) = m
      /\ \A i \in 1..m : rs[i] = [do |-> "remove", hook |-> l[i]]
      /\ gs \in Seq(Effects) /\ Len(gs) = k
      /\ \A i \in 1..k : gs[i] = [do |-> "register", hook |-> c[i]]
  <2>1. \A i \in 1..m : l[i] \in Hooks
    BY <1>4, <1>5, <1>7
  <2>2. \A i \in 1..k : c[i] \in Hooks
    BY <1>4, <1>6, <1>7
  <2>3. rs \in [1..m -> Effects] /\ gs \in [1..k -> Effects]
    BY <1>7, <2>1, <2>2 DEF Effects
  <2>4. DOMAIN rs = 1..m /\ DOMAIN gs = 1..k
    BY <1>7
  <2> QED  BY <1>7, <2>3, <2>4
<1> HIDE DEF rs, gs
<1>9. /\ w \in Seq(Effects) /\ Len(w) = m + k
      /\ \A i \in 1..(m + k) : w[i] = IF i <= m THEN [do |-> "remove", hook |-> l[i]]
                                      ELSE [do |-> "register", hook |-> c[i - m]]
  <2>1. /\ w \in Seq(Effects) /\ Len(w) = m + k
        /\ \A i \in 1..(m + k) : w[i] = IF i <= m THEN rs[i] ELSE gs[i - m]
    <3>1. /\ rs \o gs \in Seq(Effects) /\ Len(rs \o gs) = Len(rs) + Len(gs)
          /\ \A i \in 1..(Len(rs) + Len(gs)) :
               (rs \o gs)[i] = IF i <= Len(rs) THEN rs[i] ELSE gs[i - Len(rs)]
      BY <1>8, ConcatProperties
    <3> QED  BY <1>3, <1>8, <3>1
  <2>2. \A i \in 1..(m + k) : (i <= m => i \in 1..m) /\ (~(i <= m) => i - m \in 1..k)
    OBVIOUS
  <2> QED  BY <1>8, <2>1, <2>2
<1>10. DOMAIN w = 1..(m + k)
  BY <1>9
<1>11. InTurn(w)
  <2> SUFFICES ASSUME NEW i \in 1..(m + k), NEW j \in 1..(m + k), i < j, w[i].hook = w[j].hook
               PROVE  w[i].do = "remove" /\ w[j].do = "register"
    BY <1>10 DEF InTurn
  <2>1. CASE j <= m
    <3>1. l[i] = l[j] /\ i \in DOMAIN l /\ j \in DOMAIN l
      BY <1>7, <1>9, <2>1
    <3> QED  BY <1>5, <3>1 DEF R!IsInjective
  <2>2. CASE i > m
    <3>1. c[i - m] = c[j - m] /\ i - m \in DOMAIN c /\ j - m \in DOMAIN c
      BY <1>7, <1>9, <2>2
    <3>2. i - m = j - m
      BY <1>6, <3>1 DEF R!IsInjective
    <3> QED  BY <3>2
  <2> QED  BY <1>9, <2>1, <2>2
<1>12. ASSUME NEW h \in Hooks PROVE Pending(w, "remove", h) <=> h \in gone
  <2>1. ASSUME Pending(w, "remove", h) PROVE h \in gone
    <3>1. PICK i \in 1..(m + k) : w[i] = [do |-> "remove", hook |-> h]
      BY <1>10, <2>1 DEF Pending
    <3>2. i <= m /\ l[i] = h
      BY <1>9, <3>1
    <3> QED  BY <1>5, <1>7, <3>2
  <2>2. ASSUME h \in gone PROVE Pending(w, "remove", h)
    <3>1. PICK i \in 1..m : l[i] = h
      BY <1>5, <1>7, <2>2
    <3>2. i \in 1..(m + k) /\ w[i] = [do |-> "remove", hook |-> h]
      BY <1>9, <3>1
    <3> QED  BY <1>10, <3>2 DEF Pending
  <2> QED  BY <2>1, <2>2
<1>13. ASSUME NEW h \in Hooks PROVE Pending(w, "register", h) <=> h \in new
  <2>1. ASSUME Pending(w, "register", h) PROVE h \in new
    <3>1. PICK i \in 1..(m + k) : w[i] = [do |-> "register", hook |-> h]
      BY <1>10, <2>1 DEF Pending
    <3>2. i - m \in 1..k /\ c[i - m] = h
      BY <1>9, <3>1
    <3> QED  BY <1>6, <1>7, <3>2
  <2>2. ASSUME h \in new PROVE Pending(w, "register", h)
    <3>1. PICK i \in 1..k : c[i] = h
      BY <1>6, <1>7, <2>2
    <3>2. i + m \in 1..(m + k) /\ ~(i + m <= m) /\ (i + m) - m = i
      OBVIOUS
    <3>3. w[i + m] = [do |-> "register", hook |-> h]
      BY <1>9, <3>1, <3>2
    <3> QED  BY <1>10, <3>2, <3>3 DEF Pending
  <2> QED  BY <2>1, <2>2
<1> QED  BY <1>4, <1>9, <1>11, <1>12, <1>13 DEF w

\* The first effect runs: what is left, and what it was the last of.
LEMMA OneDone ==
    ASSUME NEW q \in Seq(Effects), q # <<>>, InTurn(q)
    PROVE  /\ Tail(q) \in Seq(Effects) /\ InTurn(Tail(q)) /\ Head(q) \in Effects
           /\ \A h \in Hooks, do \in {"remove", "register"} :
                Pending(q, do, h) <=> Pending(Tail(q), do, h) \/ Head(q) = [do |-> do, hook |-> h]
           /\ Head(q).do = "register" =>
                \A do \in {"remove", "register"} : ~Pending(Tail(q), do, Head(q).hook)
           /\ ~Pending(Tail(q), "remove", Head(q).hook)
<1>1. PICK n \in Nat : n >= 1 /\ Len(q) = n /\ DOMAIN q = 1..n
  BY EmptySeq
<1>2. /\ Tail(q) \in Seq(Effects) /\ Len(Tail(q)) = n - 1 /\ Head(q) \in Effects
      /\ \A i \in 1..(n - 1) : Tail(q)[i] = q[i + 1]
  BY <1>1, HeadTailProperties
<1>3. DOMAIN Tail(q) = 1..(n - 1) /\ Head(q) = q[1]
  BY <1>1, <1>2
<1>4. InTurn(Tail(q))
  <2> SUFFICES ASSUME NEW i \in 1..(n - 1), NEW j \in 1..(n - 1), i < j,
                      Tail(q)[i].hook = Tail(q)[j].hook
               PROVE  Tail(q)[i].do = "remove" /\ Tail(q)[j].do = "register"
    BY <1>3 DEF InTurn
  <2>1. i + 1 \in DOMAIN q /\ j + 1 \in DOMAIN q /\ i + 1 < j + 1
    BY <1>1
  <2> QED  BY <1>2, <2>1 DEF InTurn
<1>5. ASSUME NEW h \in Hooks, NEW do \in {"remove", "register"}
      PROVE  Pending(q, do, h) <=> Pending(Tail(q), do, h) \/ Head(q) = [do |-> do, hook |-> h]
  <2>1. ASSUME Pending(q, do, h), Head(q) # [do |-> do, hook |-> h]
        PROVE  Pending(Tail(q), do, h)
    <3>1. PICK i \in 1..n : q[i] = [do |-> do, hook |-> h]
      BY <1>1, <2>1 DEF Pending
    <3>2. i - 1 \in 1..(n - 1) /\ (i - 1) + 1 = i
      BY <1>3, <2>1, <3>1
    <3>3. Tail(q)[i - 1] = q[i]
      BY <1>2, <3>2
    <3> QED  BY <1>3, <3>1, <3>2, <3>3 DEF Pending
  <2>2. ASSUME Pending(Tail(q), do, h) PROVE Pending(q, do, h)
    <3>1. PICK i \in 1..(n - 1) : Tail(q)[i] = [do |-> do, hook |-> h]
      BY <1>3, <2>2 DEF Pending
    <3>2. i + 1 \in DOMAIN q /\ q[i + 1] = [do |-> do, hook |-> h]
      BY <1>1, <1>2, <3>1
    <3> QED  BY <3>2 DEF Pending
  <2>3. 1 \in DOMAIN q
    BY <1>1
  <2> QED  BY <1>3, <2>1, <2>2, <2>3 DEF Pending
<1>6. ASSUME NEW do \in {"remove", "register"}, Pending(Tail(q), do, Head(q).hook)
      PROVE  Head(q).do = "remove" /\ do = "register"
  <2>1. PICK i \in 1..(n - 1) : Tail(q)[i] = [do |-> do, hook |-> Head(q).hook]
    BY <1>3, <1>6 DEF Pending
  <2>2. i + 1 \in DOMAIN q /\ 1 \in DOMAIN q /\ 1 < i + 1 /\ q[i + 1] = Tail(q)[i]
    BY <1>1, <1>2, <2>1
  <2>3. q[1].hook = q[i + 1].hook
    BY <1>3, <2>1, <2>2
  <2>4. q[1].do = "remove" /\ q[i + 1].do = "register"
    BY <2>2, <2>3 DEF InTurn
  <2> QED  BY <1>3, <2>1, <2>2, <2>4
<1> QED  BY <1>2, <1>4, <1>5, <1>6

(***************************************************************************)
(* The app's side.                                                         *)
(***************************************************************************)
Tasks == R!Deltas \union {R!Snapshot}

RegistryTyped ==
    /\ shown \in [Hooks -> Rendered]
    /\ holds \in [Hooks -> Rendered]
    /\ \A h \in Hooks : holds[h] # Off => holds[h].shape # Invalid
    /\ effects \in Seq(Effects)
    /\ tools \in [ToolNames -> [by : Hooks, def : Definitions] \union {NoTool}]
    /\ last \in [ToolNames -> Hooks \union {NoHook}]
    /\ native \in [ToolNames -> R!Published]
    /\ commits \in 0..MaxCommits

\* The entry a hook has under the name it registered is its registration.
EntryIsHeld ==
    \A n \in ToolNames, h \in Hooks :
      tools[n] # NoTool /\ tools[n].by = h /\ holds[h] # Off /\ holds[h].name = n
        => tools[n].def = holds[h]

\* What is still to be done makes up the difference between what a hook renders and holds.
DifferencePending ==
    /\ InTurn(effects)
    /\ \A h \in Hooks :
         LET toRegister == Pending(effects, "register", h)
             toRemove == Pending(effects, "remove", h)
         IN /\ toRegister => shown[h] # Off
            /\ toRemove /\ ~toRegister => shown[h] = Off
            /\ toRegister /\ ~toRemove => holds[h] = Off
            /\ ~toRegister /\ ~toRemove => R!Key(holds[h]) = R!Key(shown[h])

HookIInv == RegistryTyped /\ R!LastRegistrationStands /\ EntryIsHeld /\ DifferencePending

LEMMA DefinitionTyped ==
    /\ NoHook \notin Hooks /\ Off \notin Definitions
    /\ \A d \in Definitions :
         /\ d \in [name : ToolNames, shape : Shapes \union {Shapeless, Invalid}, object : Objects]
         /\ d.name \in ToolNames
         /\ d.shape # Invalid => d.shape \in R!Published
    /\ \A h \in Hooks, d \in Definitions :
         LET e == [by |-> h, def |-> d]
         IN e \in [by : Hooks, def : Definitions] /\ e # NoTool
  BY AppToolsConstants DEF R!RegistryConstants, R!Published

LEMMA HookInitIInv == R!RegistryInit => HookIInv
<1> SUFFICES ASSUME R!RegistryInit PROVE HookIInv
  OBVIOUS
<1>1. /\ shown = [h \in Hooks |-> Off] /\ holds = [h \in Hooks |-> Off] /\ effects = <<>>
      /\ tools = [n \in ToolNames |-> NoTool] /\ last = [n \in ToolNames |-> NoHook]
      /\ native = [n \in ToolNames |-> NoTool] /\ commits = 0
  BY DEF R!RegistryInit, R!Nothing
<1>2. RegistryTyped
  BY <1>1, AppToolsConstants DEF R!RegistryConstants, RegistryTyped, Rendered, R!Published
<1>3. R!LastRegistrationStands /\ EntryIsHeld
  BY <1>1, DefinitionTyped DEF R!LastRegistrationStands, EntryIsHeld
<1>4. DifferencePending
  BY <1>1 DEF DifferencePending, InTurn, Pending
<1> QED  BY <1>2, <1>3, <1>4 DEF HookIInv

LEMMA CommitIInv == HookIInv /\ R!Commit => HookIInv'
<1> SUFFICES ASSUME HookIInv, R!Commit PROVE HookIInv'
  OBVIOUS
<1>1. PICK w \in [Hooks -> Rendered] : shown' = w /\ effects' = R!Work(shown, w)
  BY DEF R!Commit, Rendered
<1>2. /\ effects = <<>> /\ commits < MaxCommits /\ commits' = commits + 1
      /\ UNCHANGED <<holds, tools, last, native>>
  BY DEF R!Commit
<1>3. /\ effects' \in Seq(Effects) /\ InTurn(effects')
      /\ \A h \in Hooks :
           /\ Pending(effects', "remove", h) <=> R!Key(shown[h]) # R!Key(w[h]) /\ shown[h] # Off
           /\ Pending(effects', "register", h) <=> R!Key(shown[h]) # R!Key(w[h]) /\ w[h] # Off
  BY <1>1, WorkOfCommit DEF HookIInv, RegistryTyped
<1>4. RegistryTyped'
  BY <1>1, <1>2, <1>3, AppToolsConstants DEF R!RegistryConstants, HookIInv, RegistryTyped
<1>5. R!LastRegistrationStands' /\ EntryIsHeld'
  BY <1>2 DEF HookIInv, R!LastRegistrationStands, EntryIsHeld
<1>6. DifferencePending'
  <2>1. \A h \in Hooks : R!Key(holds[h]) = R!Key(shown[h])
    BY <1>2 DEF HookIInv, DifferencePending, Pending
  <2>2. ASSUME NEW h \in Hooks, shown[h] = Off PROVE holds[h] = Off
    <3>1. holds[h] \in Rendered /\ shown[h] \in Rendered
      BY DEF HookIInv, RegistryTyped
    <3> QED  BY <2>1, <2>2, <3>1, KeyTellsApart
  <2>3. ASSUME NEW h \in Hooks, ~Pending(effects', "register", h), ~Pending(effects', "remove", h)
        PROVE  R!Key(shown[h]) = R!Key(w[h])
    BY <1>3, <2>3
  <2> QED  BY <1>1, <1>2, <1>3, <2>1, <2>2, <2>3 DEF DifferencePending
<1> QED  BY <1>4, <1>5, <1>6 DEF HookIInv

LEMMA RegisterIInv == HookIInv /\ R!RegisterTool => HookIInv'
<1> SUFFICES ASSUME HookIInv, R!RegisterTool PROVE HookIInv'
  OBVIOUS
<1> DEFINE h == Head(effects).hook
           d == shown[h]
<1>1. /\ effects # <<>> /\ Head(effects).do = "register" /\ effects' = Tail(effects)
      /\ UNCHANGED commits
  BY DEF R!RegisterTool
<1>2. /\ Tail(effects) \in Seq(Effects) /\ InTurn(Tail(effects))
      /\ h \in Hooks /\ Head(effects) = [do |-> "register", hook |-> h]
      /\ \A g \in Hooks, do \in {"remove", "register"} :
           Pending(effects, do, g) <=>
             Pending(effects', do, g) \/ Head(effects) = [do |-> do, hook |-> g]
      /\ ~Pending(effects', "register", h) /\ ~Pending(effects', "remove", h)
  <2>1. effects \in Seq(Effects) /\ InTurn(effects)
    BY DEF HookIInv, RegistryTyped, DifferencePending
  <2>2. /\ Tail(effects) \in Seq(Effects) /\ InTurn(Tail(effects)) /\ Head(effects) \in Effects
        /\ \A do \in {"remove", "register"} : ~Pending(Tail(effects), do, h)
    BY <1>1, <2>1, OneDone
  <2>3. \A g \in Hooks, do \in {"remove", "register"} :
          Pending(effects, do, g) <=>
            Pending(effects', do, g) \/ Head(effects) = [do |-> do, hook |-> g]
    BY <1>1, <2>1, OneDone
  <2>4. h \in Hooks /\ Head(effects) = [do |-> "register", hook |-> h]
    BY <1>1, <2>2 DEF Effects
  <2> QED  BY <1>1, <2>2, <2>3, <2>4
<1> HIDE DEF h
<1>3. /\ Pending(effects, "register", h) /\ ~Pending(effects, "remove", h)
      /\ \A g \in Hooks \ {h}, do \in {"remove", "register"} :
           Pending(effects, do, g) <=> Pending(effects', do, g)
  BY <1>2
<1>4. d # Off /\ d \in Definitions /\ holds[h] = Off
  BY <1>2, <1>3 DEF HookIInv, DifferencePending, RegistryTyped, Rendered
<1>5. CASE R!Refused(d)
  <2>1. shown' = [shown EXCEPT ![h] = Off] /\ UNCHANGED <<holds, tools, last, native>>
    BY <1>5 DEF R!RegisterTool, h
  <2>2. RegistryTyped'
    BY <1>1, <1>2, <2>1 DEF HookIInv, RegistryTyped, Rendered
  <2>3. R!LastRegistrationStands' /\ EntryIsHeld'
    BY <2>1 DEF HookIInv, R!LastRegistrationStands, EntryIsHeld
  <2>4. shown'[h] = Off /\ \A g \in Hooks \ {h} : shown'[g] = shown[g]
    BY <1>2, <2>1 DEF HookIInv, RegistryTyped
  <2>5. DifferencePending'
    BY <1>1, <1>2, <1>3, <1>4, <2>1, <2>4 DEF HookIInv, DifferencePending
  <2> QED  BY <2>2, <2>3, <2>5 DEF HookIInv
<1>6. CASE ~R!Refused(d)
  <2> DEFINE n == d.name
  <2>1. /\ native' = [native EXCEPT ![n] = d.shape]
        /\ tools' = [tools EXCEPT ![n] = [by |-> h, def |-> d]]
        /\ last' = [last EXCEPT ![n] = h]
        /\ holds' = [holds EXCEPT ![h] = d]
        /\ UNCHANGED shown
    BY <1>6 DEF R!RegisterTool, h
  <2>2. /\ n \in ToolNames /\ d.shape # Invalid /\ d.shape \in R!Published
        /\ [by |-> h, def |-> d] \in [by : Hooks, def : Definitions]
        /\ [by |-> h, def |-> d] # NoTool
    BY <1>2, <1>4, <1>6, DefinitionTyped DEF R!Refused
  <2> HIDE DEF n
  <2>3. RegistryTyped'
    <3>1. holds' \in [Hooks -> Rendered] /\ \A g \in Hooks : holds'[g] # Off => holds'[g].shape # Invalid
      BY <1>2, <1>4, <2>1, <2>2 DEF HookIInv, RegistryTyped, Rendered
    <3>2. /\ tools' \in [ToolNames -> [by : Hooks, def : Definitions] \union {NoTool}]
          /\ last' \in [ToolNames -> Hooks \union {NoHook}]
          /\ native' \in [ToolNames -> R!Published]
      BY <1>2, <2>1, <2>2 DEF HookIInv, RegistryTyped
    <3> QED  BY <1>1, <1>2, <2>1, <3>1, <3>2 DEF HookIInv, RegistryTyped
  <2>4. /\ tools'[n] = [by |-> h, def |-> d] /\ native'[n] = d.shape /\ last'[n] = h
        /\ holds'[h] = d
        /\ \A m \in ToolNames \ {n} :
             tools'[m] = tools[m] /\ native'[m] = native[m] /\ last'[m] = last[m]
        /\ \A g \in Hooks \ {h} : holds'[g] = holds[g]
    BY <1>2, <2>1, <2>2 DEF HookIInv, RegistryTyped
  <2>5. R!LastRegistrationStands'
    BY <1>2, <1>4, <2>2, <2>4 DEF HookIInv, R!LastRegistrationStands, n
  <2>6. EntryIsHeld'
    BY <1>2, <1>4, <2>2, <2>4 DEF HookIInv, EntryIsHeld, n
  <2>7. DifferencePending'
    BY <1>1, <1>2, <1>3, <1>4, <2>1, <2>4 DEF HookIInv, DifferencePending
  <2> QED  BY <2>3, <2>5, <2>6, <2>7 DEF HookIInv
<1> QED  BY <1>5, <1>6

LEMMA RemoveIInv == HookIInv /\ R!RemoveTool => HookIInv'
<1> SUFFICES ASSUME HookIInv, R!RemoveTool PROVE HookIInv'
  OBVIOUS
<1> DEFINE h == Head(effects).hook
           d == holds[h]
<1>1. /\ effects # <<>> /\ Head(effects).do = "remove" /\ effects' = Tail(effects)
      /\ holds' = [holds EXCEPT ![h] = Off]
      /\ UNCHANGED <<shown, last, commits>>
  BY DEF R!RemoveTool
<1>2. /\ Tail(effects) \in Seq(Effects) /\ InTurn(Tail(effects))
      /\ h \in Hooks /\ Head(effects) = [do |-> "remove", hook |-> h]
      /\ \A g \in Hooks, do \in {"remove", "register"} :
           Pending(effects, do, g) <=>
             Pending(effects', do, g) \/ Head(effects) = [do |-> do, hook |-> g]
      /\ ~Pending(effects', "remove", h)
  BY <1>1, OneDone DEF HookIInv, RegistryTyped, DifferencePending, Effects
<1>3. IF d # Off /\ R!Removes(h, d.name) THEN R!Unregister(d.name)
      ELSE UNCHANGED <<tools, native>>
  BY DEF R!RemoveTool
<1> HIDE DEF h
<1>4. /\ Pending(effects, "remove", h)
      /\ Pending(effects, "register", h) <=> Pending(effects', "register", h)
      /\ \A g \in Hooks \ {h}, do \in {"remove", "register"} :
           Pending(effects, do, g) <=> Pending(effects', do, g)
  BY <1>2
<1>5. holds'[h] = Off /\ \A g \in Hooks \ {h} : holds'[g] = holds[g]
  BY <1>1, <1>2 DEF HookIInv, RegistryTyped
<1>6. DifferencePending'
  BY <1>1, <1>2, <1>4, <1>5 DEF HookIInv, DifferencePending
<1>7. CASE d # Off /\ R!Removes(h, d.name)
  <2> DEFINE n == d.name
  <2>1. /\ tools' = [tools EXCEPT ![n] = NoTool] /\ native' = [native EXCEPT ![n] = NoTool]
        /\ tools[n] # NoTool /\ tools[n].by = h
    BY <1>3, <1>7 DEF R!Unregister, R!Removes
  <2>2. n \in ToolNames
    BY <1>2, <1>7, DefinitionTyped DEF HookIInv, RegistryTyped, Rendered
  <2> HIDE DEF n
  <2>3. /\ tools'[n] = NoTool
        /\ \A m \in ToolNames \ {n} : tools'[m] = tools[m] /\ native'[m] = native[m]
    BY <2>1, <2>2 DEF HookIInv, RegistryTyped
  <2>4. RegistryTyped'
    BY <1>1, <1>2, <1>5, <2>1, <2>2 DEF HookIInv, RegistryTyped, Rendered, R!Published
  <2>5. R!LastRegistrationStands'
    BY <1>1, <1>2, <1>5, <2>1, <2>3 DEF HookIInv, R!LastRegistrationStands
  <2>6. EntryIsHeld'
    BY <1>2, <1>5, <2>3 DEF HookIInv, EntryIsHeld
  <2> QED  BY <1>6, <2>4, <2>5, <2>6 DEF HookIInv
<1>8. CASE ~(d # Off /\ R!Removes(h, d.name))
  <2>1. UNCHANGED <<tools, native>>
    BY <1>3, <1>8
  <2>2. RegistryTyped'
    BY <1>1, <1>2, <1>5, <2>1 DEF HookIInv, RegistryTyped, Rendered
  <2>3. R!LastRegistrationStands' /\ EntryIsHeld'
    BY <1>1, <1>2, <1>5, <2>1 DEF HookIInv, R!LastRegistrationStands, EntryIsHeld
  <2> QED  BY <1>6, <2>2, <2>3 DEF HookIInv
<1> QED  BY <1>7, <1>8

LEMMA ByNameIInv ==
    ASSUME HookIInv, NEW n \in ToolNames, R!UnregisterByName(n)
    PROVE  HookIInv'
<1>1. /\ tools' = [tools EXCEPT ![n] = NoTool] /\ native' = [native EXCEPT ![n] = NoTool]
      /\ last' = [last EXCEPT ![n] = NoHook] /\ commits < MaxCommits /\ commits' = commits + 1
      /\ UNCHANGED <<shown, holds, effects>>
  BY DEF R!UnregisterByName, R!Unregister
<1>2. /\ tools'[n] = NoTool /\ last'[n] = NoHook
      /\ \A m \in ToolNames \ {n} :
           tools'[m] = tools[m] /\ native'[m] = native[m] /\ last'[m] = last[m]
  BY <1>1 DEF HookIInv, RegistryTyped
<1>3. RegistryTyped'
  BY <1>1, AppToolsConstants DEF R!RegistryConstants, HookIInv, RegistryTyped, R!Published
<1>4. R!LastRegistrationStands'
  BY <1>1, <1>2, DefinitionTyped DEF HookIInv, R!LastRegistrationStands
<1>5. EntryIsHeld'
  BY <1>1, <1>2 DEF HookIInv, EntryIsHeld
<1>6. DifferencePending'
  BY <1>1 DEF HookIInv, DifferencePending
<1> QED  BY <1>3, <1>4, <1>5, <1>6 DEF HookIInv

LEMMA HookStep == HookIInv /\ [R!RegistryNext]_R!registryVars => HookIInv'
<1> SUFFICES ASSUME HookIInv, [R!RegistryNext]_R!registryVars PROVE HookIInv'
  OBVIOUS
<1>1. CASE UNCHANGED R!hookVars
  BY <1>1 DEF R!hookVars, HookIInv, RegistryTyped, R!LastRegistrationStands, EntryIsHeld,
     DifferencePending
<1>2. \/ R!Commit \/ R!RegisterTool \/ R!RemoveTool \/ \E n \in ToolNames : R!UnregisterByName(n)
      \/ UNCHANGED R!hookVars
  BY DEF R!RegistryNext, R!registryVars, R!RunPosted, R!Disconnect, R!Resume, R!SessionLost,
     R!Claim, R!DaemonReads
<1> QED  BY <1>1, <1>2, CommitIInv, RegisterIInv, RemoveIInv, ByNameIInv

\* Between commits a hook's registration is what its component asks for.
LEMMA HookIInvKeepsUp == HookIInv => R!HookKeepsUp
<1> SUFFICES ASSUME HookIInv, effects = <<>>, NEW h \in Hooks, shown[h] # Off,
                    last[shown[h].name] = h
             PROVE  LET entry == tools[shown[h].name]
                    IN /\ entry # NoTool
                       /\ entry.def.shape = shown[h].shape
                       /\ shown[h].shape = Shapeless => entry.def.object = shown[h].object
  BY DEF R!HookKeepsUp
<1>1. R!Key(holds[h]) = R!Key(shown[h])
  BY DEF HookIInv, DifferencePending, Pending
<1>2. holds[h] \in Rendered /\ shown[h] \in Definitions
  BY DEF HookIInv, RegistryTyped, Rendered
<1>3. /\ holds[h] # Off /\ holds[h].name = shown[h].name /\ holds[h].shape = shown[h].shape
      /\ shown[h].shape = Shapeless => holds[h].object = shown[h].object
  BY <1>1, <1>2, KeyTellsApart DEF Rendered
<1>4. shown[h].name \in ToolNames
  BY <1>2, DefinitionTyped
<1>5. tools[shown[h].name] # NoTool /\ tools[shown[h].name].by = h
  BY <1>3, <1>4 DEF HookIInv, R!LastRegistrationStands
<1>6. tools[shown[h].name].def = holds[h]
  BY <1>3, <1>4, <1>5 DEF HookIInv, EntryIsHeld
<1> QED  BY <1>3, <1>5, <1>6

(***************************************************************************)
(* The way to the daemon.                                                  *)
(***************************************************************************)
Frames == R!Deltas \union [task : {"snapshot"}, all : [ToolNames -> R!Published]]

LinkTyped ==
    /\ native \in [ToolNames -> R!Published]
    /\ posted \in Seq(Tasks)
    /\ link \in {"idle", "active", "reconnecting"}
    /\ socket \in 0..MaxSockets
    /\ link = "active" => socket >= 1
    /\ wires \in [1..MaxSockets -> Seq(Frames)]
    /\ \A s \in 1..MaxSockets : s > socket => wires[s] = <<>>
    /\ daemon \in [ToolNames -> R!Published]
    /\ outdated \subseteq ToolNames

\* What a task or a frame says of a name, and the last one of a queue that says anything.
Covers(f, n) == f.task = "snapshot" \/ f.name = n
Said(f, n) == IF f.task = "snapshot" THEN f.all[n] ELSE f.shape
Covered(q, n) == \E i \in DOMAIN q : Covers(q[i], n)
IsLastOn(q, i, n) ==
    /\ i \in DOMAIN q
    /\ Covers(q[i], n)
    /\ \A j \in DOMAIN q : j > i => ~Covers(q[j], n)

\* The last word on a name, on its way or delivered, is the native registry's, unless a
\* frame of a socket left behind had it.
LastWord ==
    \A n \in ToolNames :
      /\ \A i \in DOMAIN posted :
           IsLastOn(posted, i, n) /\ posted[i].task = "delta" => posted[i].shape = native[n]
      /\ link = "active" /\ ~Covered(posted, n) =>
           /\ \A i \in DOMAIN wires[socket] :
                IsLastOn(wires[socket], i, n) => Said(wires[socket][i], n) = native[n]
           /\ n \notin outdated /\ ~Covered(wires[socket], n) => daemon[n] = native[n]

LinkIInv == LinkTyped /\ LastWord

LEMMA LastOfAppended ==
    ASSUME NEW S, NEW q \in Seq(S), NEW f \in S, NEW n
    PROVE  /\ Covered(Append(q, f), n) <=> Covered(q, n) \/ Covers(f, n)
           /\ \A i \in DOMAIN Append(q, f) :
                IsLastOn(Append(q, f), i, n) =>
                  \/ Covers(f, n) /\ Append(q, f)[i] = f
                  \/ ~Covers(f, n) /\ IsLastOn(q, i, n) /\ Append(q, f)[i] = q[i]
<1>1. PICK k \in Nat : Len(q) = k /\ DOMAIN q = 1..k
  OBVIOUS
<1> DEFINE p == Append(q, f)
<1>2. /\ DOMAIN p = 1..(k + 1) /\ p[k + 1] = f
      /\ \A i \in 1..k : p[i] = q[i]
  BY <1>1, AppendProperties
<1> HIDE DEF p
<1>3. Covered(p, n) <=> Covered(q, n) \/ Covers(f, n)
  <2>1. k + 1 \in 1..(k + 1) /\ 1..k \subseteq 1..(k + 1) /\ \A i \in 1..(k + 1) : i = k + 1 \/ i \in 1..k
    OBVIOUS
  <2> QED  BY <1>1, <1>2, <2>1 DEF Covered
<1>4. ASSUME NEW i \in 1..(k + 1), IsLastOn(p, i, n)
      PROVE  \/ Covers(f, n) /\ p[i] = f
             \/ ~Covers(f, n) /\ IsLastOn(q, i, n) /\ p[i] = q[i]
  <2>1. CASE i = k + 1
    BY <1>2, <1>4, <2>1 DEF IsLastOn
  <2>2. CASE i \in 1..k
    <3>1. k + 1 > i /\ k + 1 \in DOMAIN p
      BY <1>2, <2>2
    <3>2. ~Covers(f, n)
      BY <1>2, <1>4, <3>1 DEF IsLastOn
    <3>3. IsLastOn(q, i, n)
      BY <1>1, <1>2, <1>4, <2>2 DEF IsLastOn
    <3> QED  BY <1>2, <2>2, <3>2, <3>3
  <2> QED  BY <2>1, <2>2
<1> QED  BY <1>2, <1>3, <1>4 DEF p

LEMMA LastOfTail ==
    ASSUME NEW S, NEW q \in Seq(S), q # <<>>, NEW n
    PROVE  /\ Head(q) \in S /\ Tail(q) \in Seq(S)
           /\ Covered(q, n) <=> Covered(Tail(q), n) \/ Covers(Head(q), n)
           /\ \A i \in DOMAIN Tail(q) :
                IsLastOn(Tail(q), i, n) =>
                  i + 1 \in DOMAIN q /\ IsLastOn(q, i + 1, n) /\ Tail(q)[i] = q[i + 1]
           /\ Covers(Head(q), n) /\ ~Covered(Tail(q), n) =>
                1 \in DOMAIN q /\ IsLastOn(q, 1, n) /\ q[1] = Head(q)
<1>1. PICK k \in Nat : k >= 1 /\ Len(q) = k /\ DOMAIN q = 1..k
  BY EmptySeq
<1> DEFINE t == Tail(q)
<1>2. /\ Head(q) \in S /\ t \in Seq(S) /\ DOMAIN t = 1..(k - 1) /\ Head(q) = q[1]
      /\ \A i \in 1..(k - 1) : t[i] = q[i + 1]
  <2>1. /\ Head(q) \in S /\ t \in Seq(S) /\ Len(t) = k - 1
        /\ \A i \in 1..Len(t) : t[i] = q[i + 1]
    BY <1>1, HeadTailProperties
  <2> QED  BY <1>1, <2>1
<1> HIDE DEF t
<1>3. /\ 1 \in 1..k
      /\ \A i \in 1..k : i = 1 \/ (i - 1 \in 1..(k - 1) /\ (i - 1) + 1 = i)
      /\ \A i \in 1..(k - 1) : i + 1 \in 1..k
  BY <1>1
<1>4. Covered(q, n) <=> Covered(t, n) \/ Covers(Head(q), n)
  BY <1>1, <1>2, <1>3 DEF Covered
<1>5. ASSUME NEW i \in 1..(k - 1), IsLastOn(t, i, n)
      PROVE  i + 1 \in DOMAIN q /\ IsLastOn(q, i + 1, n) /\ t[i] = q[i + 1]
  <2>1. ASSUME NEW j \in 1..k, j > i + 1 PROVE ~Covers(q[j], n)
    <3>1. j - 1 \in 1..(k - 1) /\ j - 1 > i /\ (j - 1) + 1 = j
      BY <2>1
    <3>2. ~Covers(t[j - 1], n)
      BY <1>2, <1>5, <3>1 DEF IsLastOn
    <3> QED  BY <1>2, <3>1, <3>2
  <2>2. Covers(q[i + 1], n)
    BY <1>2, <1>5 DEF IsLastOn
  <2> QED  BY <1>1, <1>2, <1>3, <2>1, <2>2 DEF IsLastOn
<1>6. ASSUME Covers(Head(q), n), ~Covered(t, n)
      PROVE  1 \in DOMAIN q /\ IsLastOn(q, 1, n) /\ q[1] = Head(q)
  <2>1. ASSUME NEW j \in 1..k, j > 1 PROVE ~Covers(q[j], n)
    <3>1. j - 1 \in 1..(k - 1) /\ (j - 1) + 1 = j
      BY <2>1
    <3>2. ~Covers(t[j - 1], n)
      BY <1>2, <1>6, <3>1 DEF Covered
    <3> QED  BY <1>2, <3>1, <3>2
  <2> QED  BY <1>1, <1>2, <1>3, <1>6, <2>1 DEF IsLastOn
<1> QED  BY <1>2, <1>4, <1>5, <1>6 DEF t

\* Whatever the hooks do, native changes under one name at most, and says so in a delta.
LEMMA SaysWhatItChanges ==
    ASSUME HookIInv,
           R!Commit \/ R!RegisterTool \/ R!RemoveTool \/ \E n \in ToolNames : R!UnregisterByName(n)
    PROVE  /\ UNCHANGED <<link, socket, wires, daemon, outdated>>
           /\ \/ UNCHANGED <<native, posted>>
              \/ \E n \in ToolNames :
                   /\ posted' = Append(posted, [task |-> "delta", name |-> n, shape |-> native'[n]])
                   /\ \A m \in ToolNames \ {n} : native'[m] = native[m]
<1>1. UNCHANGED <<link, socket, wires, daemon, outdated>>
  BY DEF R!Commit, R!RegisterTool, R!RemoveTool, R!UnregisterByName, R!linkVars
<1>2. CASE R!Commit
  BY <1>1, <1>2 DEF R!Commit
<1>3. CASE R!RegisterTool
  <2>1. CASE R!Refused(shown[Head(effects).hook])
    BY <1>1, <1>3, <2>1 DEF R!RegisterTool
  <2>2. CASE ~R!Refused(shown[Head(effects).hook])
    <3> DEFINE d == shown[Head(effects).hook]
    <3>1. /\ Head(effects) = [do |-> "register", hook |-> Head(effects).hook]
          /\ Head(effects).hook \in Hooks
      <4>1. effects # <<>> /\ Head(effects).do = "register"
        BY <1>3 DEF R!RegisterTool
      <4>2. Head(effects) \in Effects
        BY <4>1, HeadTailProperties DEF HookIInv, RegistryTyped
      <4> QED  BY <4>1, <4>2 DEF Effects
    <3>2. Pending(effects, "register", Head(effects).hook)
      <4>1. effects \in Seq(Effects) /\ effects # <<>> /\ InTurn(effects)
        BY <1>3 DEF R!RegisterTool, HookIInv, RegistryTyped, DifferencePending
      <4> QED  BY <3>1, <4>1, OneDone
    <3>3. d.name \in ToolNames
      BY <3>1, <3>2, DefinitionTyped DEF HookIInv, DifferencePending, RegistryTyped, Rendered
    <3>4. /\ native' = [native EXCEPT ![d.name] = d.shape]
          /\ posted' = Append(posted, R!Delta(d.name))
      BY <1>3, <2>2 DEF R!RegisterTool
    <3> QED  BY <1>1, <3>3, <3>4 DEF R!Delta, HookIInv, RegistryTyped
  <2> QED  BY <2>1, <2>2
<1>4. CASE R!RemoveTool
  <2> DEFINE h == Head(effects).hook
             d == holds[h]
  <2>1. CASE d # Off /\ R!Removes(h, d.name)
    <3>1. h \in Hooks
      <4>1. effects # <<>>
        BY <1>4 DEF R!RemoveTool
      <4>2. Head(effects) \in Effects
        BY <4>1, HeadTailProperties DEF HookIInv, RegistryTyped
      <4> QED  BY <4>2 DEF Effects
    <3>2. d.name \in ToolNames
      BY <2>1, <3>1, DefinitionTyped DEF HookIInv, RegistryTyped, Rendered
    <3>3. R!Unregister(d.name)
      BY <1>4, <2>1 DEF R!RemoveTool
    <3> QED  BY <1>1, <3>2, <3>3 DEF R!Unregister, R!Delta, HookIInv, RegistryTyped
  <2>2. CASE ~(d # Off /\ R!Removes(h, d.name))
    BY <1>1, <1>4, <2>2 DEF R!RemoveTool
  <2> QED  BY <2>1, <2>2
<1>5. CASE \E n \in ToolNames : R!UnregisterByName(n)
  BY <1>1, <1>5 DEF R!UnregisterByName, R!Unregister, R!Delta, HookIInv, RegistryTyped
<1> QED  BY <1>2, <1>3, <1>4, <1>5

LEMMA LinkInit == R!RegistryInit => LinkIInv
<1> SUFFICES ASSUME R!RegistryInit PROVE LinkIInv
  OBVIOUS
<1>1. /\ native = [n \in ToolNames |-> NoTool] /\ daemon = native /\ posted = <<>>
      /\ link = "idle" /\ socket = 0 /\ wires = [s \in 1..MaxSockets |-> <<>>] /\ outdated = {}
  BY DEF R!RegistryInit, R!Nothing
<1>2. LinkTyped
  BY <1>1, AppToolsConstants DEF R!RegistryConstants, LinkTyped, R!Published
<1> QED  BY <1>1, <1>2 DEF LinkIInv, LastWord

\* The frames a task becomes, and what a task and its frame say.
LEMMA FrameOfTask ==
    ASSUME LinkTyped, NEW t \in Tasks
    PROVE  /\ R!Frame(t) \in Frames
           /\ \A n : Covers(R!Frame(t), n) <=> Covers(t, n)
           /\ \A n \in ToolNames :
                Said(R!Frame(t), n) = IF t.task = "delta" THEN t.shape ELSE native[n]
           /\ t.task \in {"delta", "snapshot"}
<1>1. CASE t \in R!Deltas
  <2>1. t.task = "delta" /\ R!Frame(t) = t
    BY <1>1 DEF R!Deltas, R!Frame
  <2> QED  BY <1>1, <2>1 DEF Frames, Said
<1>2. CASE t = R!Snapshot
  <2>1. t.task = "snapshot" /\ R!Frame(t) = [task |-> "snapshot", all |-> native]
    BY <1>2 DEF R!Snapshot, R!Frame
  <2> QED  BY <2>1 DEF Frames, Said, Covers, LinkTyped
<1> QED  BY <1>1, <1>2 DEF Tasks

LEMMA LinkTypedStep ==
    ASSUME HookIInv, HookIInv', LinkTyped, [R!RegistryNext]_R!registryVars
    PROVE  LinkTyped'
<1> USE DEF LinkTyped
<1>1. CASE R!Commit \/ R!RegisterTool \/ R!RemoveTool \/ \E n \in ToolNames : R!UnregisterByName(n)
  <2>1. native' \in [ToolNames -> R!Published]
    BY DEF HookIInv, RegistryTyped
  <2>2. UNCHANGED <<link, socket, wires, daemon, outdated>>
    BY <1>1, SaysWhatItChanges
  <2>3. posted' \in Seq(Tasks)
    <3>1. CASE UNCHANGED posted
      BY <3>1
    <3>2. CASE \E n \in ToolNames :
                 posted' = Append(posted, [task |-> "delta", name |-> n, shape |-> native'[n]])
      <4>1. PICK n \in ToolNames :
              posted' = Append(posted, [task |-> "delta", name |-> n, shape |-> native'[n]])
        BY <3>2
      <4>2. [task |-> "delta", name |-> n, shape |-> native'[n]] \in Tasks
        BY <2>1 DEF Tasks, R!Deltas
      <4> QED  BY <4>1, <4>2, AppendProperties
    <3> QED  BY <1>1, <3>1, <3>2, SaysWhatItChanges
  <2> QED  BY <2>1, <2>2, <2>3
<1>2. CASE R!RunPosted
  <2>1. /\ posted # <<>> /\ posted' = Tail(posted) /\ UNCHANGED <<native, link, socket, daemon, outdated>>
        /\ wires' = IF link = "active"
                    THEN [wires EXCEPT ![socket] = Append(@, R!Frame(Head(posted)))]
                    ELSE wires
    BY <1>2 DEF R!RunPosted, R!hookVars
  <2>2. Head(posted) \in Tasks /\ Tail(posted) \in Seq(Tasks)
    BY <2>1, HeadTailProperties
  <2>3. R!Frame(Head(posted)) \in Frames
    BY <2>2, FrameOfTask
  <2>4. CASE link = "active"
    <3>1. socket \in 1..MaxSockets /\ wires[socket] \in Seq(Frames)
      BY <2>4, AppToolsConstants DEF R!RegistryConstants
    <3>2. Append(wires[socket], R!Frame(Head(posted))) \in Seq(Frames)
      BY <2>3, <3>1
    <3>3. wires' \in [1..MaxSockets -> Seq(Frames)]
      BY <2>1, <2>4, <3>1, <3>2
    <3> QED  BY <2>1, <2>2, <2>4, <3>1, <3>3
  <2>5. CASE link # "active"
    BY <2>1, <2>2, <2>5
  <2> QED  BY <2>4, <2>5
<1>3. CASE R!Disconnect
  <2>1. /\ link = "active" /\ link' = "reconnecting" /\ UNCHANGED <<native, posted, socket, daemon, outdated>>
    BY <1>3 DEF R!Disconnect, R!hookVars
  <2>2. PICK k \in 0..Len(wires[socket]) : wires' = [wires EXCEPT ![socket] = SubSeq(@, 1, k)]
    BY <1>3 DEF R!Disconnect
  <2>3. socket \in 1..MaxSockets /\ wires[socket] \in Seq(Frames)
    BY <2>1, AppToolsConstants DEF R!RegistryConstants
  <2>4. SubSeq(wires[socket], 1, k) \in Seq(Frames)
    BY <2>2, <2>3, SubSeqProperties
  <2>5. wires' \in [1..MaxSockets -> Seq(Frames)]
    BY <2>2, <2>3, <2>4
  <2> QED  BY <2>1, <2>2, <2>3, <2>5
<1>4. CASE R!Resume \/ R!Claim
  <2>1. /\ socket < MaxSockets /\ socket' = socket + 1 /\ link' = "active"
        /\ posted' = Append(posted, R!Snapshot) /\ UNCHANGED native
        /\ daemon' \in {daemon, R!Nothing} /\ outdated' = {}
    BY <1>4 DEF R!Resume, R!Claim, R!Admitted, R!hookVars
  <2>2. posted' \in Seq(Tasks) /\ R!Nothing \in [ToolNames -> R!Published]
    BY <2>1 DEF Tasks, R!Nothing, R!Published
  <2>3. wires' = wires \/ wires' = [s \in 1..MaxSockets |-> <<>>]
    BY <1>4 DEF R!Resume, R!Claim
  <2>4. /\ wires' \in [1..MaxSockets -> Seq(Frames)]
        /\ \A s \in 1..MaxSockets : s > socket => wires'[s] = <<>>
    <3>1. <<>> \in Seq(Frames)
      OBVIOUS
    <3> QED  BY <2>3, <3>1
  <2>5. socket' \in 0..MaxSockets /\ socket' >= 1 /\ socket' > socket
    BY <2>1, AppToolsConstants DEF R!RegistryConstants
  <2>6. daemon' \in [ToolNames -> R!Published]
    BY <2>1, <2>2
  <2>7. \A s \in 1..MaxSockets : s > socket' => wires'[s] = <<>>
    BY <2>4, <2>5
  <2> QED  BY <2>1, <2>2, <2>4, <2>5, <2>6, <2>7
<1>5. CASE R!SessionLost
  BY <1>5 DEF R!SessionLost, R!hookVars
<1>6. CASE \E s \in 1..MaxSockets : R!DaemonReads(s)
  <2>1. PICK s \in 1..MaxSockets : R!DaemonReads(s)
    BY <1>6
  <2>2. /\ wires[s] # <<>> /\ wires' = [wires EXCEPT ![s] = Tail(@)]
        /\ daemon' = R!Applied(Head(wires[s])) /\ UNCHANGED <<native, posted, link, socket>>
        /\ outdated' \subseteq outdated \union R!Written(Head(wires[s]))
    BY <2>1 DEF R!DaemonReads, R!hookVars
  <2>3. wires[s] \in Seq(Frames) /\ Head(wires[s]) \in Frames /\ Tail(wires[s]) \in Seq(Frames)
    BY <2>2, HeadTailProperties
  <2>4. daemon' \in [ToolNames -> R!Published]
    <3>1. CASE Head(wires[s]) \in R!Deltas
      BY <2>2, <3>1 DEF R!Applied, R!Deltas
    <3>2. CASE Head(wires[s]) \in [task : {"snapshot"}, all : [ToolNames -> R!Published]]
      BY <2>2, <3>2 DEF R!Applied
    <3> QED  BY <2>3, <3>1, <3>2 DEF Frames
  <2>5. R!Written(Head(wires[s])) \subseteq ToolNames
    BY <2>3 DEF R!Written, R!Deltas, Frames
  <2> QED  BY <2>2, <2>3, <2>4, <2>5
<1>7. CASE UNCHANGED R!registryVars
  BY <1>7 DEF R!registryVars, R!hookVars, R!linkVars
<1> QED  BY <1>1, <1>2, <1>3, <1>4, <1>5, <1>6, <1>7 DEF R!RegistryNext

LEMMA LastWordStep ==
    ASSUME HookIInv, LinkIInv, [R!RegistryNext]_R!registryVars
    PROVE  LastWord'
<1> USE DEF LinkIInv
<1>1. CASE R!Commit \/ R!RegisterTool \/ R!RemoveTool \/ \E n \in ToolNames : R!UnregisterByName(n)
  <2>1. UNCHANGED <<link, socket, wires, daemon, outdated>>
    BY <1>1, SaysWhatItChanges
  <2>2. CASE UNCHANGED <<native, posted>>
    BY <2>1, <2>2 DEF LastWord
  <2>3. ASSUME NEW n \in ToolNames,
               posted' = Append(posted, [task |-> "delta", name |-> n, shape |-> native'[n]]),
               \A m \in ToolNames \ {n} : native'[m] = native[m]
        PROVE  LastWord'
    <3> DEFINE t == [task |-> "delta", name |-> n, shape |-> native'[n]]
    <3>1. t.task = "delta" /\ t.name = n /\ t.shape = native'[n] /\ \A m : Covers(t, m) <=> m = n
      BY DEF Covers
    <3> HIDE DEF t
    <3>2. posted \in Seq(Tasks \union {t}) /\ t \in Tasks \union {t}
      BY DEF LinkTyped
    <3>3. posted' = Append(posted, t)
      BY <2>3 DEF t
    <3>4. ASSUME NEW m \in ToolNames
          PROVE  /\ Covered(posted', m) <=> Covered(posted, m) \/ m = n
                 /\ \A i \in DOMAIN posted' :
                      IsLastOn(posted', i, m) =>
                        \/ m = n /\ posted'[i] = t
                        \/ m # n /\ IsLastOn(posted, i, m) /\ posted'[i] = posted[i]
      <4>1. /\ Covered(Append(posted, t), m) <=> Covered(posted, m) \/ Covers(t, m)
            /\ \A i \in DOMAIN Append(posted, t) :
                 IsLastOn(Append(posted, t), i, m) =>
                   \/ Covers(t, m) /\ Append(posted, t)[i] = t
                   \/ ~Covers(t, m) /\ IsLastOn(posted, i, m) /\ Append(posted, t)[i] = posted[i]
        BY <3>2, LastOfAppended, Zenon
      <4> QED  BY <3>1, <3>3, <4>1
    <3>5. \A m \in ToolNames, i \in DOMAIN posted' :
             IsLastOn(posted', i, m) /\ posted'[i].task = "delta" => posted'[i].shape = native'[m]
      BY <2>3, <3>1, <3>4 DEF LastWord, IsLastOn
    <3>6. ASSUME NEW m \in ToolNames, ~Covered(posted', m)
          PROVE  ~Covered(posted, m) /\ native'[m] = native[m]
      BY <2>3, <3>4, <3>6
    <3> QED  BY <2>1, <3>5, <3>6 DEF LastWord
  <2> QED  BY <1>1, <2>2, <2>3, SaysWhatItChanges
<1>2. CASE R!RunPosted
  <2> DEFINE t == Head(posted)
             f == R!Frame(t)
             w == wires[socket]
  <2>1. /\ posted # <<>> /\ posted' = Tail(posted) /\ UNCHANGED <<native, link, socket, daemon, outdated>>
        /\ wires' = IF link = "active" THEN [wires EXCEPT ![socket] = Append(@, f)] ELSE wires
    BY <1>2 DEF R!RunPosted, R!hookVars
  <2>2. t \in Tasks /\ posted \in Seq(Tasks)
    BY <2>1, HeadTailProperties DEF LinkTyped
  <2>3. /\ f \in Frames /\ \A n : Covers(f, n) <=> Covers(t, n)
        /\ \A n \in ToolNames : Said(f, n) = IF t.task = "delta" THEN t.shape ELSE native[n]
    BY <2>2, FrameOfTask
  <2> HIDE DEF t, f
  <2>4. ASSUME NEW n \in ToolNames
        PROVE  /\ Covered(posted, n) <=> Covered(posted', n) \/ Covers(t, n)
               /\ \A i \in DOMAIN posted' :
                    IsLastOn(posted', i, n) =>
                      i + 1 \in DOMAIN posted /\ IsLastOn(posted, i + 1, n)
                        /\ posted'[i] = posted[i + 1]
               /\ Covers(t, n) /\ ~Covered(posted', n) =>
                    1 \in DOMAIN posted /\ IsLastOn(posted, 1, n) /\ posted[1] = t
    <3>1. /\ Head(posted) \in Tasks /\ Tail(posted) \in Seq(Tasks)
          /\ Covered(posted, n) <=> Covered(Tail(posted), n) \/ Covers(Head(posted), n)
          /\ \A i \in DOMAIN Tail(posted) :
               IsLastOn(Tail(posted), i, n) =>
                 i + 1 \in DOMAIN posted /\ IsLastOn(posted, i + 1, n) /\ Tail(posted)[i] = posted[i + 1]
          /\ Covers(Head(posted), n) /\ ~Covered(Tail(posted), n) =>
               1 \in DOMAIN posted /\ IsLastOn(posted, 1, n) /\ posted[1] = Head(posted)
      BY <2>1, <2>2, LastOfTail, Zenon
    <3> QED  BY <2>1, <3>1 DEF t
  <2>5. \A n \in ToolNames, i \in DOMAIN posted' :
           IsLastOn(posted', i, n) /\ posted'[i].task = "delta" => posted'[i].shape = native'[n]
    BY <2>1, <2>4 DEF LastWord
  <2>6. ASSUME NEW n \in ToolNames, Covers(t, n), ~Covered(posted', n)
        PROVE  Said(f, n) = native[n]
    BY <2>3, <2>4, <2>6 DEF LastWord
  <2>7. ASSUME link = "active", NEW n \in ToolNames, ~Covered(posted', n)
        PROVE  /\ \A i \in DOMAIN wires'[socket] :
                    IsLastOn(wires'[socket], i, n) => Said(wires'[socket][i], n) = native[n]
               /\ n \notin outdated /\ ~Covered(wires'[socket], n) => daemon[n] = native[n]
    <3>1. socket \in 1..MaxSockets /\ w \in Seq(Frames) /\ wires'[socket] = Append(w, f)
      BY <2>1, <2>7, AppToolsConstants DEF R!RegistryConstants, LinkTyped
    <3> HIDE DEF w
    <3>2. /\ Covered(Append(w, f), n) <=> Covered(w, n) \/ Covers(f, n)
          /\ \A i \in DOMAIN Append(w, f) :
               IsLastOn(Append(w, f), i, n) =>
                 \/ Covers(f, n) /\ Append(w, f)[i] = f
                 \/ ~Covers(f, n) /\ IsLastOn(w, i, n) /\ Append(w, f)[i] = w[i]
      BY <2>3, <3>1, LastOfAppended
    <3>3. CASE Covers(t, n)
      BY <2>3, <2>6, <2>7, <3>1, <3>2, <3>3
    <3>4. CASE ~Covers(t, n)
      <4>1. ~Covered(posted, n)
        BY <2>4, <2>7, <3>4
      <4>2. /\ \A i \in DOMAIN w : IsLastOn(w, i, n) => Said(w[i], n) = native[n]
            /\ n \notin outdated /\ ~Covered(w, n) => daemon[n] = native[n]
        BY <2>7, <4>1 DEF LastWord, w
      <4> QED  BY <2>3, <3>1, <3>2, <3>4, <4>2 DEF IsLastOn
    <3> QED  BY <3>3, <3>4
  <2> QED  BY <2>1, <2>5, <2>7 DEF LastWord
<1>3. CASE R!Disconnect \/ R!SessionLost
  BY <1>3 DEF R!Disconnect, R!SessionLost, R!hookVars, LastWord
<1>4. CASE R!Resume \/ R!Claim
  <2>1. posted' = Append(posted, R!Snapshot) /\ UNCHANGED native
    BY <1>4 DEF R!Resume, R!Claim, R!Admitted, R!hookVars
  <2>2. R!Snapshot.task = "snapshot" /\ \A n : Covers(R!Snapshot, n)
    BY DEF R!Snapshot, Covers
  <2>3. posted \in Seq(Tasks) /\ R!Snapshot \in Tasks
    BY DEF LinkTyped, Tasks
  <2>4. ASSUME NEW n \in ToolNames
        PROVE  /\ Covered(posted', n)
               /\ \A i \in DOMAIN posted' : IsLastOn(posted', i, n) => posted'[i] = R!Snapshot
    BY <2>1, <2>2, <2>3, LastOfAppended
  <2> QED  BY <2>1, <2>2, <2>4 DEF LastWord
<1>5. CASE \E s \in 1..MaxSockets : R!DaemonReads(s)
  <2>1. PICK s \in 1..MaxSockets : R!DaemonReads(s)
    BY <1>5
  <2> DEFINE w == wires[s]
             f == Head(w)
             q == wires[socket]
  <2>2. /\ w # <<>> /\ wires' = [wires EXCEPT ![s] = Tail(@)]
        /\ daemon' = R!Applied(f) /\ UNCHANGED <<native, posted, link, socket>>
        /\ outdated' = IF s = socket THEN outdated \ R!Written(f) ELSE outdated \union R!Written(f)
    BY <2>1 DEF R!DaemonReads, R!hookVars
  <2>3. w \in Seq(Frames) /\ f \in Frames /\ wires'[s] = Tail(w)
    BY <2>2, HeadTailProperties DEF LinkTyped
  <2>4. ASSUME NEW n \in ToolNames
        PROVE  /\ daemon'[n] = IF Covers(f, n) THEN Said(f, n) ELSE daemon[n]
               /\ n \in R!Written(f) <=> Covers(f, n)
    <3> HIDE DEF w, f
    <3>1. CASE f \in R!Deltas
      BY <2>2, <3>1 DEF R!Applied, R!Written, R!Deltas, Covers, Said, LinkTyped
    <3>2. CASE f \in [task : {"snapshot"}, all : [ToolNames -> R!Published]]
      BY <2>2, <3>2 DEF R!Applied, R!Written, Covers, Said
    <3> QED  BY <2>3, <3>1, <3>2 DEF Frames
  <2>5. ASSUME link = "active", NEW n \in ToolNames, ~Covered(posted, n)
        PROVE  /\ \A i \in DOMAIN q : IsLastOn(q, i, n) => Said(q[i], n) = native[n]
               /\ n \notin outdated /\ ~Covered(q, n) => daemon[n] = native[n]
    BY <2>5 DEF LastWord
  <2>6. ASSUME link = "active", NEW n \in ToolNames, ~Covered(posted, n)
        PROVE  /\ \A i \in DOMAIN wires'[socket] :
                    IsLastOn(wires'[socket], i, n) => Said(wires'[socket][i], n) = native[n]
               /\ n \notin outdated' /\ ~Covered(wires'[socket], n) => daemon'[n] = native[n]
    <3>1. CASE s # socket
      <4>1. wires'[socket] = q
        BY <2>2, <2>6, <3>1 DEF LinkTyped
      <4>2. n \notin outdated' => n \notin outdated /\ daemon'[n] = daemon[n]
        BY <2>2, <2>4, <3>1
      <4> HIDE DEF q
      <4> QED  BY <2>5, <2>6, <4>1, <4>2
    <3>2. CASE s = socket
      <4>1. w = q /\ wires'[socket] = Tail(w)
        BY <2>3, <3>2
      <4>2. w \in Seq(Frames) /\ w # <<>>
        BY <2>2, <2>3
      <4>3. n \notin outdated' => Covers(f, n) \/ (n \notin outdated /\ daemon'[n] = daemon[n])
        BY <2>2, <2>4, <3>2
      <4>4. Covers(f, n) => daemon'[n] = Said(f, n)
        BY <2>4
      <4>5. /\ \A i \in DOMAIN w : IsLastOn(w, i, n) => Said(w[i], n) = native[n]
            /\ n \notin outdated /\ ~Covered(w, n) => daemon[n] = native[n]
        BY <2>5, <2>6, <4>1
      <4> HIDE DEF w, q
      <4>6. /\ Head(w) \in Frames /\ Tail(w) \in Seq(Frames)
            /\ Covered(w, n) <=> Covered(Tail(w), n) \/ Covers(Head(w), n)
            /\ \A i \in DOMAIN Tail(w) :
                 IsLastOn(Tail(w), i, n) =>
                   i + 1 \in DOMAIN w /\ IsLastOn(w, i + 1, n) /\ Tail(w)[i] = w[i + 1]
            /\ Covers(Head(w), n) /\ ~Covered(Tail(w), n) =>
                 1 \in DOMAIN w /\ IsLastOn(w, 1, n) /\ w[1] = Head(w)
        BY <4>2, LastOfTail, Zenon
      <4>7. \A i \in DOMAIN Tail(w) : IsLastOn(Tail(w), i, n) => Said(Tail(w)[i], n) = native[n]
        BY <4>5, <4>6
      <4>8. n \notin outdated' /\ ~Covered(Tail(w), n) => daemon'[n] = native[n]
        BY <4>3, <4>4, <4>5, <4>6
      <4> QED  BY <4>1, <4>7, <4>8
    <3> QED  BY <3>1, <3>2
  <2>7. \A n \in ToolNames, i \in DOMAIN posted' :
           IsLastOn(posted', i, n) /\ posted'[i].task = "delta" => posted'[i].shape = native'[n]
    BY <2>2 DEF LastWord
  <2> HIDE DEF w, f, q
  <2> QED  BY <2>2, <2>6, <2>7 DEF LastWord
<1>6. CASE UNCHANGED R!registryVars
  BY <1>6 DEF R!registryVars, R!hookVars, R!linkVars, LastWord
<1> QED  BY <1>1, <1>2, <1>3, <1>4, <1>5, <1>6 DEF R!RegistryNext

RegistryIInv == HookIInv /\ LinkTyped

LEMMA RegistryStep == RegistryIInv /\ [R!RegistryNext]_R!registryVars => RegistryIInv'
  BY HookStep, LinkTypedStep DEF RegistryIInv

LEMMA RegistryIInvSound == RegistryIInv => R!RegistrySound
<1> SUFFICES ASSUME RegistryIInv PROVE R!RegistryTypeOK
  BY HookIInvKeepsUp DEF RegistryIInv, HookIInv, R!RegistrySound
<1>1. \A i \in DOMAIN effects : effects[i] \in Effects
  BY DEF RegistryIInv, HookIInv, RegistryTyped
<1>2. \A i \in DOMAIN posted : posted[i] \in Tasks
  BY DEF RegistryIInv, LinkTyped
<1>3. \A h \in Hooks : holds[h] # Off => holds[h] \in Definitions /\ holds[h].shape # Invalid
  BY DEF RegistryIInv, HookIInv, RegistryTyped, Rendered
<1> QED  BY <1>1, <1>2, <1>3 DEF RegistryIInv, HookIInv, RegistryTyped, LinkTyped, R!RegistryTypeOK,
            Rendered, Effects, Tasks

LEMMA ConvergedStep ==
    RegistryIInv /\ LinkIInv /\ [R!RegistryNext]_R!registryVars => (RegistryIInv /\ LinkIInv)'
  BY RegistryStep, LinkTypedStep, LastWordStep DEF RegistryIInv, LinkIInv

LEMMA LinkIInvConverges == LinkIInv => R!RegistryConverges
<1> SUFFICES ASSUME LinkIInv, link = "active", posted = <<>>,
                    \A s \in 1..MaxSockets : wires[s] = <<>>
             PROVE  \A n \in ToolNames \ outdated : daemon[n] = native[n]
  BY DEF R!RegistryConverges, R!Settled
<1>1. socket \in 1..MaxSockets
  BY AppToolsConstants DEF R!RegistryConstants, LinkIInv, LinkTyped
<1>2. \A n \in ToolNames : ~Covered(posted, n) /\ ~Covered(wires[socket], n)
  BY <1>1 DEF Covered
<1> QED  BY <1>2 DEF LinkIInv, LastWord

\* Of one part alone: the last registration of a name stands whatever the hooks that had it
\* before clean up, and between commits a hook publishes what its component asks for
\* (useAppductTool.ts, AppductClient.registerTool).
THEOREM RegistrySpecSound == R!RegistrySpec => []R!RegistrySound
<1>1. R!RegistryInit => RegistryIInv
  BY HookInitIInv, LinkInit DEF RegistryIInv, LinkIInv
<1>2. R!RegistrySpec => []RegistryIInv
  BY <1>1, RegistryStep, PTL DEF R!RegistrySpec
<1> QED  BY <1>2, RegistryIInvSound, PTL

\* And as the run has it, next to the start of the app.
THEOREM SpecRegistrySound == Spec => []RegistrySound
<1>1. Init => RegistryIInv
  BY HookInitIInv, LinkInit DEF Init, RegistryIInv, LinkIInv
<1>2. RegistryIInv /\ [Next]_vars => RegistryIInv'
  <2> SUFFICES ASSUME RegistryIInv, [Next]_vars PROVE RegistryIInv'
    OBVIOUS
  <2>1. [R!RegistryNext]_R!registryVars
    BY DEF Next, vars, registryVars, R!registryVars, R!hookVars, R!linkVars
  <2> QED  BY <2>1, RegistryStep
<1>3. RegistryIInv => RegistrySound
  BY RegistryIInvSound DEF RegistrySound
<1> QED  BY <1>1, <1>2, <1>3, PTL DEF Spec

\* Deltas and snapshots add up: once nothing is on its way, an active session's registry in
\* the daemon is the app's, whatever disconnects lost (AppductClient's outbound tasks,
\* registry.ts), but for a tool that a frame of a socket the session had left was the last
\* to write (sessions.ts:482).
THEOREM SpecRegistryConverges == Spec => []RegistryConverges
<1> DEFINE CInv == RegistryIInv /\ LinkIInv
<1>1. Init => CInv
  BY HookInitIInv, LinkInit DEF Init, RegistryIInv, LinkIInv
<1>2. CInv /\ [Next]_vars => CInv'
  <2> SUFFICES ASSUME CInv, [Next]_vars PROVE CInv'
    OBVIOUS
  <2>1. [R!RegistryNext]_R!registryVars
    BY DEF Next, vars, registryVars, R!registryVars, R!hookVars, R!linkVars
  <2> QED  BY <2>1, ConvergedStep
<1>3. CInv => RegistryConverges
  BY LinkIInvConverges DEF RegistryConverges
<1> QED  BY <1>1, <1>2, <1>3, PTL DEF Spec

================================================================================
