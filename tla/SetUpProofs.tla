------------------------------ MODULE SetUpProofs ------------------------------
(***************************************************************************)
(* Proofs about what surrounds the sessions, for any devices, schemes,     *)
(* records, days, daemons and files.                                       *)
(***************************************************************************)
EXTENDS MCSetUp, FiniteSetTheorems, SequenceTheorems, WellFoundedInduction, TLAPS

\* The cardinality that the models speak of is that of the theorems about it.
LEMMA SameCardinality ==
    \A T : /\ D!Cardinality(T) = Cardinality(T) /\ S!Cardinality(T) = Cardinality(T)
           /\ U!Cardinality(T) = Cardinality(T)
  BY DEF D!Cardinality, D!IsFiniteSet, S!Cardinality, S!IsFiniteSet, U!Cardinality, U!IsFiniteSet,
         Cardinality, IsFiniteSet

-------------------------------------------------------------------------------
(***************************************************************************)
(* The delivery of a link.                                                 *)
(***************************************************************************)

DeliveryTyped ==
    /\ request \in D!Requests /\ settings \in D!Settings
    /\ present \intersect gone = {}
    /\ unready \subseteq present \ Simulators
    /\ stage \in {"asked", "decided", "minted", "resolved", "forwarded", "undelivered", "over"}
    /\ listed \in [D!Enumerated -> (SUBSET D!Devices) \union {None}]
    /\ target \in [kind : D!Targets \union {None}, device : D!Devices \union {None}, found : BOOLEAN]
    /\ Len(links) <= 2
    /\ forwards \subseteq Androids \intersect present
    /\ opened \in D!Devices \union {None}
    /\ result \in D!Results \union {None}
    /\ result = None <=> stage # "over"

\* Where the target comes from.
Decision ==
    /\ \A k \in D!Enumerated : listed[k] # None => request.target = None
    /\ stage = "asked" => target = D!NoTarget
    /\ target.kind = None /\ stage \notin {"asked", "over"} => request.target \in {"none", None}
    /\ target.kind # None /\ request.target = None =>
         target.found /\ target.kind # "ios-device" /\ D!Cardinality(D!Candidates) = 1
    /\ target.found => request.target = None

\* How far the delivery is, and what is minted by then.
Progress ==
    /\ stage \in {"asked", "decided"} => links = <<>>
    /\ stage \in {"minted", "resolved", "forwarded", "undelivered"} =>
         links = <<IF D!UsesLoopback(target.kind) THEN "override" ELSE D!Detected>>
    /\ stage \in {"resolved", "forwarded"} =>
         /\ target.kind # None
         /\ target.kind # "android" => target.device # None
         /\ target.kind = "ios-device" => D!Detected = "lan"
    /\ stage = "forwarded" => target.kind = "android"
    /\ stage = "undelivered" => target.found
    /\ opened # None => stage = "over"

\* A device that the command names and on which the port is forwarded may go, but does
\* not come back without the forward.
StillForwarded ==
    stage = "forwarded" /\ (target.device # None \/ settings.serial # None)
      => D!Meant \subseteq forwards \union gone

Outcome ==
    /\ D!AddressSuitsTarget
    /\ D!RefusedBeforeMinting
    /\ D!FallsBackIffUnnamed
    /\ D!ForwardedBeforeOpening

DeliveryIInv == DeliveryTyped /\ Decision /\ Progress /\ StillForwarded /\ Outcome

-------------------------------------------------------------------------------
LEMMA TheKinds ==
    /\ D!OfKind["ios-sim"] = Simulators /\ D!OfKind["android"] = Androids
    /\ D!OfKind["ios-device"] = Phones
    /\ D!Devices = Simulators \union Androids \union Phones
    /\ D!Targets = {"ios-sim", "android", "ios-device"}
  BY DEF D!OfKind, D!Targets, D!Devices

LEMMA DeliveryInitIInv == D!DeliveryInit => DeliveryIInv
<1> SUFFICES ASSUME D!DeliveryInit PROVE DeliveryIInv
  OBVIOUS
<1> USE SetUpConstants DEF D!DeliveryConstants, D!DeliveryInit
<1>1. DeliveryTyped
  <2>1. target \in [kind : D!Targets \union {None}, device : D!Devices \union {None}, found : BOOLEAN]
    BY DEF D!NoTarget
  <2>2. listed \in [D!Enumerated -> (SUBSET D!Devices) \union {None}]
    <3> DEFINE L1 == (SUBSET D!Devices) \union {None}
    <3>1. None \in L1 /\ listed = [s \in D!Enumerated |-> None]
      OBVIOUS
    <3> HIDE DEF L1
    <3>2. listed \in [D!Enumerated -> L1]
      BY <3>1
    <3> QED  BY <3>2 DEF L1
  <2>3. Len(links) <= 2
    OBVIOUS
  <2> QED  BY <2>1, <2>2, <2>3 DEF DeliveryTyped
<1>2. Decision
  BY DEF Decision, D!NoTarget
<1>3. Progress /\ StillForwarded
  BY DEF Progress, StillForwarded
<1>4. Outcome
  BY DEF Outcome, D!AddressSuitsTarget, D!RefusedBeforeMinting, D!FallsBackIffUnnamed,
         D!ForwardedBeforeOpening, D!Results, D!Devices
<1> QED  BY <1>1, <1>2, <1>3, <1>4 DEF DeliveryIInv

\* Before the end nothing is said of the outcome.
LEMMA OutcomeKept ==
    ASSUME result = None, opened = None, UNCHANGED <<result, opened>>
    PROVE  Outcome'
  BY SetUpConstants DEF D!DeliveryConstants, Outcome, D!AddressSuitsTarget, D!RefusedBeforeMinting,
     D!FallsBackIffUnnamed, D!ForwardedBeforeOpening, D!Results, D!Devices

LEMMA WorldIInv ==
    ASSUME DeliveryIInv, NEW d \in D!Devices, D!Appears(d) \/ D!GetsReady(d) \/ D!Disappears(d)
    PROVE  DeliveryIInv'
<1>1. /\ result = None /\ opened = None
      /\ UNCHANGED <<request, settings, stage, listed, target, links, opened, result>>
  BY DEF D!Appears, D!GetsReady, D!Disappears, DeliveryIInv, Progress, DeliveryTyped
<1>2. DeliveryTyped'
  <2>1. /\ present' \intersect gone' = {} /\ unready' \subseteq present' \ Simulators
        /\ forwards' \subseteq Androids \intersect present'
    BY DEF D!Appears, D!GetsReady, D!Disappears, DeliveryIInv, DeliveryTyped
  <2> QED  BY <1>1, <2>1 DEF DeliveryIInv, DeliveryTyped
<1>3. Decision'
  BY <1>1 DEF DeliveryIInv, Decision, D!Candidates, D!Enumerated
<1>4. Progress'
  BY <1>1 DEF DeliveryIInv, Progress, D!Detected
<1>5. StillForwarded'
  <2> SUFFICES ASSUME stage = "forwarded", target.device # None \/ settings.serial # None
               PROVE  D!Meant' \subseteq forwards' \union gone'
    BY <1>1 DEF StillForwarded
  <2>1. D!Meant' = D!Meant
    BY <1>1 DEF D!Meant
  <2>2. forwards \union gone \subseteq forwards' \union gone'
    BY DEF D!Appears, D!GetsReady, D!Disappears
  <2> QED  BY <2>1, <2>2 DEF DeliveryIInv, StillForwarded
<1>6. Outcome'
  BY <1>1, OutcomeKept
<1> QED  BY <1>2, <1>3, <1>4, <1>5, <1>6 DEF DeliveryIInv

LEMMA DecidingIInv ==
    ASSUME DeliveryIInv,
           D!TakeNamed \/ (\E k \in D!Enumerated : D!Detect(k)) \/ D!TakeDetected
    PROVE  DeliveryIInv'
<1> USE SetUpConstants DEF D!DeliveryConstants
<1>1. /\ stage = "asked" /\ result = None /\ opened = None /\ links = <<>> /\ target = D!NoTarget
      /\ UNCHANGED <<request, settings, present, unready, gone, links, forwards, opened, result>>
      /\ stage' \in {"asked", "decided"}
  BY DEF D!TakeNamed, D!Detect, D!TakeDetected, D!On, D!world, DeliveryIInv, Progress, Decision
<1>2. CASE D!TakeNamed
  <2>1. /\ target' = (IF request.target \in D!Targets
                      THEN [kind |-> request.target, device |-> request.device, found |-> FALSE]
                      ELSE D!NoTarget)
        /\ stage' = "decided" /\ listed' = listed
    BY <1>2 DEF D!TakeNamed
  <2>2. request.device \in D!Devices \union {None}
        /\ request.target \in D!Targets \union {"none", None}
    BY DEF DeliveryIInv, DeliveryTyped, D!Requests
  <2>3. target' \in [kind : D!Targets \union {None}, device : D!Devices \union {None}, found : BOOLEAN]
        /\ (target'.kind # None => request.target = target'.kind) /\ ~target'.found
        /\ (target'.kind = None => request.target \notin D!Targets)
    BY <2>1, <2>2 DEF D!NoTarget
  <2>4. DeliveryTyped'
    BY <1>1, <2>1, <2>3 DEF DeliveryIInv, DeliveryTyped
  <2>5. Decision'
    BY <1>1, <2>1, <2>2, <2>3 DEF DeliveryIInv, DeliveryTyped, Decision
  <2>6. Progress' /\ StillForwarded'
    BY <1>1, <2>1 DEF Progress, StillForwarded
  <2> QED  BY <1>1, <2>4, <2>5, <2>6, OutcomeKept DEF DeliveryIInv
<1>3. ASSUME NEW k \in D!Enumerated, D!Detect(k)
      PROVE  DeliveryIInv'
  <2>1. request.target = None /\ UNCHANGED <<stage, target>>
    BY <1>3 DEF D!Detect
  <2>2. PICK found \in D!SafeList(k) :
          listed' = [listed EXCEPT ![k] = IF k = "android" /\ settings.serial # None
                                          THEN {settings.serial} ELSE found]
    BY <1>3 DEF D!Detect
  <2>3. found \in SUBSET D!Devices
    BY <2>2 DEF D!SafeList, D!Listing, D!BootedSimulators, D!AttachedAndroids, D!Devices
  <2>4. settings.serial \in Androids \union {None}
    BY DEF DeliveryIInv, DeliveryTyped, D!Settings
  <2>5. listed' \in [D!Enumerated -> (SUBSET D!Devices) \union {None}]
    BY <2>2, <2>3, <2>4 DEF DeliveryIInv, DeliveryTyped, D!Devices
  <2>6. DeliveryTyped'
    BY <1>1, <2>1, <2>5 DEF DeliveryIInv, DeliveryTyped
  <2>7. Decision'
    BY <1>1, <2>1 DEF DeliveryIInv, Decision, D!NoTarget
  <2>8. Progress' /\ StillForwarded'
    BY <1>1, <2>1 DEF Progress, StillForwarded
  <2> QED  BY <1>1, <2>6, <2>7, <2>8, OutcomeKept DEF DeliveryIInv
<1>4. CASE D!TakeDetected
  <2>1. /\ target' = IF D!Cardinality(D!Candidates) = 1
                     THEN CHOOSE c \in D!Candidates : TRUE ELSE D!NoTarget
        /\ stage' = "decided" /\ listed' = listed /\ \A k \in D!Enumerated : listed[k] # None
    BY <1>4 DEF D!TakeDetected
  <2>2. request.target = None
    BY <2>1 DEF DeliveryIInv, Decision, D!Enumerated
  <2>3. \A c \in D!Candidates :
          /\ c \in [kind : D!Targets \union {None}, device : D!Devices \union {None}, found : BOOLEAN]
          /\ c.kind \notin {None, "ios-device"} /\ c.found
    <3>1. ASSUME NEW k \in D!Enumerated
          PROVE  listed[k] \in SUBSET D!Devices
      <4>1. listed[k] \in (SUBSET D!Devices) \union {None} /\ listed[k] # None
        BY <2>1 DEF DeliveryIInv, DeliveryTyped
      <4> QED  BY <4>1
    <3>2. ASSUME NEW c \in D!Candidates
          PROVE  \E k \in D!Enumerated : \E d \in listed[k] :
                   c = [kind |-> k, device |-> d, found |-> TRUE]
      BY DEF D!Candidates
    <3>3. ASSUME NEW k \in D!Enumerated, NEW d \in listed[k]
          PROVE  /\ k \in D!Targets /\ k \notin {None, "ios-device"} /\ d \in D!Devices
      BY <3>1 DEF D!Enumerated, D!Targets
    <3>4. ASSUME NEW c \in D!Candidates
          PROVE  /\ c \in [kind : D!Targets \union {None}, device : D!Devices \union {None},
                           found : BOOLEAN]
                 /\ c.kind \notin {None, "ios-device"} /\ c.found
      <4>1. PICK k \in D!Enumerated : \E d \in listed[k] :
                   c = [kind |-> k, device |-> d, found |-> TRUE]
        BY <3>2
      <4>2. PICK d \in listed[k] : c = [kind |-> k, device |-> d, found |-> TRUE]
        BY <4>1
      <4> QED  BY <3>3, <4>2
    <3> QED  BY <3>4
  <2>4. D!Cardinality(D!Candidates) = 1 => target' \in D!Candidates
    <3>1. D!Cardinality({}) # 1
      BY SameCardinality, FS_EmptySet
    <3> QED  BY <2>1, <3>1
  <2>5. D!Cardinality(D!Candidates) # 1 => target' = D!NoTarget
    BY <2>1
  <2>6. target' \in [kind : D!Targets \union {None}, device : D!Devices \union {None}, found : BOOLEAN]
        /\ target'.kind # "ios-device" /\ (target'.kind # None => target'.found)
        /\ (target'.kind # None => D!Cardinality(D!Candidates) = 1)
    <3>1. CASE D!Cardinality(D!Candidates) = 1
      <4>1. target' \in D!Candidates
        BY <2>4, <3>1
      <4> QED  BY <2>3, <3>1, <4>1
    <3>2. CASE D!Cardinality(D!Candidates) # 1
      <4>1. target' = [kind |-> None, device |-> None, found |-> FALSE]
        BY <2>5, <3>2 DEF D!NoTarget
      <4>2. None # "ios-device"
        BY DEF D!Targets
      <4> QED  BY <4>1, <4>2
    <3> QED  BY <3>1, <3>2
  <2>7. D!Candidates' = D!Candidates
    BY <2>1 DEF D!Candidates, D!Enumerated
  <2>8. DeliveryTyped'
    BY <1>1, <2>1, <2>6 DEF DeliveryIInv, DeliveryTyped
  <2>9. Decision'
    BY <1>1, <2>1, <2>2, <2>6, <2>7 DEF DeliveryIInv, Decision
  <2>10. Progress' /\ StillForwarded'
    BY <1>1, <2>1 DEF Progress, StillForwarded
  <2> QED  BY <1>1, <2>8, <2>9, <2>10, OutcomeKept DEF DeliveryIInv
<1> QED  BY <1>2, <1>3, <1>4

\* Minting, and the steps before the command that opens the link.
LEMMA DeliveringIInv ==
    ASSUME DeliveryIInv,
           \/ D!Mint \/ D!SkipListing \/ D!ResolveSimulator \/ D!ResolveSingleIosDevice
           \/ D!ResolveAndroidSerial \/ D!Forward
    PROVE  DeliveryIInv'
<1> USE SetUpConstants DEF D!DeliveryConstants
<1>1. /\ stage \in {"decided", "minted", "resolved"} /\ result = None /\ opened = None
      /\ UNCHANGED <<request, settings, present, unready, gone, listed, opened, result>>
      /\ stage' \in {"minted", "resolved", "forwarded"}
      /\ D!Candidates' = D!Candidates /\ D!Detected' = D!Detected
  <2>1. /\ stage \in {"decided", "minted", "resolved"} /\ result = None
        /\ UNCHANGED <<request, settings, present, unready, gone, listed, opened, result>>
        /\ stage' \in {"minted", "resolved", "forwarded"}
    BY DEF D!Mint, D!SkipListing, D!ResolveSimulator, D!ResolveSingleIosDevice,
           D!ResolveAndroidSerial, D!Forward, D!On, D!MayDeliver, D!TakeOnly, D!world
  <2> QED  BY <2>1 DEF DeliveryIInv, Progress, D!Candidates, D!Enumerated, D!Detected
<1>2. CASE D!Mint
  <2>1. /\ links' = links \o <<IF D!UsesLoopback(target.kind) THEN "override" ELSE D!Detected>>
        /\ links = <<>> /\ stage' = "minted" /\ UNCHANGED <<target, forwards>> /\ stage = "decided"
    BY <1>2 DEF D!Mint, D!Minted, D!On, DeliveryIInv, Progress
  <2>2. links' = <<IF D!UsesLoopback(target.kind) THEN "override" ELSE D!Detected>>
    BY <2>1
  <2>3. Len(links') <= 2
    BY <2>2
  <2>4. DeliveryTyped'
    BY <1>1, <2>1, <2>3 DEF DeliveryIInv, DeliveryTyped
  <2>5. Decision'
    BY <1>1, <2>1 DEF DeliveryIInv, Decision
  <2>6. Progress' /\ StillForwarded'
    BY <1>1, <2>1, <2>2 DEF Progress, StillForwarded
  <2> QED  BY <1>1, <2>4, <2>5, <2>6, OutcomeKept DEF DeliveryIInv
<1>3. CASE D!SkipListing \/ D!ResolveSimulator \/ D!ResolveSingleIosDevice \/ D!ResolveAndroidSerial
  <2>1. D!MayDeliver /\ stage = "minted" /\ stage' = "resolved" /\ UNCHANGED <<links, forwards>>
    BY <1>3 DEF D!SkipListing, D!ResolveSimulator, D!ResolveSingleIosDevice,
                D!ResolveAndroidSerial, D!TakeOnly, D!MayDeliver, D!On
  <2>2. /\ target'.kind = target.kind /\ target'.found = target.found
        /\ target' \in [kind : D!Targets \union {None}, device : D!Devices \union {None},
                        found : BOOLEAN]
        /\ target.kind # "android" => target'.device # None
    <3>1. CASE D!SkipListing
      BY <3>1 DEF D!SkipListing, D!Named, DeliveryIInv, DeliveryTyped
    <3>2. CASE D!ResolveSimulator \/ D!ResolveSingleIosDevice
      <4>1. PICK d \in D!Devices : target' = [target EXCEPT !.device = d]
        BY <3>2 DEF D!ResolveSimulator, D!ResolveSingleIosDevice, D!TakeOnly, D!BootedSimulators,
                    D!PairedPhones, D!Devices
      <4> QED  BY <4>1 DEF DeliveryIInv, DeliveryTyped
    <3>3. CASE D!ResolveAndroidSerial
      BY <3>3 DEF D!ResolveAndroidSerial, D!TakeOnly, DeliveryIInv, DeliveryTyped
    <3> QED  BY <1>3, <3>1, <3>2, <3>3
  <2>3. target.kind # None /\ (target.kind = "ios-device" => D!Detected = "lan")
    <3>1. links = <<IF D!UsesLoopback(target.kind) THEN "override" ELSE D!Detected>>
      BY <2>1 DEF DeliveryIInv, Progress
    <3>2. links[Len(links)] = IF D!UsesLoopback(target.kind) THEN "override" ELSE D!Detected
      BY <3>1
    <3> QED  BY <2>1, <3>2 DEF D!MayDeliver, D!PointsHome, D!UsesLoopback
  <2>4. DeliveryTyped'
    BY <1>1, <2>1, <2>2 DEF DeliveryIInv, DeliveryTyped
  <2>5. Decision'
    BY <1>1, <2>1, <2>2 DEF DeliveryIInv, Decision
  <2>6. Progress'
    BY <1>1, <2>1, <2>2, <2>3 DEF DeliveryIInv, Progress, D!UsesLoopback
  <2>7. StillForwarded'
    BY <2>1 DEF StillForwarded
  <2> QED  BY <1>1, <2>4, <2>5, <2>6, <2>7, OutcomeKept DEF DeliveryIInv
<1>4. CASE D!Forward
  <2>1. PICK d \in D!Reached : forwards' = forwards \union {d}
    BY <1>4 DEF D!Forward
  <2>2. /\ target.kind = "android" /\ stage = "resolved" /\ stage' = "forwarded"
        /\ UNCHANGED <<target, links>>
    BY <1>4 DEF D!Forward, D!On
  <2>3. d \in D!Meant /\ d \in present
    BY DEF D!Reached
  <2>4. settings.serial \in Androids \union {None}
    BY DEF DeliveryIInv, DeliveryTyped, D!Settings
  <2>5. D!Meant \subseteq Androids
    BY <2>2, <2>4, TheKinds DEF D!Meant
  <2>6. target.device # None \/ settings.serial # None => D!Meant = {d}
    BY <2>3 DEF D!Meant
  <2>7. DeliveryTyped'
    BY <1>1, <2>1, <2>2, <2>3, <2>5 DEF DeliveryIInv, DeliveryTyped
  <2>8. Decision'
    BY <1>1, <2>2 DEF DeliveryIInv, Decision
  <2>9. Progress'
    BY <1>1, <2>2 DEF DeliveryIInv, Progress
  <2>10. StillForwarded'
    <3>1. D!Meant' = D!Meant
      BY <1>1, <2>2 DEF D!Meant
    <3> QED  BY <1>1, <2>1, <2>2, <2>6, <3>1 DEF StillForwarded
  <2> QED  BY <1>1, <2>7, <2>8, <2>9, <2>10, OutcomeKept DEF DeliveryIInv
<1> QED  BY <1>2, <1>3, <1>4

\* The ends that leave a link to use, or none.
LEMMA EndingIInv ==
    ASSUME DeliveryIInv,
           \/ D!Refuse \/ D!RefuseBundle \/ D!MintFails \/ D!Show \/ D!RefuseLoopback
           \/ D!DeliveryFails \/ D!FallBack
    PROVE  DeliveryIInv'
<1> USE SetUpConstants DEF D!DeliveryConstants
<1>1. /\ stage # "over" /\ result = None /\ opened = None
      /\ UNCHANGED <<request, settings, present, unready, gone, listed, target, forwards, opened>>
      /\ D!Candidates' = D!Candidates /\ D!Detected' = D!Detected
  <2>1. /\ result = None
        /\ UNCHANGED <<request, settings, present, unready, gone, listed, target, forwards, opened>>
    BY DEF D!Refuse, D!RefuseBundle, D!MintFails, D!Show, D!RefuseLoopback, D!DeliveryFails,
           D!FallBack, D!On, D!CommandFails, D!MayDeliver, D!world
  <2> QED  BY <2>1 DEF DeliveryIInv, DeliveryTyped, Progress, D!Candidates, D!Enumerated, D!Detected
<1>2. CASE D!DeliveryFails /\ target.found
  <2>1. /\ stage' = "undelivered" /\ UNCHANGED <<links, result>>
        /\ stage \in {"minted", "resolved", "forwarded"} /\ target.kind # None
    BY <1>2 DEF D!DeliveryFails, D!CommandFails, D!MayDeliver, D!On, DeliveryIInv, Progress
  <2>2. DeliveryTyped' /\ Decision'
    BY <1>1, <2>1 DEF DeliveryIInv, DeliveryTyped, Decision
  <2>3. Progress' /\ StillForwarded'
    BY <1>1, <1>2, <2>1 DEF DeliveryIInv, Progress, StillForwarded
  <2> QED  BY <1>1, <2>1, <2>2, <2>3, OutcomeKept DEF DeliveryIInv
<1>3. CASE ~ (D!DeliveryFails /\ target.found)
  <2>1. stage' = "over" /\ result' \in D!Results /\ result' # "delivered"
    BY <1>3 DEF D!Refuse, D!RefuseBundle, D!MintFails, D!Show, D!RefuseLoopback, D!DeliveryFails,
                D!FallBack, D!Ends, D!Results
  <2>2. links' = links \/ (D!FallBack /\ links' = links \o <<D!Detected>>)
    <3>1. CASE D!FallBack
      BY <3>1 DEF D!FallBack, D!Minted
    <3>2. CASE ~D!FallBack
      BY <3>2 DEF D!Refuse, D!RefuseBundle, D!MintFails, D!Show, D!RefuseLoopback, D!DeliveryFails
    <3> QED  BY <3>1, <3>2
  <2>3. ASSUME D!FallBack
        PROVE  /\ Len(links') = 2 /\ links'[Len(links')] = D!Detected
               /\ request.target = None /\ result' = "shown"
    <3>1. stage = "undelivered" /\ links' = links \o <<D!Detected>> /\ result' = "shown"
      BY <2>3 DEF D!FallBack, D!On, D!Ends, D!Minted
    <3> DEFINE a == IF D!UsesLoopback(target.kind) THEN "override" ELSE D!Detected
    <3>2. links = <<a>> /\ request.target = None
      BY <3>1 DEF DeliveryIInv, Progress, Decision
    <3> HIDE DEF a
    <3>3. /\ <<a>> \in Seq({a, D!Detected}) /\ <<D!Detected>> \in Seq({a, D!Detected})
          /\ Len(<<a>>) = 1 /\ Len(<<D!Detected>>) = 1 /\ <<D!Detected>>[1] = D!Detected
      OBVIOUS
    <3>4. Len(links') = 2 /\ links'[2] = D!Detected
      BY <3>1, <3>2, <3>3, ConcatProperties
    <3> QED  BY <3>1, <3>2, <3>4
  <2>4. DeliveryTyped'
    <3>1. Len(links') <= 2
      BY <2>2, <2>3 DEF DeliveryIInv, DeliveryTyped
    <3> QED  BY <1>1, <2>1, <3>1 DEF DeliveryIInv, DeliveryTyped
  <2>5. Decision'
    BY <1>1, <2>1 DEF DeliveryIInv, Decision
  <2>6. Progress' /\ StillForwarded'
    BY <2>1 DEF Progress, StillForwarded
  <2>7. result' = "shown" =>
          links'[Len(links')] = D!Detected' /\ request'.target \in {None, "none"}
    <3>1. CASE D!FallBack
      BY <1>1, <2>3, <3>1
    <3>2. ASSUME result' = "shown", ~D!FallBack
          PROVE  links'[Len(links')] = D!Detected' /\ request'.target \in {None, "none"}
      <4>1. stage = "minted" /\ target.kind = None /\ links' = links
        BY <1>3, <3>2 DEF D!Refuse, D!RefuseBundle, D!MintFails, D!Show, D!RefuseLoopback,
                    D!DeliveryFails, D!Ends, D!On, D!Results
      <4>2. request.target \in {None, "none"}
        BY <4>1 DEF DeliveryIInv, Decision
      <4>3. links = <<D!Detected>>
        BY <4>1 DEF DeliveryIInv, Progress, D!UsesLoopback, D!Targets
      <4> QED  BY <1>1, <4>1, <4>2, <4>3
    <3> QED  BY <3>1, <3>2
  <2>8. ASSUME result' = "invalid"
        PROVE  links' = <<>>
    <3>1. D!Refuse \/ D!RefuseBundle
      BY <1>3, <2>8 DEF D!MintFails, D!Show, D!RefuseLoopback, D!DeliveryFails, D!FallBack, D!Ends,
                  D!Results
    <3>2. stage \in {"asked", "decided"} /\ links' = links
      BY <3>1 DEF D!Refuse, D!RefuseBundle, D!On
    <3> QED  BY <3>2 DEF DeliveryIInv, Progress
  <2>9. ASSUME result' = "failed"
        PROVE  request'.target # None
    <3>1. D!DeliveryFails
      BY <1>3, <2>9 DEF D!Refuse, D!RefuseBundle, D!MintFails, D!Show, D!RefuseLoopback, D!FallBack,
                  D!Ends, D!Results
    <3>2. target.kind # None /\ ~target.found
      BY <1>3, <3>1 DEF D!DeliveryFails, D!CommandFails, D!MayDeliver, D!On, DeliveryIInv, Progress
    <3> QED  BY <1>1, <3>2 DEF DeliveryIInv, Decision
  <2>10. D!ForwardedBeforeOpening'
    BY <1>1 DEF D!ForwardedBeforeOpening, D!Devices
  <2>11. D!AddressSuitsTarget' /\ D!RefusedBeforeMinting' /\ D!FallsBackIffUnnamed'
    BY <2>1, <2>7, <2>8, <2>9 DEF D!AddressSuitsTarget, D!RefusedBeforeMinting,
       D!FallsBackIffUnnamed
  <2> QED  BY <2>4, <2>5, <2>6, <2>10, <2>11 DEF DeliveryIInv, Outcome
<1> QED  BY <1>2, <1>3

\* The link is opened where the command went: on a device of the target's kind, with the
\* address that suits it, and with the port forwarded if that is one it names.
LEMMA OpenIInv ==
    ASSUME DeliveryIInv, D!Open
    PROVE  DeliveryIInv'
<1> USE SetUpConstants DEF D!DeliveryConstants
<1>1. PICK d \in D!Reached : opened' = d
  BY DEF D!Open
<1>2. /\ stage \in {"resolved", "forwarded"} /\ result = None /\ opened = None
      /\ stage' = "over" /\ result' = "delivered"
      /\ UNCHANGED <<request, settings, present, unready, gone, listed, target, links, forwards>>
      /\ target.kind = "android" => stage = "forwarded"
      /\ D!Candidates' = D!Candidates /\ D!Detected' = D!Detected
  <2>1. /\ stage \in {"resolved", "forwarded"} /\ result = None
        /\ stage' = "over" /\ result' = "delivered"
        /\ UNCHANGED <<request, settings, present, unready, gone, listed, target, links, forwards>>
        /\ target.kind = "android" => stage = "forwarded"
    BY DEF D!Open, D!Ready, D!PhoneReady, D!On, D!Ends, D!world
  <2> QED  BY <2>1 DEF DeliveryIInv, Progress, D!Candidates, D!Enumerated, D!Detected
<1>3. target.kind \in D!Targets /\ d \in D!OfKind[target.kind]
  <2>1. settings.serial \in Androids \union {None}
    BY DEF DeliveryIInv, DeliveryTyped, D!Settings
  <2>2. d \in D!Meant /\ target.kind # None
    BY <1>2 DEF D!Reached, DeliveryIInv, Progress
  <2>3. target.kind \in D!Targets
    BY <2>2 DEF DeliveryIInv, DeliveryTyped
  <2>4. CASE target.device # None
    BY <2>2, <2>3, <2>4 DEF D!Meant
  <2>5. CASE target.device = None
    <3>1. target.kind = "android"
      BY <1>2, <2>5 DEF DeliveryIInv, Progress
    <3> QED  BY <2>1, <2>2, <2>3, <2>5, <3>1, TheKinds DEF D!Meant
  <2> QED  BY <2>4, <2>5
<1>4. d \in D!Devices /\ d \in present
  BY <1>3, TheKinds DEF D!Reached
<1>5. (d \in Phones <=> target.kind = "ios-device") /\ (d \in Androids <=> target.kind = "android")
  BY <1>3, TheKinds
<1>6. links[Len(links)] = IF d \in Phones THEN "lan" ELSE "override"
  <2>1. links = <<IF D!UsesLoopback(target.kind) THEN "override" ELSE D!Detected>>
    BY <1>2 DEF DeliveryIInv, Progress
  <2>2. links[Len(links)] = IF D!UsesLoopback(target.kind) THEN "override" ELSE D!Detected
    BY <2>1
  <2>3. target.kind = "ios-device" => D!Detected = "lan"
    BY <1>2 DEF DeliveryIInv, Progress
  <2> QED  BY <1>3, <1>5, <2>2, <2>3, TheKinds DEF D!UsesLoopback
<1>7. request.target = None => d \notin Phones /\ D!Cardinality(D!Candidates) = 1
  BY <1>2, <1>5 DEF DeliveryIInv, Progress, Decision
<1>8. ASSUME d \in Androids, target.device # None \/ settings.serial # None
      PROVE  d \in forwards
  <2>1. d \in forwards \union gone
    BY <1>2, <1>5, <1>8 DEF DeliveryIInv, StillForwarded, D!Reached
  <2> QED  BY <1>4, <2>1 DEF DeliveryIInv, DeliveryTyped
<1>9. DeliveryTyped'
  BY <1>1, <1>2, <1>4 DEF DeliveryIInv, DeliveryTyped, D!Results
<1>10. Decision' /\ Progress' /\ StillForwarded'
  BY <1>2 DEF DeliveryIInv, Decision, Progress, StillForwarded
<1>11. D!AddressSuitsTarget' /\ D!FallsBackIffUnnamed'
  BY <1>1, <1>2, <1>6, <1>7 DEF D!AddressSuitsTarget, D!FallsBackIffUnnamed
<1>12. D!RefusedBeforeMinting' /\ D!ForwardedBeforeOpening'
  BY <1>1, <1>2, <1>8 DEF D!RefusedBeforeMinting, D!ForwardedBeforeOpening
<1> QED  BY <1>9, <1>10, <1>11, <1>12 DEF DeliveryIInv, Outcome

LEMMA DeliveryStep == DeliveryIInv /\ [D!DeliveryNext]_D!deliveryVars => DeliveryIInv'
<1> SUFFICES ASSUME DeliveryIInv, [D!DeliveryNext]_D!deliveryVars PROVE DeliveryIInv'
  OBVIOUS
<1>1. CASE D!DeliveryNext
  BY <1>1, WorldIInv, DecidingIInv, DeliveringIInv, EndingIInv, OpenIInv DEF D!DeliveryNext
<1>2. CASE UNCHANGED D!deliveryVars
  <2>1. /\ UNCHANGED <<request, settings, present, unready, gone, stage, listed, target, links,
                       forwards, opened, result>>
        /\ D!Candidates' = D!Candidates /\ D!Detected' = D!Detected /\ D!Meant' = D!Meant
    BY <1>2 DEF D!deliveryVars, D!world, D!Candidates, D!Enumerated, D!Detected, D!Meant
  <2>2. DeliveryTyped' /\ Decision' /\ Progress' /\ StillForwarded'
    BY <2>1 DEF DeliveryIInv, DeliveryTyped, Decision, Progress, StillForwarded
  <2>3. Outcome'
    BY <2>1 DEF DeliveryIInv, Outcome, D!AddressSuitsTarget, D!RefusedBeforeMinting,
       D!FallsBackIffUnnamed, D!ForwardedBeforeOpening
  <2> QED  BY <2>2, <2>3 DEF DeliveryIInv
<1> QED  BY <1>1, <1>2

LEMMA DeliveryIInvSound == DeliveryIInv => D!DeliverySound
<1> SUFFICES ASSUME DeliveryIInv PROVE D!DeliverySound
  OBVIOUS
<1>1. D!DeliveryTypeOK
  BY DEF DeliveryIInv, DeliveryTyped, D!DeliveryTypeOK
<1> QED  BY <1>1 DEF DeliveryIInv, Outcome, D!DeliverySound

\* Of one part alone: a link fits where it is opened, and is made only when it can be
\* delivered (link.ts, open-target.ts, connect-tool.ts).
THEOREM DeliverySpecSound == D!DeliverySpec => []D!DeliverySound
<1>1. D!DeliverySpec => []DeliveryIInv
  BY DeliveryInitIInv, DeliveryStep, PTL DEF D!DeliverySpec
<1> QED  BY <1>1, DeliveryIInvSound, PTL

\* And as the run has it, next to the other parts.
THEOREM SpecDeliverySound == Spec => []DeliverySound
<1>1. Init => DeliveryIInv
  BY DeliveryInitIInv DEF Init
<1>2. DeliveryIInv /\ [Next]_vars => DeliveryIInv'
  <2> SUFFICES ASSUME DeliveryIInv, [Next]_vars PROVE DeliveryIInv'
    OBVIOUS
  <2>1. [D!DeliveryNext]_D!deliveryVars
    BY DEF Next, vars, deliveryVars, D!deliveryVars, D!world
  <2> QED  BY <2>1, DeliveryStep
<1>3. DeliveryIInv => DeliverySound
  BY DeliveryIInvSound DEF DeliverySound
<1> QED  BY <1>1, <1>2, <1>3, PTL DEF Spec

-------------------------------------------------------------------------------
(***************************************************************************)
(* Where the scheme comes from.                                            *)
(***************************************************************************)

LEMMA LeastOfSome ==
    ASSUME NEW T \in SUBSET Nat, T # {}
    PROVE  S!Min(T) \in T /\ \A x \in T : S!Min(T) <= x
<1> DEFINE Less == {p \in Nat \X Nat : p[1] < p[2]}
<1>1. IsWellFoundedOn(Less, Nat)
  BY NatLessThanWellFounded, Zenon DEF OpToRel
<1>2. PICK m \in T : \A x \in T : ~ (<<x, m>> \in Less)
  <2> HIDE DEF Less
  <2> QED  BY <1>1, WFMin
<1>3. ASSUME NEW x \in T, ~ (m <= x)
      PROVE  FALSE
  <2>1. x \in Nat /\ m \in Nat /\ x < m
    BY <1>3
  <2>2. <<x, m>> \in Less
    BY <2>1
  <2> HIDE DEF Less
  <2> QED  BY <1>2, <2>2
<1> QED  BY <1>2, <1>3 DEF S!Min

\* What FirstOf finds: the first element that is declared.
LEMMA FirstDeclared ==
    ASSUME NEW s, DOMAIN s \subseteq Nat
    PROVE  /\ (\A i \in DOMAIN s : s[i] = None) => S!FirstOf(s) = None
           /\ S!FirstOf(s) # None => \E i \in DOMAIN s : s[i] = S!FirstOf(s)
           /\ \A i \in DOMAIN s :
                s[i] # None /\ (\A j \in DOMAIN s : j < i => s[j] = None) => S!FirstOf(s) = s[i]
<1> DEFINE declared == {i \in DOMAIN s : s[i] # None}
<1>1. declared \in SUBSET Nat
  OBVIOUS
<1>2. declared # {} => S!Min(declared) \in declared /\ \A x \in declared : S!Min(declared) <= x
  <2> HIDE DEF declared
  <2> QED  BY <1>1, LeastOfSome
<1>3. S!FirstOf(s) = IF declared = {} THEN None ELSE s[S!Min(declared)]
  BY DEF S!FirstOf
<1> HIDE DEF declared
<1>4. \A i \in DOMAIN s : i \in declared <=> s[i] # None
  BY DEF declared
<1>5. declared \subseteq DOMAIN s
  BY DEF declared
<1>6. ASSUME NEW i \in DOMAIN s, s[i] # None, \A j \in DOMAIN s : j < i => s[j] = None
      PROVE  S!FirstOf(s) = s[i]
  <2>1. i \in declared /\ S!Min(declared) <= i /\ S!Min(declared) \in declared
    BY <1>2, <1>4, <1>6
  <2>2. ~ (S!Min(declared) < i)
    BY <1>4, <1>5, <1>6, <2>1
  <2>3. S!Min(declared) = i
    <3>1. S!Min(declared) \in Nat /\ i \in Nat
      BY <1>1, <2>1 DEF declared
    <3> QED  BY <2>1, <2>2, <3>1
  <2> QED  BY <1>3, <2>1, <2>3
<1> QED  BY <1>2, <1>3, <1>4, <1>5, <1>6

LEMMA FirstOfTwo ==
    ASSUME NEW a, NEW b
    PROVE  S!FirstOf(<<a, b>>) = IF a # None THEN a ELSE b
<1> DEFINE s == <<a, b>>
<1>1. DOMAIN s = {1, 2} /\ s[1] = a /\ s[2] = b
  OBVIOUS
<1> HIDE DEF s
<1>2. S!FirstOf(s) = IF a # None THEN a ELSE b
  BY <1>1, FirstDeclared
<1> QED  BY <1>2 DEF s

LEMMA FirstOfThree ==
    ASSUME NEW a, NEW b, NEW c
    PROVE  S!FirstOf(<<a, b, c>>) \in {a, b, c}
<1> DEFINE s == <<a, b, c>>
<1>1. DOMAIN s = {1, 2, 3} /\ s[1] = a /\ s[2] = b /\ s[3] = c
  OBVIOUS
<1> HIDE DEF s
<1>2. S!FirstOf(s) \in {a, b, c}
  BY <1>1, FirstDeclared
<1> QED  BY <1>2 DEF s

-------------------------------------------------------------------------------
Blessed ==
    \A d \in S!Dirs : blessed[d] # None =>
        d # "home" /\ configs[d] \in Schemes /\ configs[d] = blessed[d]

SetupIInv == S!SetupTypeOK /\ Blessed /\ S!NeverGuesses

LEMMA TheDirs == S!Dirs = {"project", "repo", "home"}
  BY DEF S!Dirs, S!Range, S!Tree

LEMMA TheUpwards ==
    /\ S!Upwards("project") = <<"project", "repo", "home">>
    /\ S!Upwards("repo") = <<"repo", "home">>
    /\ S!Upwards("home") = <<"home">>
<1>1. S!Above("project") = 0 /\ S!Above("repo") = 1 /\ S!Above("home") = 2
  BY DEF S!Above, S!Tree
<1>2. Len(S!Tree) = 3
  BY DEF S!Tree
<1>3. /\ S!Upwards("project") = SubSeq(S!Tree, 0 + 1, 3)
      /\ S!Upwards("repo") = SubSeq(S!Tree, 1 + 1, 3)
      /\ S!Upwards("home") = SubSeq(S!Tree, 2 + 1, 3)
  BY <1>1, <1>2, Zenon DEF S!Upwards
<1>4. /\ S!Upwards("project") = SubSeq(S!Tree, 1, 3)
      /\ S!Upwards("repo") = SubSeq(S!Tree, 2, 3)
      /\ S!Upwards("home") = SubSeq(S!Tree, 3, 3)
  BY <1>3
<1> QED  BY <1>4 DEF S!Tree

LEMMA TheSources ==
    /\ {"app.json", "yml"} \subseteq S!Sources
    /\ \A i \in DOMAIN S!Gradles : S!Gradles[i] \in S!Sources
    /\ \A i \in DOMAIN S!Filters : S!Filters[i] \in S!Sources
    /\ \A i \in DOMAIN Plists : Plists[i] \in S!Sources
    /\ DOMAIN S!Gradles \subseteq Nat /\ DOMAIN S!Filters \subseteq Nat
<1>1. DOMAIN S!Gradles \subseteq Nat /\ DOMAIN S!Filters \subseteq Nat
  BY DEF S!Gradles, S!Filters
<1> QED  BY <1>1 DEF S!Sources, S!Range

LEMMA ThePlists ==
    DOMAIN Plists \subseteq Nat /\ \A i \in DOMAIN Plists : Depth[Plists[i]] \in Nat
<1>1. DOMAIN Plists = 1 .. 3 /\ \A i \in 1 .. 3 :
        Plists[i] \in {"Pods/Info.plist", "ios/App/Info.plist", "ios/Info.plist"}
  BY DEF Plists
<1>2. \A p \in {"Pods/Info.plist", "ios/App/Info.plist", "ios/Info.plist"} : Depth[p] \in Nat
  BY DEF Depth
<1> QED  BY <1>1, <1>2

\* The walk has a nearest file to choose, whatever it came upon.
LEMMA NearestPlist ==
    ASSUME NEW hits \in SUBSET DOMAIN Plists, hits # {}
    PROVE  (CHOOSE i \in hits : \A j \in hits \ {i} : S!Nearer(i, j)) \in hits
<1> DEFINE Depths == {Depth[Plists[i]] : i \in hits}
           Least == S!Min(Depths)
           Nearest == {i \in hits : Depth[Plists[i]] = Least}
           First == S!Min(Nearest)
<1>1. Depths \in SUBSET Nat /\ Depths # {}
  BY ThePlists
<1>2. Least \in Depths /\ \A x \in Depths : Least <= x
  <2> HIDE DEF Depths
  <2> QED  BY <1>1, LeastOfSome
<1>3. Nearest \in SUBSET Nat /\ Nearest # {}
  <2> HIDE DEF Least
  <2> QED  BY <1>2, ThePlists
<1>4. First \in Nearest /\ \A x \in Nearest : First <= x
  <2> HIDE DEF Nearest
  <2> QED  BY <1>3, LeastOfSome
<1> HIDE DEF Least, First
<1>5. ASSUME NEW j \in hits \ {First}
      PROVE  S!Nearer(First, j)
  <2>1. Depth[Plists[First]] = Least /\ First \in hits
    BY <1>4
  <2>2. Least <= Depth[Plists[j]] /\ Least \in Nat /\ Depth[Plists[j]] \in Nat
    BY <1>1, <1>2
  <2>3. First \in Nat /\ j \in Nat
    BY <2>1, ThePlists
  <2>4. Depth[Plists[j]] = Least => First <= j
    BY <1>4
  <2> QED  BY <2>1, <2>2, <2>3, <2>4 DEF S!Nearer
<1>6. First \in hits
  BY <1>4
<1> QED  BY <1>5, <1>6

\* Discovery finds what the files declare: a scheme that app.json does not name is
\* what all the native files name.
LEMMA DiscoveryIsNoGuess ==
    ASSUME S!SetupTypeOK, NEW cwd \in S!Dirs
    PROVE  /\ S!Discovered(cwd) \in S!Contents
           /\ S!Discovered(cwd) \in Schemes =>
                \/ S!Discovered(cwd) = S!At(cwd, "app.json")
                \/ S!Said(cwd) = {S!Discovered(cwd)}
<1> USE SetUpConstants DEF S!SetupConstants
<1>1. \A s \in S!Sources : S!At(cwd, s) \in S!Contents
  BY DEF S!SetupTypeOK, S!At, S!Contents
<1>2. S!InPlists(cwd) \in S!Contents
  <2> DEFINE hits == {i \in DOMAIN Plists : /\ Plists[i] \notin Vendored
                                           /\ S!Level(cwd, i) <= S!MaxWalkDepth
                                           /\ sources[Plists[i]] # None}
  <2>1. S!InPlists(cwd) = IF hits = {} THEN None
          ELSE sources[Plists[CHOOSE i \in hits : \A j \in hits \ {i} : S!Nearer(i, j)]]
    BY DEF S!InPlists
  <2>2. hits \in SUBSET DOMAIN Plists
    OBVIOUS
  <2> HIDE DEF hits
  <2>3. hits # {} => (CHOOSE i \in hits : \A j \in hits \ {i} : S!Nearer(i, j)) \in DOMAIN Plists
    BY <2>2, NearestPlist
  <2>4. \A i \in DOMAIN Plists : sources[Plists[i]] \in S!Contents
    BY TheSources DEF S!SetupTypeOK
  <2> QED  BY <2>1, <2>3, <2>4 DEF S!Contents
<1>3. S!FirstOf([i \in DOMAIN S!Gradles |-> S!At(cwd, S!Gradles[i])]) \in S!Contents
  <2> DEFINE s == [i \in DOMAIN S!Gradles |-> S!At(cwd, S!Gradles[i])]
  <2>1. DOMAIN s = DOMAIN S!Gradles /\ \A i \in DOMAIN S!Gradles : s[i] \in S!Contents
    BY <1>1, TheSources
  <2> HIDE DEF s
  <2>2. S!FirstOf(s) \in S!Contents
    BY <2>1, TheSources, FirstDeclared DEF S!Contents
  <2> QED  BY <2>2 DEF s
<1>4. S!FirstOf([i \in DOMAIN S!Filters |-> S!At(cwd, S!Filters[i])]) \in S!Contents
  <2> DEFINE s == [i \in DOMAIN S!Filters |-> S!At(cwd, S!Filters[i])]
  <2>1. DOMAIN s = DOMAIN S!Filters /\ \A i \in DOMAIN S!Filters : s[i] \in S!Contents
    BY <1>1, TheSources
  <2> HIDE DEF s
  <2>2. S!FirstOf(s) \in S!Contents
    BY <2>1, TheSources, FirstDeclared DEF S!Contents
  <2> QED  BY <2>2 DEF s
<1>5. /\ S!Said(cwd) \subseteq S!Contents /\ None \notin S!Said(cwd)
      /\ IsFiniteSet(S!Said(cwd))
  <2>1. S!At(cwd, "yml") \in S!Contents
    BY <1>1, TheSources
  <2>2. S!Said(cwd) \subseteq S!Contents /\ None \notin S!Said(cwd)
    BY <1>2, <1>3, <1>4, <2>1 DEF S!Said
  <2>3. \A a, b, c, d : IsFiniteSet({a, b, c, d})
    <3> TAKE a, b, c, d
    <3>1. IsFiniteSet({a} \union {b}) 
      BY FS_Singleton, FS_AddElement
    <3>2. IsFiniteSet(({a} \union {b}) \union {c})
      BY <3>1, FS_AddElement
    <3>3. IsFiniteSet((({a} \union {b}) \union {c}) \union {d})
      BY <3>2, FS_AddElement
    <3>4. {a, b, c, d} = (({a} \union {b}) \union {c}) \union {d}
      OBVIOUS
    <3> QED  BY <3>3, <3>4
  <2>4. \A a, b, c, d : IsFiniteSet({a, b, c, d} \ {None})
    BY <2>3, FS_Subset
  <2>5. IsFiniteSet(S!Said(cwd))
    BY <2>4 DEF S!Said
  <2> QED  BY <2>2, <2>5
<1>6. /\ S!Native(cwd) \in S!Contents
      /\ S!Native(cwd) \in Schemes => S!Said(cwd) = {S!Native(cwd)}
  <2>1. CASE S!Said(cwd) = {}
    BY <2>1 DEF S!Native, S!Contents
  <2>2. CASE S!Said(cwd) # {} /\ ("bad" \in S!Said(cwd) \/ S!Cardinality(S!Said(cwd)) > 1)
    BY <2>2 DEF S!Native, S!Contents
  <2>3. CASE S!Said(cwd) # {} /\ "bad" \notin S!Said(cwd) /\ ~ (S!Cardinality(S!Said(cwd)) > 1)
    <3>1. S!Native(cwd) = CHOOSE c \in S!Said(cwd) : TRUE
      BY <2>3 DEF S!Native
    <3>2. S!Native(cwd) \in S!Said(cwd)
      BY <2>3, <3>1
    <3>3. Cardinality(S!Said(cwd)) \in Nat /\ Cardinality(S!Said(cwd)) # 0
      BY <1>5, <2>3, FS_CardinalityType, FS_EmptySet
    <3>4. Cardinality(S!Said(cwd)) = 1
      BY <2>3, <3>3, SameCardinality
    <3>5. \E x : S!Said(cwd) = {x}
      BY <1>5, <3>4, FS_Singleton
    <3> QED  BY <1>5, <3>2, <3>5
  <2> QED  BY <2>1, <2>2, <2>3
<1>7. S!Discovered(cwd) = IF S!At(cwd, "app.json") # None THEN S!At(cwd, "app.json")
                          ELSE S!Native(cwd)
  BY FirstOfTwo DEF S!Discovered
<1> QED  BY <1>1, <1>6, <1>7, TheSources

\* What init settles on is a scheme that is legal, in a project of its own.
LEMMA ChosenIsLegal ==
    ASSUME S!SetupTypeOK, NEW cwd \in S!Dirs, NEW asked \in Asked, NEW force \in BOOLEAN,
           NEW sd \in S!Dirs, ~S!Refuses(cwd, asked, force, sd)
    PROVE  S!Chosen(cwd, asked, force) \in Schemes /\ cwd # "home"
<1> USE SetUpConstants DEF S!SetupConstants
<1>1. S!Chosen(cwd, asked, force) \in {asked, S!Recorded(cwd), S!Discovered(cwd)}
  BY FirstOfThree DEF S!Chosen
<1>2. /\ S!Chosen(cwd, asked, force) # None /\ asked # "bad" /\ S!Discovered(cwd) # "bad"
      /\ cwd # "home"
  BY DEF S!Refuses, S!Global
<1> QED  BY <1>1, <1>2, DiscoveryIsNoGuess DEF S!Recorded, S!Contents

\* What a link is opened with is an answer to one of the questions, in their order.
LEMMA AnswersAre ==
    ASSUME S!SetupTypeOK, NEW cwd \in S!Dirs, NEW flag \in Asked, NEW env \in Exported,
           NEW sd \in S!Dirs
    PROVE  LET n == Len(S!Upwards(cwd))
               s == S!Answers(cwd, flag, env, sd)
           IN /\ n \in 1 .. 3 /\ DOMAIN s = 1 .. n + 4
              /\ s[1] = flag /\ s[2] = env /\ s[n + 3] = configs[sd] /\ s[n + 4] = S!Discovered(cwd)
              /\ \A i \in 1 .. n : s[i + 2] = IF S!Upwards(cwd)[i] \in S!Global(sd) THEN None
                                              ELSE S!InProject(S!Upwards(cwd)[i])
              /\ \A i \in 1 .. n : S!Upwards(cwd)[i] \in S!Dirs
              /\ S!Upwards(cwd)[1] = cwd
<1> DEFINE way == S!OnTheWay(cwd, sd)
           n == Len(S!Upwards(cwd))
           C == Schemes \union {"bad", None, "garbage", "blocked"}
           back == <<S!InState(sd), S!Discovered(cwd)>>
<1> USE SetUpConstants DEF S!SetupConstants
<1>1. /\ n \in 1 .. 3 /\ DOMAIN S!Upwards(cwd) = 1 .. n /\ S!Upwards(cwd)[1] = cwd
      /\ \A i \in 1 .. n : S!Upwards(cwd)[i] \in S!Dirs
  <2>1. CASE cwd = "project"
    BY <2>1, TheUpwards, TheDirs
  <2>2. CASE cwd = "repo"
    BY <2>2, TheUpwards, TheDirs
  <2>3. CASE cwd = "home"
    BY <2>3, TheUpwards, TheDirs
  <2> QED  BY <2>1, <2>2, <2>3, TheDirs
<1>2. \A d \in S!Dirs : S!InProject(d) \in C
  BY DEF S!InProject, S!SetupTypeOK, S!Configs, S!Contents
<1>3. way = [i \in 1 .. n |-> IF S!Upwards(cwd)[i] \in S!Global(sd) THEN None
                              ELSE S!InProject(S!Upwards(cwd)[i])]
  BY <1>1 DEF S!OnTheWay
<1> HIDE DEF n
<1>4. way \in Seq(C) /\ Len(way) = n /\ n \in Nat
  <2>1. \A i \in 1 .. n : way[i] \in C
    BY <1>1, <1>2, <1>3
  <2>2. way \in [1 .. n -> C] /\ n \in Nat
    BY <1>1, <1>3, <2>1
  <2> HIDE DEF C, way
  <2> QED  BY <2>2, <1>3, SeqDef
<1>5. <<flag, env>> \in Seq(C) /\ back \in Seq(C)
  <2>1. flag \in C /\ env \in C
    OBVIOUS
  <2>2. S!InState(sd) \in C /\ S!Discovered(cwd) \in C
    BY DiscoveryIsNoGuess DEF S!InState, S!SetupTypeOK, S!Configs, S!Contents
  <2> HIDE DEF C
  <2> QED  BY <2>1, <2>2
<1> HIDE DEF C, way, back
<1>6. /\ <<flag, env>> \o way \in Seq(C) /\ Len(<<flag, env>> \o way) = 2 + n
      /\ \A i \in 1 .. 2 + n : (<<flag, env>> \o way)[i] =
           IF i <= 2 THEN <<flag, env>>[i] ELSE way[i - 2]
  <2>1. Len(<<flag, env>>) = 2
    OBVIOUS
  <2> QED  BY <1>4, <1>5, <2>1, ConcatProperties
<1>7. /\ S!Answers(cwd, flag, env, sd) = (<<flag, env>> \o way) \o back
      /\ Len(back) = 2 /\ back[1] = configs[sd] /\ back[2] = S!Discovered(cwd)
  BY DEF S!Answers, way, back, S!InState
<1> DEFINE s == S!Answers(cwd, flag, env, sd)
           front == <<flag, env>> \o way
<1>8. /\ s \in Seq(C) /\ Len(s) = n + 4
      /\ \A i \in 1 .. n + 4 : s[i] = IF i <= 2 + n THEN front[i] ELSE back[i - (2 + n)]
  <2> HIDE DEF front
  <2>1. front \in Seq(C) /\ Len(front) = 2 + n
    BY <1>6 DEF front
  <2>2. s = front \o back
    BY <1>7 DEF front
  <2>3. /\ front \o back \in Seq(C) /\ Len(front \o back) = Len(front) + Len(back)
        /\ \A i \in 1 .. Len(front) + Len(back) :
             (front \o back)[i] = IF i <= Len(front) THEN front[i] ELSE back[i - Len(front)]
    BY <1>5, <2>1, ConcatProperties
  <2>4. Len(front) + Len(back) = n + 4
    BY <1>4, <1>7, <2>1
  <2> HIDE DEF s
  <2> QED  BY <2>1, <2>2, <2>3, <2>4
<1> HIDE DEF s
<1>9. DOMAIN s = 1 .. n + 4
  BY <1>8, LenProperties
<1>10. s[1] = flag /\ s[2] = env /\ s[n + 3] = configs[sd] /\ s[n + 4] = S!Discovered(cwd)
  BY <1>4, <1>6, <1>7, <1>8
<1>11. \A i \in 1 .. n : s[i + 2] = way[i]
  BY <1>4, <1>6, <1>8
<1> QED  BY <1>1, <1>3, <1>9, <1>10, <1>11 DEF s, n

\* A link that nobody chose the scheme of is not a guess.
LEMMA LinkIsNoGuess ==
    ASSUME S!SetupTypeOK, NEW cwd \in S!Dirs, NEW flag \in Asked, NEW env \in Exported,
           NEW sd \in S!Dirs,
           S!FirstOf(<<S!Resolved(cwd, flag, env, sd), "bad">>) \in Schemes
    PROVE  LET scheme == S!FirstOf(<<S!Resolved(cwd, flag, env, sd), "bad">>)
               configured == {configs[d] : d \in {sd} \union (S!Range(S!Upwards(cwd)) \ {"home"})}
           IN \/ scheme \in configured \union {flag, env, S!At(cwd, "app.json")}
              \/ S!Said(cwd) = {scheme}
<1> DEFINE scheme == S!FirstOf(<<S!Resolved(cwd, flag, env, sd), "bad">>)
           n == Len(S!Upwards(cwd))
           s == S!Answers(cwd, flag, env, sd)
<1> USE SetUpConstants DEF S!SetupConstants
<1>1. scheme = S!Resolved(cwd, flag, env, sd) /\ scheme \in Schemes /\ scheme # None
  BY FirstOfTwo
<1>2. S!Resolved(cwd, flag, env, sd) = S!FirstOf(s)
  BY <1>1 DEF S!Resolved
<1>3. /\ n \in 1 .. 3 /\ DOMAIN s = 1 .. n + 4
      /\ s[1] = flag /\ s[2] = env /\ s[n + 3] = configs[sd] /\ s[n + 4] = S!Discovered(cwd)
      /\ \A i \in 1 .. n : s[i + 2] = IF S!Upwards(cwd)[i] \in S!Global(sd) THEN None
                                      ELSE S!InProject(S!Upwards(cwd)[i])
      /\ \A i \in 1 .. n : S!Upwards(cwd)[i] \in S!Dirs
  BY AnswersAre
<1> HIDE DEF s, scheme
<1>4. PICK k \in 1 .. n + 4 : s[k] = scheme
  <2>1. DOMAIN s \subseteq Nat
    BY <1>3
  <2> QED  BY <1>1, <1>2, <1>3, <2>1, FirstDeclared
<1>5. CASE k \in {1, 2}
  BY <1>3, <1>4, <1>5 DEF scheme
<1>6. CASE k \in 3 .. n + 2
  <2>1. k - 2 \in 1 .. n /\ s[(k - 2) + 2] = scheme
    BY <1>3, <1>4, <1>6
  <2>2. /\ S!Upwards(cwd)[k - 2] \notin S!Global(sd)
        /\ scheme = S!InProject(S!Upwards(cwd)[k - 2])
    BY <1>1, <1>3, <2>1
  <2>3. scheme = configs[S!Upwards(cwd)[k - 2]]
    BY <1>1, <2>2 DEF S!InProject
  <2>4. S!Upwards(cwd)[k - 2] \in S!Range(S!Upwards(cwd)) \ {"home"}
    <3>1. DOMAIN S!Upwards(cwd) = 1 .. n
      BY TheUpwards, TheDirs
    <3> QED  BY <2>1, <2>2, <3>1 DEF S!Range, S!Global
  <2> QED  BY <2>3, <2>4 DEF scheme
<1>7. CASE k = n + 3
  BY <1>3, <1>4, <1>7 DEF scheme
<1>8. CASE k = n + 4
  BY <1>1, <1>3, <1>4, <1>8, DiscoveryIsNoGuess DEF scheme
<1> QED  BY <1>3, <1>4, <1>5, <1>6, <1>7, <1>8

\* What was blessed is the first answer to a link that is told nothing else.
LEMMA BlessedIsObeyed ==
    ASSUME SetupIInv, NEW d \in S!Dirs, NEW sd \in S!Dirs, blessed[d] # None, sd # d
    PROVE  S!Resolved(d, None, None, sd) \in {blessed[d], "bad"}
<1> USE SetUpConstants DEF S!SetupConstants
<1> DEFINE s == S!Answers(d, None, None, sd)
<1>1. d # "home" /\ configs[d] \in Schemes /\ configs[d] = blessed[d]
  BY DEF SetupIInv, Blessed
<1>2. None \in Asked /\ None \in Exported
  BY DEF Asked, Exported
<1>3. /\ Len(S!Upwards(d)) \in 1 .. 3 /\ DOMAIN s = 1 .. Len(S!Upwards(d)) + 4
      /\ s[1] = None /\ s[2] = None
      /\ \A i \in 1 .. Len(S!Upwards(d)) :
           s[i + 2] = IF S!Upwards(d)[i] \in S!Global(sd) THEN None ELSE S!InProject(S!Upwards(d)[i])
      /\ S!Upwards(d)[1] = d
  BY <1>2, AnswersAre DEF SetupIInv
<1> HIDE DEF s
<1>4. s[3] = configs[d]
  <2>1. s[1 + 2] = S!InProject(d)
    BY <1>1, <1>3 DEF S!Global
  <2>2. S!InProject(d) = configs[d]
    BY <1>1 DEF S!InProject
  <2> QED  BY <2>1, <2>2
<1>5. S!FirstOf(s) = configs[d]
  <2>1. DOMAIN s \subseteq Nat /\ 3 \in DOMAIN s
    BY <1>3
  <2>2. \A j \in DOMAIN s : j < 3 => s[j] = None
    BY <1>3
  <2>3. configs[d] # None
    BY <1>1
  <2> QED  BY <1>4, <2>1, <2>2, <2>3, FirstDeclared
<1> QED  BY <1>1, <1>5 DEF S!Resolved, s

-------------------------------------------------------------------------------
LEMMA SetupInitIInv == S!SetupInit => SetupIInv
  BY DEF S!SetupInit, SetupIInv, S!SetupTypeOK, Blessed, S!NeverGuesses, S!Configs, S!Contents

LEMMA EditConfigIInv ==
    ASSUME SetupIInv, NEW d \in S!Dirs, NEW c \in S!Configs, S!EditConfig(d, c)
    PROVE  SetupIInv'
<1>1. S!SetupTypeOK'
  BY DEF SetupIInv, S!SetupTypeOK, S!EditConfig
<1>2. Blessed'
  BY DEF SetupIInv, Blessed, S!EditConfig, S!SetupTypeOK
<1>3. S!NeverGuesses'
  BY DEF S!NeverGuesses, S!EditConfig
<1> QED  BY <1>1, <1>2, <1>3 DEF SetupIInv

LEMMA EditSourceIInv ==
    ASSUME SetupIInv, NEW s \in S!Sources, NEW c \in S!Contents, S!EditSource(s, c)
    PROVE  SetupIInv'
<1>1. S!SetupTypeOK'
  BY DEF SetupIInv, S!SetupTypeOK, S!EditSource
<1>2. Blessed'
  BY DEF SetupIInv, Blessed, S!EditSource
<1>3. S!NeverGuesses'
  BY DEF S!NeverGuesses, S!EditSource
<1> QED  BY <1>1, <1>2, <1>3 DEF SetupIInv

LEMMA InitCommandIInv ==
    ASSUME SetupIInv, NEW cwd \in S!Dirs, NEW asked \in Asked, NEW force \in BOOLEAN,
           NEW sd \in S!Dirs, S!InitCommand(cwd, asked, force, sd)
    PROVE  SetupIInv'
<1> USE SetUpConstants DEF S!SetupConstants
<1>1. last'.command = "init" /\ last'.ok = ~S!Refuses(cwd, asked, force, sd)
  BY DEF S!InitCommand
<1>2. last'.ok => S!Chosen(cwd, asked, force) \in Schemes /\ cwd # "home"
  BY <1>1, ChosenIsLegal DEF SetupIInv
<1>3. S!SetupTypeOK' /\ Blessed'
  <2>1. CASE last'.ok
    <3>1. /\ configs' = [configs EXCEPT ![cwd] = S!Chosen(cwd, asked, force)]
          /\ blessed' = [blessed EXCEPT ![cwd] = S!Chosen(cwd, asked, force)]
          /\ sources' = sources
      BY <2>1 DEF S!InitCommand
    <3>2. configs' \in [S!Dirs -> S!Configs] /\ blessed' \in [S!Dirs -> Schemes \union {None}]
      BY <1>2, <2>1, <3>1 DEF SetupIInv, S!SetupTypeOK, S!Configs, S!Contents
    <3>3. Blessed'
      BY <1>2, <2>1, <3>1 DEF SetupIInv, Blessed, S!SetupTypeOK
    <3> QED  BY <1>1, <3>1, <3>2, <3>3 DEF SetupIInv, S!SetupTypeOK
  <2>2. CASE ~last'.ok
    <3>1. UNCHANGED <<configs, blessed, sources>>
      BY <2>2 DEF S!InitCommand
    <3> QED  BY <1>1, <3>1 DEF SetupIInv, S!SetupTypeOK, Blessed
  <2> QED  BY <2>1, <2>2
<1>4. S!NeverGuesses'
  BY <1>1 DEF S!NeverGuesses
<1> QED  BY <1>3, <1>4 DEF SetupIInv

LEMMA LinkCommandIInv ==
    ASSUME SetupIInv, NEW cwd \in S!Dirs, NEW flag \in Asked, NEW env \in Exported,
           NEW sd \in S!Dirs, S!LinkCommand(cwd, flag, env, sd)
    PROVE  SetupIInv'
<1> USE SetUpConstants DEF S!SetupConstants
<1> DEFINE scheme == S!FirstOf(<<S!Resolved(cwd, flag, env, sd), "bad">>)
<1>1. /\ last'.command = "link" /\ last'.scheme = scheme /\ last'.root = cwd /\ last'.asked = flag
      /\ last'.env = env /\ last'.under = sd /\ UNCHANGED <<configs, sources, blessed>>
  BY DEF S!LinkCommand
<1>2. S!FirstOf(<<S!Resolved(cwd, flag, env, sd), "bad">>) \in Schemes \union {"bad"}
  <2> DEFINE s == S!Answers(cwd, flag, env, sd)
             n == Len(S!Upwards(cwd))
  <2>1. /\ n \in 1 .. 3 /\ DOMAIN s = 1 .. n + 4
        /\ s[1] = flag /\ s[2] = env /\ s[n + 3] = configs[sd] /\ s[n + 4] = S!Discovered(cwd)
        /\ \A i \in 1 .. n : s[i + 2] = IF S!Upwards(cwd)[i] \in S!Global(sd) THEN None
                                        ELSE S!InProject(S!Upwards(cwd)[i])
        /\ \A i \in 1 .. n : S!Upwards(cwd)[i] \in S!Dirs
    BY AnswersAre DEF SetupIInv
  <2>2. S!Resolved(cwd, flag, env, sd) = IF S!LoadFails(sd) THEN "bad" ELSE S!FirstOf(s)
    BY DEF S!Resolved
  <2> HIDE DEF s
  <2>3. ~S!LoadFails(sd) => configs[sd] \in S!Contents
    BY DEF S!LoadFails, S!InState, SetupIInv, S!SetupTypeOK, S!Configs
  <2>4. \A d \in S!Dirs : S!InProject(d) \in S!Contents
    BY DEF S!InProject, SetupIInv, S!SetupTypeOK, S!Configs, S!Contents
  <2>5. ASSUME ~S!LoadFails(sd), NEW k \in DOMAIN s
        PROVE  s[k] \in S!Contents
    <3>1. CASE k \in {1, 2}
      BY <2>1, <3>1 DEF S!Contents
    <3>2. CASE k \in 3 .. n + 2
      <4>1. k - 2 \in 1 .. n /\ s[(k - 2) + 2] = s[k]
        BY <2>1, <3>2
      <4> QED  BY <2>1, <2>4, <4>1 DEF S!Contents
    <3>3. CASE k \in {n + 3, n + 4}
      BY <2>1, <2>3, <2>5, <3>3, DiscoveryIsNoGuess DEF SetupIInv
    <3> QED  BY <2>1, <3>1, <3>2, <3>3
  <2>6. S!Resolved(cwd, flag, env, sd) \in S!Contents
    <3>1. DOMAIN s \subseteq Nat
      BY <2>1
    <3> QED  BY <2>2, <2>5, <3>1, FirstDeclared DEF S!Contents
  <2> QED  BY <2>6, FirstOfTwo DEF S!Contents
<1>3. S!SetupTypeOK' /\ Blessed'
  BY <1>1, <1>2 DEF SetupIInv, S!SetupTypeOK, Blessed
<1>4. S!NeverGuesses'
  <2> SUFFICES ASSUME scheme \in Schemes PROVE S!NeverGuesses'
    BY <1>1 DEF S!NeverGuesses
  <2>1. LET configured == {configs[d] : d \in {sd} \union (S!Range(S!Upwards(cwd)) \ {"home"})}
        IN \/ scheme \in configured \union {flag, env, S!At(cwd, "app.json")}
           \/ S!Said(cwd) = {scheme}
    BY LinkIsNoGuess DEF SetupIInv
  <2>2. /\ S!At(cwd, "app.json")' = S!At(cwd, "app.json") /\ S!Said(cwd)' = S!Said(cwd)
        /\ S!Upwards(cwd)' = S!Upwards(cwd)
    BY <1>1 DEF S!At, S!Said, S!FirstOf, S!InPlists, S!Level, S!Nearer, S!Upwards, S!Above
  <2> HIDE DEF scheme
  <2> QED  BY <1>1, <2>1, <2>2 DEF S!NeverGuesses
<1> QED  BY <1>3, <1>4 DEF SetupIInv

LEMMA SetupStep == SetupIInv /\ [S!SetupNext]_S!setupVars => SetupIInv'
<1> SUFFICES ASSUME SetupIInv, [S!SetupNext]_S!setupVars PROVE SetupIInv'
  OBVIOUS
<1>1. CASE UNCHANGED S!setupVars
  <2>1. \A cwd : S!Said(cwd)' = S!Said(cwd) /\ S!Upwards(cwd)' = S!Upwards(cwd)
    BY <1>1 DEF S!setupVars, S!At, S!Said, S!FirstOf, S!InPlists, S!Level, S!Nearer, S!Upwards,
                S!Above
  <2> QED  BY <1>1, <2>1 DEF S!setupVars, SetupIInv, S!SetupTypeOK, Blessed, S!NeverGuesses, S!At
<1> QED  BY <1>1, EditConfigIInv, EditSourceIInv, InitCommandIInv, LinkCommandIInv DEF S!SetupNext

LEMMA SetupIInvSound == SetupIInv => S!SetupSound
  BY BlessedIsObeyed DEF SetupIInv, S!SetupSound, S!InitIsObeyed

\* A step that replaces a usable scheme, other than an edit, is an init of that project
\* that was forced: one that is not keeps what is recorded, and refuses another.
LEMMA RecordedStep ==
    ASSUME S!SetupTypeOK, [S!SetupNext]_S!setupVars
    PROVE  \A d \in S!Dirs :
             last' # None /\ configs[d] \in Schemes /\ configs'[d] # configs[d]
               => last'.root = d /\ last'.forced
<1> USE SetUpConstants DEF S!SetupConstants
<1> SUFFICES ASSUME NEW d \in S!Dirs,
                    last' # None, configs[d] \in Schemes, configs'[d] # configs[d]
             PROVE  last'.root = d /\ last'.forced
  OBVIOUS
<1>1. PICK cwd \in S!Dirs, asked \in Asked, force \in BOOLEAN, sd \in S!Dirs :
        S!InitCommand(cwd, asked, force, sd)
  BY DEF S!SetupNext, S!setupVars, S!EditConfig, S!EditSource, S!LinkCommand
<1>2. /\ last'.root = cwd /\ last'.forced = force
      /\ last'.ok = ~S!Refuses(cwd, asked, force, sd) /\ last'.ok
      /\ configs' = [configs EXCEPT ![cwd] = S!Chosen(cwd, asked, force)]
  BY <1>1 DEF S!InitCommand
<1>3. cwd = d /\ S!Chosen(cwd, asked, force) # configs[d]
  BY <1>2 DEF S!SetupTypeOK
<1>4. ASSUME ~force
      PROVE  FALSE
  <2>1. S!Recorded(cwd) = configs[d] /\ configs[d] # None
    BY <1>3 DEF S!Recorded
  <2>2. asked \in {None, configs[d]}
    BY <1>2, <1>3, <1>4, <2>1 DEF S!Refuses
  <2> DEFINE s == <<asked, S!Recorded(cwd), S!Discovered(cwd)>>
  <2>3. DOMAIN s = {1, 2, 3} /\ s[1] = asked /\ s[2] = configs[d]
    BY <2>1
  <2>4. S!Chosen(cwd, asked, force) = S!FirstOf(s)
    BY <1>4 DEF S!Chosen
  <2> HIDE DEF s
  <2>5. S!FirstOf(s) = configs[d]
    BY <2>1, <2>2, <2>3, FirstDeclared
  <2> QED  BY <1>3, <2>4, <2>5
<1> QED  BY <1>2, <1>3, <1>4

\* Of one part alone: what init reported is what links use, and no link is opened with a
\* guess (init.ts, link.ts, scheme.ts, native-scheme.ts).
THEOREM SetupSpecSound == S!SetupSpec => []S!SetupSound
<1>1. S!SetupSpec => []SetupIInv
  BY SetupInitIInv, SetupStep, PTL DEF S!SetupSpec
<1> QED  BY <1>1, SetupIInvSound, PTL

LEMMA SchemeSceneInv == Spec => []SetupIInv
<1>1. Init => SetupIInv
  BY SetupInitIInv DEF Init
<1>2. SetupIInv /\ [Next]_vars => SetupIInv'
  <2> SUFFICES ASSUME SetupIInv, [Next]_vars PROVE SetupIInv'
    OBVIOUS
  <2>1. [S!SetupNext]_S!setupVars
    BY DEF Next, vars, setupVars, S!setupVars
  <2> QED  BY <2>1, SetupStep
<1> QED  BY <1>1, <1>2, PTL DEF Spec

\* And as the run has it, next to the other parts.
THEOREM SpecSetupSound == Spec => []SetupSound
<1>1. SetupIInv => SetupSound
  BY SetupIInvSound DEF SetupSound
<1> QED  BY <1>1, SchemeSceneInv, PTL

\* A usable scheme that is recorded is replaced by an init that is forced, and by no other
\* command (init.ts).
THEOREM SpecRecordedStands == Spec => RecordedStands
<1>1. ASSUME SetupIInv, [Next]_vars
      PROVE  [\A d \in S!Dirs :
                last' # None /\ configs[d] \in Schemes /\ configs'[d] # configs[d]
                  => last'.root = d /\ last'.forced]_S!setupVars
  <2>1. [S!SetupNext]_S!setupVars
    BY <1>1 DEF Next, vars, setupVars, S!setupVars
  <2> QED  BY <1>1, <2>1, RecordedStep DEF SetupIInv
<1> QED  BY <1>1, SchemeSceneInv, PTL DEF Spec, RecordedStands, S!RecordedStands

-------------------------------------------------------------------------------
(***************************************************************************)
(* The audit log.                                                          *)
(***************************************************************************)
Queued == [kind : {"record"}, record : Records, day : U!Days] \union [kind : {"prune"}]

AuditTyped ==
    /\ today \in U!Days
    /\ made \in [Records -> U!Days \union {None}]
    /\ queue \in Seq(Queued)
    /\ job \in U!Writings \union U!Prunings \union {None}
    /\ files \in [U!Days -> Seq(Records) \union {None}]
    /\ failedWrites \in Nat /\ failedPrunes \in Nat
    /\ aged \subseteq Records
    /\ status \in U!Statuses \union {None}

\* A record waits or is being written once, and nowhere else, under the day it was made.
QueueFiled ==
    /\ \A i \in DOMAIN queue : queue[i].kind = "record" =>
           made[queue[i].record] = queue[i].day /\ queue[i].record \notin U!OnDisk
    /\ \A i, j \in DOMAIN queue :
           queue[i].kind = "record" /\ queue[j].kind = "record" /\ queue[i].record = queue[j].record
             => i = j

JobFiled ==
    job \in U!Writings =>
      /\ made[job.record] = job.day
      /\ job.record \notin U!Waiting
      /\ job.stage # "open" => files[job.day] # None
      /\ IF job.stage = "chmod" THEN job.record \in U!OnDisk ELSE job.record \notin U!OnDisk

\* A pruning deletes what is there, and nobody else deletes.
LeftOnDisk == job \in U!Prunings => \A d \in job.left : files[d] # None

Filed == QueueFiled /\ JobFiled /\ LeftOnDisk /\ U!FiledByDay

Missing ==
    {r \in Records : made[r] # None}
      \ (U!Waiting \union (IF job # None /\ job.kind = "record" THEN {job.record} ELSE {})
           \union U!OnDisk \union aged)

Accounted == IsFiniteSet(Missing) /\ Cardinality(Missing) <= failedWrites

\* What is about to be deleted was too old when the pruning began.
OldOnly ==
    job \in U!Prunings => job.on <= today /\ \A d \in job.left : d < job.on - RetentionDays

\* What a status has yet to count is left to measure, has gone or was refused.
Counted ==
    status # None /\ status.readable =>
      status.stayed \ status.refused \subseteq status.counted \union status.left

AuditIInv == AuditTyped /\ Filed /\ Accounted /\ OldOnly /\ Counted

-------------------------------------------------------------------------------
LEMMA SomewhereOnDisk ==
    \A r : r \in U!OnDisk <=>
             \E d \in U!Days : files[d] # None /\ \E i \in DOMAIN files[d] : files[d][i] = r
  BY DEF U!OnDisk, U!Range

LEMMA AuditInitIInv == U!AuditInit => AuditIInv
<1> SUFFICES ASSUME U!AuditInit PROVE AuditIInv
  OBVIOUS
<1> USE SetUpConstants DEF U!AuditInit, U!AuditConstants
<1>1. AuditTyped
  <2>1. <<[kind |-> "prune"]>> \in Seq(Queued)
    <3>1. [kind |-> "prune"] \in Queued
      BY DEF Queued
    <3> QED  BY <3>1
  <2>2. files \in [U!Days -> Seq(Records) \union {None}]
    <3>1. <<>> \in Seq(Records)
      OBVIOUS
    <3> QED  BY <3>1
  <2> QED  BY <2>1, <2>2 DEF AuditTyped, U!Days
<1>2. U!OnDisk = {}
  BY DEF U!OnDisk, U!Range
<1>3. U!Waiting = {}
  BY DEF U!Waiting
<1>4. Filed
  BY <1>2 DEF Filed, QueueFiled, JobFiled, LeftOnDisk, U!FiledByDay, U!DayFiles, U!IsInjective, U!Writings, U!Prunings
<1>5. Missing = {}
  BY DEF Missing
<1>6. Accounted
  BY <1>5, FS_EmptySet DEF Accounted
<1>7. OldOnly /\ Counted
  BY DEF OldOnly, Counted, U!Prunings
<1> QED  BY <1>1, <1>4, <1>6, <1>7 DEF AuditIInv

LEMMA QueueTail ==
    ASSUME AuditTyped, queue # <<>>
    PROVE  /\ Head(queue) \in Queued /\ Head(queue) = queue[1] /\ 1 \in DOMAIN queue
           /\ Tail(queue) \in Seq(Queued)
           /\ \A i \in DOMAIN Tail(queue) : i + 1 \in DOMAIN queue /\ Tail(queue)[i] = queue[i + 1]
           /\ \A i \in DOMAIN queue : i = 1 \/ i - 1 \in DOMAIN Tail(queue)
           /\ DOMAIN queue \subseteq Nat
<1>1. queue \in Seq(Queued)
  BY DEF AuditTyped
<1>2. Len(queue) \in Nat \ {0} /\ DOMAIN queue = 1 .. Len(queue)
  BY <1>1, EmptySeq, LenProperties
<1>3. DOMAIN Tail(queue) = 1 .. Len(queue) - 1
  BY <1>1, <1>2, HeadTailProperties, LenProperties
<1>4. Head(queue) = queue[1]
  BY <1>1
<1> QED  BY <1>1, <1>2, <1>3, <1>4, HeadTailProperties

LEMMA QueueAppended ==
    ASSUME AuditTyped, NEW j \in Queued
    PROVE  /\ Append(queue, j) \in Seq(Queued)
           /\ DOMAIN Append(queue, j) = DOMAIN queue \union {Len(queue) + 1}
           /\ Len(queue) + 1 \notin DOMAIN queue
           /\ \A i \in DOMAIN queue : Append(queue, j)[i] = queue[i]
           /\ Append(queue, j)[Len(queue) + 1] = j
<1>1. queue \in Seq(Queued)
  BY DEF AuditTyped
<1>2. Len(queue) \in Nat /\ DOMAIN queue = 1 .. Len(queue)
  BY <1>1, LenProperties
<1>3. DOMAIN Append(queue, j) = 1 .. Len(queue) + 1
  BY <1>1, AppendProperties, LenProperties
<1> QED  BY <1>1, <1>2, <1>3, AppendProperties

LEMMA AuditTypedNext ==
    ASSUME AuditTyped, Filed, U!AuditNext
    PROVE  AuditTyped'
<1> USE SetUpConstants DEF U!AuditConstants
<1>1. CASE U!Midnight
  BY <1>1 DEF AuditTyped, U!Midnight, U!Days
<1>2. CASE U!PruneIsDue
  <2>1. [kind |-> "prune"] \in Queued
    BY DEF Queued
  <2> QED  BY <1>2, <2>1, QueueAppended DEF AuditTyped, U!PruneIsDue
<1>3. CASE U!Begin
  <2>1. Head(queue) \in Queued /\ Tail(queue) \in Seq(Queued)
    BY <1>3, QueueTail DEF U!Begin
  <2>2. job' \in U!Writings \union U!Prunings
    <3>1. CASE Head(queue).kind = "record"
      BY <1>3, <2>1, <3>1 DEF U!Begin, U!Target, Queued, U!Writings
    <3>2. CASE Head(queue).kind # "record"
      BY <1>3, <3>2 DEF U!Begin, U!Prunings, AuditTyped
    <3> QED  BY <3>1, <3>2
  <2> QED  BY <1>3, <2>1, <2>2 DEF AuditTyped, U!Begin
<1>4. CASE U!Open
  <2>1. job \in U!Writings
    BY <1>4 DEF U!Open, U!Writing, AuditTyped, U!Prunings
  <2>2. files' \in [U!Days -> Seq(Records) \union {None}]
    BY <1>4, <2>1 DEF U!Open, AuditTyped, U!Writings
  <2>3. job' \in U!Writings
    BY <1>4, <2>1 DEF U!Open, U!Writings
  <2> QED  BY <1>4, <2>2, <2>3 DEF AuditTyped, U!Open
<1>5. CASE U!AppendLine
  <2>1. job \in U!Writings
    BY <1>5 DEF U!AppendLine, U!Writing, AuditTyped, U!Prunings
  <2>2. files[job.day] \in Seq(Records) /\ job.record \in Records
    BY <1>5, <2>1 DEF Filed, JobFiled, AuditTyped, U!Writings, U!AppendLine, U!Writing
  <2>3. files' \in [U!Days -> Seq(Records) \union {None}]
    BY <1>5, <2>1, <2>2, AppendProperties DEF U!AppendLine, AuditTyped
  <2>4. job' \in U!Writings
    BY <1>5, <2>1 DEF U!AppendLine, U!Writings
  <2> QED  BY <1>5, <2>3, <2>4 DEF AuditTyped, U!AppendLine
<1>6. CASE U!Written \/ U!WriteFails \/ U!ListFails \/ U!Pruned
  BY <1>6 DEF AuditTyped, U!Written, U!WriteFails, U!ListFails, U!Pruned
<1>7. CASE U!List
  <2>1. job \in U!Prunings
    BY <1>7 DEF U!List, U!Pruning, AuditTyped, U!Writings
  <2>2. job' \in U!Prunings
    BY <1>7, <2>1 DEF U!List, U!Prunings, U!DayFiles
  <2> QED  BY <1>7, <2>2 DEF AuditTyped, U!List
<1>8. ASSUME NEW d \in U!Days, U!Delete(d)
      PROVE  AuditTyped'
  <2>1. job \in U!Prunings
    BY <1>8 DEF U!Delete, U!Pruning, AuditTyped, U!Writings
  <2>2. job' \in U!Prunings
    BY <1>8, <2>1 DEF U!Delete, U!Prunings
  <2>3. files[d] \in Seq(Records)
    BY <1>8, <2>1 DEF Filed, LeftOnDisk, AuditTyped, U!Delete
  <2>4. aged' \subseteq Records
    BY <1>8, <2>3 DEF U!Delete, U!Range, AuditTyped
  <2>5. files' \in [U!Days -> Seq(Records) \union {None}]
    BY <1>8 DEF U!Delete, AuditTyped
  <2> QED  BY <1>8, <2>2, <2>4, <2>5 DEF AuditTyped, U!Delete
<1>9. CASE U!AskStatus \/ U!AskUnreadable \/ U!Report
  <2>1. U!DayFiles \in SUBSET U!Days
    BY DEF U!DayFiles
  <2>2. status' \in U!Statuses \union {None}
    <3>1. CASE U!AskStatus
      BY <2>1, <3>1 DEF U!AskStatus, U!Statuses
    <3>2. CASE U!AskUnreadable
      BY <2>1, <3>2 DEF U!AskUnreadable, U!Statuses
    <3> QED  BY <1>9, <3>1, <3>2 DEF U!Report
  <2> QED  BY <1>9, <2>2 DEF AuditTyped, U!AskStatus, U!AskUnreadable, U!Report
<1>10. ASSUME NEW d \in U!Days, U!Measure(d) \/ U!MeasureFails(d)
       PROVE  AuditTyped'
  <2>1. CASE U!Measure(d)
    BY <2>1 DEF AuditTyped, U!Measure, U!Count, U!Statuses, U!DayFiles
  <2>2. CASE U!MeasureFails(d)
    BY <2>2 DEF AuditTyped, U!MeasureFails, U!Statuses, U!DayFiles
  <2> QED  BY <1>10, <2>1, <2>2
<1>11. ASSUME NEW r \in Records, U!Record(r)
       PROVE  AuditTyped'
  <2>1. [kind |-> "record", record |-> r, day |-> today] \in Queued
    BY DEF AuditTyped, Queued
  <2> QED  BY <1>11, <2>1, QueueAppended DEF AuditTyped, U!Record
<1> QED  BY <1>1, <1>2, <1>3, <1>4, <1>5, <1>6, <1>7, <1>8, <1>9, <1>10, <1>11 DEF U!AuditNext

LEMMA FiledNext ==
    ASSUME AuditTyped, Filed, U!AuditNext
    PROVE  Filed'
<1> USE SetUpConstants DEF U!AuditConstants
<1>1. CASE UNCHANGED <<made, queue, job, files>>
  BY <1>1 DEF Filed, QueueFiled, JobFiled, LeftOnDisk, U!FiledByDay, U!DayFiles, U!Waiting,
              U!OnDisk, U!Range
<1>2. CASE U!PruneIsDue
  <2>1. [kind |-> "prune"] \in Queued
    BY DEF Queued
  <2>2. U!Waiting' = U!Waiting
    BY <1>2, <2>1, QueueAppended DEF U!PruneIsDue, U!Waiting
  <2>3. QueueFiled'
    BY <1>2, <2>1, QueueAppended DEF Filed, QueueFiled, U!PruneIsDue, U!OnDisk, U!Range
  <2> QED  BY <1>2, <2>2, <2>3 DEF Filed, JobFiled, LeftOnDisk, U!FiledByDay, U!DayFiles,
                                   U!OnDisk, U!Range, U!PruneIsDue
<1>3. ASSUME NEW r \in Records, U!Record(r)
      PROVE  Filed'
  <2> DEFINE j == [kind |-> "record", record |-> r, day |-> today]
  <2>1. j \in Queued /\ made[r] = None /\ today # None
    BY <1>3 DEF Queued, AuditTyped, U!Record
  <2>2. \A i \in DOMAIN queue : queue[i].kind = "record" =>
          queue[i].record # r /\ queue[i].record \in Records
    <3>1. \A i \in DOMAIN queue : queue[i] \in Queued
      BY DEF AuditTyped
    <3>2. \A i \in DOMAIN queue : queue[i].kind = "record" =>
            queue[i].record \in Records /\ queue[i].day # None
      BY <3>1 DEF Queued
    <3> QED  BY <2>1, <3>2 DEF Filed, QueueFiled
  <2>3. r \notin U!OnDisk
    BY <2>1, SomewhereOnDisk DEF Filed, U!FiledByDay, U!DayFiles
  <2>4. ASSUME job \in U!Writings
        PROVE  job.record # r /\ made'[job.record] = made[job.record]
    <3>1. job.record \in Records /\ job.day # None
      BY <2>4 DEF U!Writings
    <3> QED  BY <1>3, <2>1, <2>4, <3>1 DEF Filed, JobFiled, AuditTyped, U!Record
  <2>5. U!OnDisk' = U!OnDisk
    BY <1>3 DEF U!Record, U!OnDisk, U!Range
  <2>6. U!Waiting' = U!Waiting \union {r}
    BY <1>3, <2>1, QueueAppended DEF U!Record, U!Waiting
  <2>7. QueueFiled'
    <3>1. /\ queue' = Append(queue, j) /\ made'[r] = today /\ made' = [made EXCEPT ![r] = today]
          /\ \A x \in Records : x # r => made'[x] = made[x]
      BY <1>3 DEF U!Record, AuditTyped
    <3>2. /\ DOMAIN queue' = DOMAIN queue \union {Len(queue) + 1}
          /\ \A i \in DOMAIN queue : queue'[i] = queue[i]
          /\ queue'[Len(queue) + 1] = j
      BY <2>1, <3>1, QueueAppended
    <3>3. \A i \in DOMAIN queue' : queue'[i].kind = "record" =>
            made'[queue'[i].record] = queue'[i].day /\ queue'[i].record \notin U!OnDisk'
      BY <2>2, <2>3, <2>5, <3>1, <3>2 DEF Filed, QueueFiled
    <3>4. \A i, k \in DOMAIN queue' :
            queue'[i].kind = "record" /\ queue'[k].kind = "record"
              /\ queue'[i].record = queue'[k].record => i = k
      BY <2>2, <3>2 DEF Filed, QueueFiled
    <3> QED  BY <3>3, <3>4 DEF QueueFiled
  <2>8. U!FiledByDay'
    <3>1. \A d \in U!DayFiles : \A i \in DOMAIN files[d] : files[d][i] # r
      BY <2>3, SomewhereOnDisk DEF U!DayFiles
    <3> QED  BY <1>3, <3>1 DEF Filed, U!FiledByDay, U!DayFiles, U!Record, AuditTyped
  <2> QED  BY <1>3, <2>4, <2>5, <2>6, <2>7, <2>8 DEF Filed, JobFiled, LeftOnDisk, U!Record
<1>4. CASE U!Begin
  <2>1. queue # <<>> /\ queue' = Tail(queue) /\ UNCHANGED <<made, files>>
    BY <1>4 DEF U!Begin
  <2>2. U!OnDisk' = U!OnDisk /\ U!FiledByDay'
    BY <2>1 DEF U!OnDisk, U!Range, Filed, U!FiledByDay, U!DayFiles
  <2>3. QueueFiled'
    BY <2>1, <2>2, QueueTail DEF Filed, QueueFiled
  <2>4. LeftOnDisk'
    BY <1>4 DEF LeftOnDisk, U!Begin, U!Prunings
  <2>5. JobFiled'
    <3> SUFFICES ASSUME job' \in U!Writings PROVE JobFiled'
      BY DEF JobFiled
    <3>1. /\ queue[1].kind = "record" /\ job'.record = queue[1].record
          /\ job'.day = queue[1].day /\ job'.stage = "open"
      BY <1>4, <2>1, QueueTail DEF U!Begin, U!Target, U!Writings
    <3>2. job'.record \notin U!Waiting'
      BY <2>1, <3>1, QueueTail DEF U!Waiting, Filed, QueueFiled
    <3> QED  BY <2>1, <2>2, <3>1, <3>2, QueueTail DEF JobFiled, Filed, QueueFiled
  <2> QED  BY <2>2, <2>3, <2>4, <2>5 DEF Filed
<1>5. CASE U!Open
  <2>1. job \in U!Writings /\ job.stage = "open"
    BY <1>5 DEF U!Open, U!Writing, AuditTyped, U!Prunings
  <2>2. /\ files' = [files EXCEPT ![job.day] = IF @ = None THEN <<>> ELSE @]
        /\ job' = [job EXCEPT !.stage = "append"] /\ UNCHANGED <<made, queue>>
    BY <1>5 DEF U!Open
  <2>3. \A d \in U!Days : files[d] # None => files'[d] = files[d]
    BY <2>2 DEF AuditTyped
  <2>4. \A d \in U!Days : files[d] = None /\ files'[d] # None => files'[d] = <<>>
    BY <2>2 DEF AuditTyped
  <2>5. U!OnDisk' = U!OnDisk
    <3>1. \A r : r \in U!OnDisk' => r \in U!OnDisk
      BY <2>3, <2>4 DEF U!OnDisk, U!Range
    <3>2. \A r : r \in U!OnDisk => r \in U!OnDisk'
      BY <2>3 DEF U!OnDisk, U!Range
    <3> QED  BY <3>1, <3>2
  <2>6. U!FiledByDay'
    BY <2>2, <2>3, <2>4 DEF Filed, U!FiledByDay, U!DayFiles, U!IsInjective
  <2>7. JobFiled'
    <3>1. files'[job.day] # None /\ job'.day = job.day /\ job'.record = job.record
          /\ job'.stage = "append"
      <4>1. <<>> # None
        <5>1. <<>> \in Seq(Records)
          OBVIOUS
        <5> QED  BY <5>1
      <4>2. files'[job.day] # None
        BY <2>1, <2>2, <4>1 DEF U!Writings, AuditTyped
      <4> QED  BY <2>1, <2>2, <4>2 DEF U!Writings
    <3>2. U!Waiting' = U!Waiting
      BY <2>2 DEF U!Waiting
    <3> QED  BY <2>1, <2>2, <2>5, <3>1, <3>2 DEF Filed, JobFiled
  <2>8. QueueFiled' /\ LeftOnDisk'
    BY <2>1, <2>2, <2>5 DEF Filed, QueueFiled, LeftOnDisk, U!Writings, U!Prunings
  <2> QED  BY <2>6, <2>7, <2>8 DEF Filed
<1>6. CASE U!AppendLine
  <2>1. job \in U!Writings /\ job.stage = "append"
    BY <1>6 DEF U!AppendLine, U!Writing, AuditTyped, U!Prunings
  <2>2. /\ files' = [files EXCEPT ![job.day] = Append(@, job.record)]
        /\ job' = [job EXCEPT !.stage = "chmod"] /\ UNCHANGED <<made, queue>>
    BY <1>6 DEF U!AppendLine
  <2>3. /\ job.day \in U!Days /\ job.record \in Records
        /\ files[job.day] \in Seq(Records) /\ files[job.day] # None
        /\ made[job.record] = job.day /\ job.record \notin U!Waiting /\ job.record \notin U!OnDisk
    BY <2>1 DEF Filed, JobFiled, AuditTyped, U!Writings
  <2> DEFINE old == files[job.day]
             new == files'[job.day]
  <2>4. /\ new \in Seq(Records) /\ DOMAIN new = DOMAIN old \union {Len(old) + 1}
        /\ Len(old) + 1 \notin DOMAIN old /\ new[Len(old) + 1] = job.record
        /\ \A i \in DOMAIN old : new[i] = old[i]
    <3>1. new = Append(old, job.record)
      BY <2>2, <2>3 DEF AuditTyped
    <3>2. Len(old) \in Nat /\ DOMAIN old = 1 .. Len(old)
      BY <2>3, LenProperties
    <3>3. DOMAIN new = 1 .. Len(old) + 1
      BY <2>3, <3>1, <3>2, AppendProperties, LenProperties
    <3> QED  BY <2>3, <3>1, <3>2, <3>3, AppendProperties
  <2>5. new # None
    BY <2>4
  <2>6. \A d \in U!Days : d # job.day => files'[d] = files[d]
    BY <2>2 DEF AuditTyped
  <2> HIDE DEF old, new
  <2>7. U!OnDisk' = U!OnDisk \union {job.record}
    <3>1. \A r : r \in U!OnDisk' <=>
            \E d \in U!Days : files'[d] # None /\ \E i \in DOMAIN files'[d] : files'[d][i] = r
      BY DEF U!OnDisk, U!Range
    <3>2. ASSUME NEW r, r \in U!OnDisk'
          PROVE  r \in U!OnDisk \union {job.record}
      BY <2>3, <2>4, <2>6, <3>1, <3>2, SomewhereOnDisk DEF old, new
    <3>3. ASSUME NEW r, r \in U!OnDisk
          PROVE  r \in U!OnDisk'
      BY <2>3, <2>4, <2>5, <2>6, <3>1, <3>3, SomewhereOnDisk DEF old, new
    <3>4. job.record \in U!OnDisk'
      BY <2>3, <2>4, <2>5, <3>1 DEF new
    <3> QED  BY <3>2, <3>3, <3>4
  <2>8. U!FiledByDay'
    <3>1. ASSUME NEW d \in U!Days, files'[d] # None
          PROVE  U!IsInjective(files'[d]) /\ \A i \in DOMAIN files'[d] : made[files'[d][i]] = d
      <4>1. CASE d # job.day
        BY <2>6, <3>1, <4>1 DEF Filed, U!FiledByDay, U!DayFiles
      <4>2. CASE d = job.day
        <5>1. \A i \in DOMAIN old : old[i] # job.record /\ made[old[i]] = job.day
          BY <2>3, SomewhereOnDisk DEF old, Filed, U!FiledByDay, U!DayFiles
        <5>2. U!IsInjective(old)
          BY <2>3 DEF old, Filed, U!FiledByDay, U!DayFiles
        <5>3. U!IsInjective(new)
          BY <2>4, <5>1, <5>2 DEF U!IsInjective
        <5> QED  BY <2>3, <2>4, <4>2, <5>1, <5>3 DEF new
      <4> QED  BY <4>1, <4>2
    <3> QED  BY <2>2, <3>1 DEF U!FiledByDay, U!DayFiles
  <2>9. JobFiled'
    BY <2>1, <2>2, <2>3, <2>5, <2>7 DEF new, JobFiled, U!Waiting, U!Writings
  <2>10. QueueFiled' /\ LeftOnDisk'
    BY <2>1, <2>2, <2>3, <2>7 DEF Filed, QueueFiled, LeftOnDisk, U!Waiting, U!Writings, U!Prunings
  <2> QED  BY <2>8, <2>9, <2>10 DEF Filed
<1>7. CASE U!Written \/ U!WriteFails \/ U!ListFails \/ U!Pruned
  <2>1. job' = None /\ UNCHANGED <<made, queue, files>>
    BY <1>7 DEF U!Written, U!WriteFails, U!ListFails, U!Pruned
  <2> QED  BY <2>1 DEF Filed, QueueFiled, JobFiled, LeftOnDisk, U!FiledByDay, U!DayFiles, U!OnDisk,
                       U!Range
<1>8. CASE U!List
  <2>1. job \in U!Prunings /\ UNCHANGED <<made, queue, files>>
        /\ job' = [job EXCEPT !.stage = "delete", !.left = {d \in U!DayFiles : U!TooOld(d)}]
    BY <1>8 DEF U!List, U!Pruning, AuditTyped, U!Writings
  <2>2. LeftOnDisk'
    BY <2>1 DEF LeftOnDisk, U!DayFiles, U!Prunings
  <2>3. JobFiled'
    BY <2>1 DEF JobFiled, U!Prunings, U!Writings
  <2> QED  BY <2>1, <2>2, <2>3 DEF Filed, QueueFiled, U!FiledByDay, U!DayFiles, U!OnDisk, U!Range
<1>9. ASSUME NEW d \in U!Days, U!Delete(d)
      PROVE  Filed'
  <2>1. job \in U!Prunings /\ UNCHANGED <<made, queue>> /\ job' = [job EXCEPT !.left = @ \ {d}]
    BY <1>9 DEF U!Delete, U!Pruning, AuditTyped, U!Writings
  <2>2. files' = files \/ files' = [files EXCEPT ![d] = None]
    BY <1>9 DEF U!Delete
  <2>3. \A x \in U!Days : files'[x] # None => files'[x] = files[x]
    BY <2>2 DEF AuditTyped
  <2>4. \A r : r \in U!OnDisk' => r \in U!OnDisk
    BY <2>3 DEF U!OnDisk, U!Range
  <2>5. QueueFiled' /\ U!FiledByDay'
    BY <2>1, <2>3, <2>4 DEF Filed, QueueFiled, U!FiledByDay, U!DayFiles
  <2>6. JobFiled'
    BY <2>1 DEF JobFiled, U!Prunings, U!Writings
  <2>7. LeftOnDisk'
    BY <2>1, <2>2 DEF Filed, LeftOnDisk, AuditTyped, U!Prunings
  <2> QED  BY <2>5, <2>6, <2>7 DEF Filed
<1> QED  BY <1>1, <1>2, <1>3, <1>4, <1>5, <1>6, <1>7, <1>8, <1>9
         DEF U!AuditNext, U!Midnight, U!AskStatus, U!AskUnreadable, U!Report, U!Measure,
             U!MeasureFails

\* What is missing stays what it was, or less, but for a write that fails, which is counted.
LEMMA MissingBounded ==
    ASSUME AuditTyped, Accounted, Missing' \subseteq Missing, failedWrites' = failedWrites
    PROVE  Accounted'
<1>1. IsFiniteSet(Missing') /\ Cardinality(Missing') <= Cardinality(Missing)
  BY FS_Subset DEF Accounted
<1>2. Cardinality(Missing) \in Nat /\ Cardinality(Missing') \in Nat
  BY <1>1, FS_CardinalityType DEF Accounted
<1> QED  BY <1>1, <1>2 DEF Accounted, AuditTyped

LEMMA AccountedNext ==
    ASSUME AuditTyped, Filed, Accounted, U!AuditNext
    PROVE  Accounted'
<1> USE SetUpConstants DEF U!AuditConstants
<1>1. ASSUME UNCHANGED <<made, queue, job, files, aged, failedWrites>>
      PROVE  Accounted'
  BY <1>1 DEF Accounted, Missing, U!Waiting, U!OnDisk, U!Range
<1>2. CASE U!PruneIsDue
  <2>1. [kind |-> "prune"] \in Queued
    BY DEF Queued
  <2>2. U!Waiting' = U!Waiting
    BY <1>2, <2>1, QueueAppended DEF U!PruneIsDue, U!Waiting
  <2> QED  BY <1>2, <2>2 DEF U!PruneIsDue, Accounted, Missing, U!OnDisk, U!Range
<1>3. ASSUME NEW r \in Records, U!Record(r)
      PROVE  Accounted'
  <2>1. [kind |-> "record", record |-> r, day |-> today] \in Queued
    BY DEF Queued, AuditTyped
  <2>2. U!Waiting' = U!Waiting \union {r}
    BY <1>3, <2>1, QueueAppended DEF U!Record, U!Waiting
  <2>3. U!OnDisk' = U!OnDisk
    BY <1>3 DEF U!Record, U!OnDisk, U!Range
  <2>4. Missing' \subseteq Missing
    BY <1>3, <2>2, <2>3 DEF U!Record, Missing, AuditTyped
  <2> QED  BY <1>3, <2>4, MissingBounded DEF U!Record
<1>4. CASE U!Begin
  <2>1. /\ queue # <<>> /\ queue' = Tail(queue) /\ job = None /\ UNCHANGED <<made, files, aged>>
        /\ failedWrites' = failedWrites
    BY <1>4 DEF U!Begin
  <2>2. U!OnDisk' = U!OnDisk
    BY <2>1 DEF U!OnDisk, U!Range
  <2>3. ASSUME NEW r \in U!Waiting, r \notin U!Waiting'
        PROVE  job' # None /\ job'.kind = "record" /\ job'.record = r
    <3>1. queue[1].kind = "record" /\ queue[1].record = r
      <4>1. PICK i \in DOMAIN queue : queue[i].kind = "record" /\ queue[i].record = r
        BY <2>3 DEF U!Waiting
      <4>2. i # 1 => i - 1 \in DOMAIN queue' /\ queue'[i - 1] = queue[i]
        BY <2>1, QueueTail
      <4> QED  BY <2>3, <4>1, <4>2 DEF U!Waiting
    <3>2. job' = [kind |-> "record", record |-> r, day |-> queue[1].day, stage |-> "open"]
      BY <1>4, <2>1, <3>1, QueueTail DEF U!Begin, U!Target
    <3>3. job' \in U!Writings
      BY <2>1, <3>1, <3>2, QueueTail DEF U!Writings, Queued
    <3> QED  BY <3>2, <3>3
  <2>4. Missing' \subseteq Missing
    BY <2>1, <2>2, <2>3 DEF Missing
  <2> QED  BY <2>1, <2>4, MissingBounded
<1>5. CASE U!Open
  <2>1. job \in U!Writings /\ UNCHANGED <<made, queue, aged>> /\ failedWrites' = failedWrites
    BY <1>5 DEF U!Open, U!Writing, AuditTyped, U!Prunings
  <2>2. \A d \in U!Days : files[d] # None => files'[d] = files[d]
    BY <1>5 DEF U!Open, AuditTyped
  <2>3. \A r : r \in U!OnDisk => r \in U!OnDisk'
    BY <2>2 DEF U!OnDisk, U!Range
  <2>4. job' \in U!Writings /\ job'.record = job.record
    BY <1>5, <2>1 DEF U!Open, U!Writings
  <2>5. job # None /\ job.kind = "record" /\ job' # None /\ job'.kind = "record"
    BY <2>1, <2>4 DEF U!Writings
  <2>6. Missing' \subseteq Missing
    BY <2>1, <2>3, <2>4, <2>5 DEF Missing, U!Waiting
  <2> QED  BY <2>1, <2>6, MissingBounded
<1>6. CASE U!AppendLine
  <2>1. job \in U!Writings /\ job.stage = "append"
        /\ UNCHANGED <<made, queue, aged>> /\ failedWrites' = failedWrites
    BY <1>6 DEF U!AppendLine, U!Writing, AuditTyped, U!Prunings
  <2>2. files[job.day] \in Seq(Records) /\ job.day \in U!Days
    BY <2>1 DEF Filed, JobFiled, AuditTyped, U!Writings
  <2>3. ASSUME NEW d \in U!Days, files[d] # None
        PROVE  files'[d] # None /\ U!Range(files[d]) \subseteq U!Range(files'[d])
    <3>1. CASE d # job.day
      BY <1>6, <2>3, <3>1 DEF U!AppendLine, AuditTyped
    <3>2. CASE d = job.day
      <4>1. files'[d] = Append(files[d], job.record) /\ job.record \in Records
        BY <1>6, <2>1, <2>2, <3>2 DEF U!AppendLine, AuditTyped, U!Writings
      <4>2. DOMAIN files[d] \subseteq DOMAIN files'[d]
            /\ \A i \in DOMAIN files[d] : files'[d][i] = files[d][i]
        BY <2>2, <3>2, <4>1, AppendProperties, LenProperties
      <4>3. files'[d] # None
        <5>1. files'[d] \in Seq(Records)
          BY <2>2, <3>2, <4>1, AppendProperties
        <5> QED  BY <5>1
      <4> QED  BY <4>2, <4>3 DEF U!Range
    <3> QED  BY <3>1, <3>2
  <2>4. \A r : r \in U!OnDisk => r \in U!OnDisk'
    BY <2>3 DEF U!OnDisk
  <2>5. job' \in U!Writings /\ job'.record = job.record
    BY <1>6, <2>1 DEF U!AppendLine, U!Writings
  <2>6. job # None /\ job.kind = "record" /\ job' # None /\ job'.kind = "record"
    BY <2>1, <2>5 DEF U!Writings
  <2>7. Missing' \subseteq Missing
    BY <2>1, <2>4, <2>5, <2>6 DEF Missing, U!Waiting
  <2> QED  BY <2>1, <2>7, MissingBounded
<1>7. CASE U!Written
  <2>1. job \in U!Writings /\ job.record \in U!OnDisk
    BY <1>7 DEF U!Written, U!Writing, AuditTyped, U!Prunings, Filed, JobFiled
  <2>2. job' = None /\ UNCHANGED <<made, queue, files, aged>> /\ failedWrites' = failedWrites
    BY <1>7 DEF U!Written
  <2>3. Missing' \subseteq Missing
    BY <2>1, <2>2 DEF Missing, U!Waiting, U!OnDisk, U!Range
  <2> QED  BY <2>2, <2>3, MissingBounded
<1>8. CASE U!WriteFails
  <2>1. job' = None /\ UNCHANGED <<made, queue, files, aged>> /\ failedWrites' = failedWrites + 1
    BY <1>8 DEF U!WriteFails
  <2>2. Missing' \subseteq Missing \union {job.record}
    BY <2>1 DEF Missing, U!Waiting, U!OnDisk, U!Range
  <2>3. /\ IsFiniteSet(Missing \union {job.record})
        /\ Cardinality(Missing \union {job.record}) <= Cardinality(Missing) + 1
    <3>1. IsFiniteSet(Missing) /\ Cardinality(Missing) \in Nat
      BY FS_CardinalityType DEF Accounted
    <3>2. /\ IsFiniteSet(Missing \union {job.record})
          /\ Cardinality(Missing \union {job.record})
               = IF job.record \in Missing THEN Cardinality(Missing) ELSE Cardinality(Missing) + 1
      BY <3>1, FS_AddElement, Zenon
    <3> QED  BY <3>1, <3>2
  <2>4. IsFiniteSet(Missing') /\ Cardinality(Missing') <= Cardinality(Missing \union {job.record})
    BY <2>2, <2>3, FS_Subset
  <2>5. /\ Cardinality(Missing) \in Nat /\ Cardinality(Missing') \in Nat
        /\ Cardinality(Missing \union {job.record}) \in Nat
        /\ Cardinality(Missing) <= failedWrites /\ failedWrites \in Nat
    BY <2>3, <2>4, FS_CardinalityType DEF Accounted, AuditTyped
  <2> QED  BY <2>1, <2>3, <2>4, <2>5 DEF Accounted
<1>9. CASE U!List \/ U!ListFails \/ U!Pruned
  <2>1. /\ job \in U!Prunings /\ job' \in U!Prunings \union {None}
        /\ UNCHANGED <<made, queue, files, aged>> /\ failedWrites' = failedWrites
    <3>1. job \in U!Prunings
      BY <1>9 DEF U!List, U!ListFails, U!Pruned, U!Pruning, AuditTyped, U!Writings
    <3> QED  BY <1>9, <3>1 DEF U!List, U!ListFails, U!Pruned, U!Prunings, U!DayFiles
  <2>2. Missing' \subseteq Missing
    BY <2>1 DEF Missing, U!Waiting, U!OnDisk, U!Range, U!Prunings
  <2> QED  BY <2>1, <2>2, MissingBounded
<1>10. ASSUME NEW d \in U!Days, U!Delete(d)
       PROVE  Accounted'
  <2>1. job \in U!Prunings /\ UNCHANGED <<made, queue>> /\ failedWrites' = failedWrites
    BY <1>10 DEF U!Delete, U!Pruning, AuditTyped, U!Writings
  <2>2. job' \in U!Prunings
    BY <1>10, <2>1 DEF U!Delete, U!Prunings
  <2>3. job.kind # "record" /\ job'.kind # "record"
    BY <2>1, <2>2 DEF U!Prunings
  <2>4. ASSUME NEW r \in U!OnDisk
        PROVE  r \in U!OnDisk' \union aged'
    <3>1. PICK x \in U!Days : files[x] # None /\ r \in U!Range(files[x])
      BY <2>4 DEF U!OnDisk
    <3>2. CASE files'[x] = files[x]
      BY <3>1, <3>2 DEF U!OnDisk
    <3>3. CASE files'[x] # files[x]
      BY <1>10, <3>1, <3>3 DEF U!Delete, AuditTyped
    <3> QED  BY <3>2, <3>3
  <2>5. aged \subseteq aged'
    BY <1>10 DEF U!Delete
  <2>6. Missing' \subseteq Missing
    BY <2>1, <2>3, <2>4, <2>5 DEF Missing, U!Waiting
  <2> QED  BY <2>1, <2>6, MissingBounded
<1> QED  BY <1>1, <1>2, <1>3, <1>4, <1>5, <1>6, <1>7, <1>8, <1>9, <1>10
         DEF U!AuditNext, U!Midnight, U!AskStatus, U!AskUnreadable, U!Report, U!Measure,
             U!MeasureFails

LEMMA OldOnlyNext ==
    ASSUME AuditTyped, OldOnly, U!AuditNext
    PROVE  OldOnly'
<1> USE SetUpConstants DEF U!AuditConstants
<1>1. CASE U!Midnight
  <2>1. today' > today /\ today \in Int /\ today' \in Int /\ job' = job
    BY <1>1 DEF U!Midnight, AuditTyped, U!Days
  <2> QED  BY <2>1 DEF OldOnly, U!Prunings, U!Days
<1>2. CASE U!Begin
  BY <1>2 DEF U!Begin, OldOnly, U!Prunings, U!Days, AuditTyped
<1>3. CASE U!Open \/ U!AppendLine
  <2>1. job \in U!Writings
    BY <1>3 DEF U!Open, U!AppendLine, U!Writing, AuditTyped, U!Prunings
  <2>2. job' \notin U!Prunings
    BY <1>3, <2>1 DEF U!Open, U!AppendLine, U!Writings, U!Prunings
  <2> QED  BY <2>2 DEF OldOnly
<1>4. CASE U!Written \/ U!WriteFails \/ U!ListFails \/ U!Pruned
  BY <1>4 DEF U!Written, U!WriteFails, U!ListFails, U!Pruned, OldOnly
<1>5. CASE U!List
  <2>1. job \in U!Prunings
    BY <1>5 DEF U!List, U!Pruning, AuditTyped, U!Writings
  <2> QED  BY <1>5, <2>1 DEF U!List, OldOnly, U!Prunings, U!TooOld
<1>6. ASSUME NEW d \in U!Days, U!Delete(d)
      PROVE  OldOnly'
  <2>1. job \in U!Prunings
    BY <1>6 DEF U!Delete, U!Pruning, AuditTyped, U!Writings
  <2> QED  BY <1>6, <2>1 DEF U!Delete, OldOnly, U!Prunings
<1>7. CASE UNCHANGED <<today, job>>
  BY <1>7 DEF OldOnly
<1> QED  BY <1>1, <1>2, <1>3, <1>4, <1>5, <1>6, <1>7
         DEF U!AuditNext, U!PruneIsDue, U!AskStatus, U!AskUnreadable, U!Report, U!Measure,
             U!MeasureFails, U!Record

LEMMA CountedNext ==
    ASSUME AuditTyped, Counted, U!AuditNext
    PROVE  Counted'
<1>1. CASE UNCHANGED status
  BY <1>1 DEF Counted
<1>2. CASE U!AskStatus \/ U!AskUnreadable \/ U!Report
  BY <1>2 DEF U!AskStatus, U!AskUnreadable, U!Report, Counted
<1>3. ASSUME NEW d \in U!Days, U!Measure(d)
      PROVE  Counted'
  <2>1. status \in U!Statuses /\ status # None /\ d \in status.left
    BY <1>3 DEF U!Measure, AuditTyped
  <2>2. /\ status'.readable = status.readable
        /\ status'.left = status.left \ {d}
        /\ status'.counted = IF files[d] # None THEN status.counted \union {d} ELSE status.counted
        /\ status'.stayed = status.stayed \intersect U!DayFiles
        /\ status'.refused = status.refused
    BY <1>3, <2>1 DEF U!Measure, U!Count, U!Statuses
  <2> QED  BY <2>1, <2>2 DEF Counted, U!DayFiles
<1>4. ASSUME NEW d \in U!Days, U!MeasureFails(d)
      PROVE  Counted'
  <2>1. status \in U!Statuses /\ status # None /\ d \in status.left
    BY <1>4 DEF U!MeasureFails, AuditTyped
  <2>2. /\ status'.readable = status.readable
        /\ status'.left = status.left \ {d}
        /\ status'.counted = status.counted
        /\ status'.stayed = status.stayed \intersect U!DayFiles
        /\ status'.refused = status.refused \union {d}
    BY <1>4, <2>1 DEF U!MeasureFails, U!Statuses
  <2> QED  BY <2>1, <2>2 DEF Counted
<1> QED  BY <1>1, <1>2, <1>3, <1>4
         DEF U!AuditNext, U!Midnight, U!PruneIsDue, U!Begin, U!Open, U!AppendLine, U!Written,
             U!WriteFails, U!List, U!ListFails, U!Pruned, U!Delete, U!Record

LEMMA AuditStep == AuditIInv /\ [U!AuditNext]_U!auditVars => AuditIInv'
<1> SUFFICES ASSUME AuditIInv, [U!AuditNext]_U!auditVars PROVE AuditIInv'
  OBVIOUS
<1>1. CASE U!AuditNext
  BY <1>1, AuditTypedNext, FiledNext, AccountedNext, OldOnlyNext, CountedNext DEF AuditIInv
<1>2. CASE UNCHANGED U!auditVars
  BY <1>2 DEF U!auditVars, AuditIInv, AuditTyped, Filed, QueueFiled, JobFiled, LeftOnDisk,
              U!FiledByDay, U!DayFiles, Accounted, Missing, OldOnly, Counted, U!Waiting, U!OnDisk,
              U!Range
<1> QED  BY <1>1, <1>2

LEMMA AuditIInvSound == AuditIInv => U!AuditSound
<1> SUFFICES ASSUME AuditIInv PROVE U!AuditSound
  OBVIOUS
<1>1. U!AuditTypeOK
  BY DEF AuditIInv, AuditTyped, U!AuditTypeOK
<1>2. U!RecordsAccounted
  BY SameCardinality DEF AuditIInv, Accounted, Missing, U!RecordsAccounted
<1>3. U!FiledByDay
  BY DEF AuditIInv, Filed
<1>4. U!StatusCountsWhatStays
  BY DEF AuditIInv, Counted, U!StatusCountsWhatStays, U!Reported
<1> QED  BY <1>1, <1>2, <1>3, <1>4 DEF U!AuditSound

\* A file goes in a pruning only, and what a pruning deletes was out of the window.
LEMMA RetainedStep ==
    ASSUME AuditIInv, [U!AuditNext]_U!auditVars
    PROVE  \A d \in U!DayFiles : files'[d] = None => d < today - RetentionDays
<1> USE SetUpConstants DEF U!AuditConstants
<1>1. ASSUME NEW d \in U!DayFiles, files'[d] = None
      PROVE  d < today - RetentionDays
  <2>1. d \in U!Days /\ files[d] # None
    BY DEF U!DayFiles
  <2>2. CASE U!Open
    BY <1>1, <2>1, <2>2 DEF U!Open, AuditIInv, AuditTyped
  <2>3. CASE U!AppendLine
    <3>1. job \in U!Writings
      BY <2>3 DEF U!AppendLine, U!Writing, AuditIInv, AuditTyped, U!Prunings
    <3>2. d = job.day /\ job.record \in Records /\ files[d] \in Seq(Records)
      BY <1>1, <2>1, <2>3, <3>1 DEF U!AppendLine, AuditIInv, AuditTyped, U!Writings
    <3>3. files'[d] = Append(files[d], job.record)
      BY <2>1, <2>3, <3>2 DEF U!AppendLine, AuditIInv, AuditTyped
    <3>4. files'[d] \in Seq(Records)
      BY <3>2, <3>3, AppendProperties
    <3> QED  BY <1>1, <3>4
  <2>4. ASSUME NEW x \in U!Days, U!Delete(x)
        PROVE  d < today - RetentionDays
    <3>1. job \in U!Prunings /\ d = x /\ x \in job.left
      BY <1>1, <2>1, <2>4 DEF U!Delete, U!Pruning, AuditIInv, AuditTyped, U!Writings
    <3> QED  BY <2>1, <3>1 DEF AuditIInv, OldOnly, AuditTyped, U!Prunings, U!Days
  <2>5. CASE files' = files
    BY <1>1, <2>1, <2>5
  <2> QED  BY <2>2, <2>3, <2>4, <2>5
           DEF U!AuditNext, U!auditVars, U!Midnight, U!PruneIsDue, U!Begin, U!Written, U!WriteFails,
               U!List, U!ListFails, U!Pruned, U!AskStatus, U!AskUnreadable, U!Report, U!Measure,
               U!MeasureFails, U!Record
<1> QED  BY <1>1

\* Of one part alone: no record is lost unnoticed, each is in the file of its day, once,
\* and the status counts the files that stay, unless stat failed for them
\* (audit.ts).
THEOREM AuditSpecSound == U!AuditSpec => []U!AuditSound
<1>1. U!AuditSpec => []AuditIInv
  BY AuditInitIInv, AuditStep, PTL DEF U!AuditSpec
<1> QED  BY <1>1, AuditIInvSound, PTL

LEMMA AuditSceneInv == Spec => [](scene = "audit" => AuditIInv)
<1>1. Init => (scene = "audit" => AuditIInv)
  BY AuditInitIInv DEF Init
<1>2. (scene = "audit" => AuditIInv) /\ [Next]_vars => (scene = "audit" => AuditIInv)'
  <2> SUFFICES ASSUME scene = "audit" => AuditIInv, [Next]_vars, scene' = "audit"
               PROVE  AuditIInv'
    OBVIOUS
  <2>1. scene = "audit" /\ [U!AuditNext]_U!auditVars
    BY DEF Next, vars, auditVars, U!auditVars
  <2> QED  BY <2>1, AuditStep
<1> QED  BY <1>1, <1>2, PTL DEF Spec

\* And as the run has it, next to the other parts.
THEOREM SpecAuditSound == Spec => []AuditSound
<1>1. (scene = "audit" => AuditIInv) => AuditSound
  BY AuditIInvSound DEF AuditSound
<1> QED  BY <1>1, AuditSceneInv, PTL

\* No file goes that is in the window auditRetentionDays asks to keep, whatever day it
\* becomes while the pruning is under way (audit.ts, pruneExpired).
THEOREM SpecRetainedStay == Spec => RetainedStay
<1>1. ASSUME scene = "audit" => AuditIInv, [Next]_vars
      PROVE  [\A d \in U!DayFiles : files'[d] = None => d < today - RetentionDays]_U!auditVars
  <2>1. CASE scene = "audit"
    <3>1. [U!AuditNext]_U!auditVars
      BY <1>1, <2>1 DEF Next, vars, auditVars, U!auditVars
    <3> QED  BY <1>1, <2>1, <3>1, RetainedStep
  <2>2. CASE scene # "audit"
    BY <1>1, <2>2 DEF Next, vars, auditVars, U!auditVars
  <2> QED  BY <2>1, <2>2
<1> QED  BY <1>1, AuditSceneInv, PTL DEF Spec, RetainedStay, U!RetainedStay

-------------------------------------------------------------------------------
(***************************************************************************)
(* The rotation of the daemon's log.                                       *)
(***************************************************************************)
Stages == L!Living \union {"unspawned", "gone"}

RotationTyped ==
    /\ log \in Files \union {None} /\ backup \in Files \union {None}
    /\ log # None => log # backup
    /\ size \in [Files -> 0..(MaxBytes + 1)]
    /\ daemon \in [Daemons -> [stage : Stages, file : Files \union {None}]]
    /\ \A d \in Daemons : daemon[d].stage \in L!Living => daemon[d].file \in Files
    /\ pidfile \in Daemons \union {None} /\ bound \in Daemons \union {None}
    /\ spawner \in L!Spawning

\* Who is watched is to be seen. The two questions of a rotation rule out, one after
\* the other, that it is the one the pidfile names and the one whose socket answers.
NobodyWatched ==
    /\ watched \subseteq L!Visible
    /\ spawner = "unnamed" => pidfile \notin watched
    /\ spawner = "free" => watched = {}

RotationIInv == RotationTyped /\ NobodyWatched /\ L!MovedUnseenOnly

LEMMA RotationInitIInv == L!RotationInit => RotationIInv
  BY SetUpConstants DEF L!RotationConstants, L!RotationInit, RotationIInv, RotationTyped,
     NobodyWatched, L!MovedUnseenOnly, L!Fresh, L!Living, L!Spawning, Stages

LEMMA GrownTyped ==
    ASSUME RotationTyped, NEW f \in Files
    PROVE  L!Grown(f) \in [Files -> 0..(MaxBytes + 1)]
  BY SetUpConstants DEF L!RotationConstants, RotationTyped, L!Grown

LEMMA RotationTypedNext ==
    ASSUME RotationTyped, [L!RotationNext]_L!rotationVars
    PROVE  RotationTyped'
<1> USE DEF RotationTyped, L!host, L!disk
<1>1. CASE UNCHANGED L!rotationVars
  BY <1>1 DEF L!rotationVars
<1>2. ASSUME NEW d \in Daemons,
             L!TakePidfile(d) \/ L!Bind(d) \/ L!Hangs(d) \/ L!ClosesSocket(d)
               \/ L!ReleasesPidfile(d) \/ L!Ends(d)
      PROVE  RotationTyped'
  <2> USE DEF L!Goes, L!Living, Stages
  <2>1. CASE L!TakePidfile(d)
    BY <2>1 DEF L!TakePidfile
  <2>2. CASE L!Bind(d)
    BY <2>2 DEF L!Bind
  <2>3. CASE L!Hangs(d)
    BY <2>3 DEF L!Hangs
  <2>4. CASE L!ClosesSocket(d)
    BY <2>4 DEF L!ClosesSocket
  <2>5. CASE L!ReleasesPidfile(d)
    BY <2>5 DEF L!ReleasesPidfile
  <2>6. CASE L!Ends(d)
    BY <2>6 DEF L!Ends
  <2> QED  BY <1>2, <2>1, <2>2, <2>3, <2>4, <2>5, <2>6
<1>3. ASSUME NEW d \in Daemons, L!Writes(d)
      PROVE  RotationTyped'
  BY <1>3, GrownTyped DEF L!Writes
<1>4. ASSUME NEW d \in Daemons, L!Spawn(d)
      PROVE  RotationTyped'
  <2>1. PICK f \in IF log = None THEN L!Unused ELSE {log} :
          /\ log' = f /\ size' = L!Grown(f)
          /\ daemon' = [daemon EXCEPT ![d] = [stage |-> "booting", file |-> f]]
    BY <1>4 DEF L!Spawn
  <2>2. f \in Files /\ f # backup
    BY <2>1 DEF L!Unused
  <2>3. size' \in [Files -> 0..(MaxBytes + 1)]
    BY <2>1, <2>2, GrownTyped
  <2> QED  BY <1>4, <2>1, <2>2, <2>3 DEF L!Spawn, L!At, L!Spawning, Stages, L!Living
<1>5. CASE L!PidfileRemoved
  BY <1>5 DEF L!PidfileRemoved
<1>6. CASE L!Begin \/ L!Measure \/ L!AsksPidfile \/ L!AsksSocket \/ L!RenameFails \/ L!SpawnerDies
  BY <1>6 DEF L!Begin, L!Measure, L!AsksPidfile, L!AsksSocket, L!RenameFails, L!SpawnerDies,
              L!At, L!Spawning
<1>7. CASE L!Rename
  BY <1>7 DEF L!Rename, L!At, L!Spawning
<1> QED  BY <1>1, <1>2, <1>3, <1>4, <1>5, <1>6, <1>7 DEF L!RotationNext

\* What matters of a step for who is watched: a daemon comes to hold the pidfile only
\* while it boots, when no socket of its answers.
LEMMA WatchedNext ==
    ASSUME RotationIInv, L!RotationNext
    PROVE  NobodyWatched'
<1> USE DEF RotationIInv, NobodyWatched, L!host, L!disk
<1>1. watched' \subseteq L!Visible' /\ (spawner # "ready" => watched' \subseteq watched)
  BY DEF L!RotationNext
<1>2. ASSUME spawner' = "unnamed"
      PROVE  pidfile' \notin watched'
  <2>1. CASE spawner = "unnamed"
    <3>1. pidfile' = pidfile \/ pidfile' = None
            \/ \E d \in Daemons : pidfile' = d /\ daemon[d].stage = "booting"
      BY <1>2, <2>1 DEF L!RotationNext, L!TakePidfile, L!Goes, L!Bind, L!Hangs, L!ClosesSocket,
         L!ReleasesPidfile, L!Ends, L!Writes, L!Spawn, L!PidfileRemoved, L!Begin, L!Measure,
         L!AsksPidfile, L!AsksSocket, L!Rename, L!RenameFails, L!SpawnerDies, L!At
    <3>2. \A d \in watched : d # None /\ (daemon[d].stage = "booting" => d = pidfile)
      BY SetUpConstants DEF L!Visible, L!RotationConstants
    <3> QED  BY <1>1, <2>1, <3>1, <3>2
  <2>2. CASE spawner # "unnamed"
    <3>1. L!AsksPidfile /\ ~L!Named
      BY <1>2, <2>2 DEF L!RotationNext, L!TakePidfile, L!Goes, L!Bind, L!Hangs, L!ClosesSocket,
         L!ReleasesPidfile, L!Ends, L!Writes, L!Spawn, L!PidfileRemoved, L!Begin, L!Measure,
         L!AsksPidfile, L!AsksSocket, L!Rename, L!RenameFails, L!SpawnerDies, L!At
    <3>2. pidfile \notin L!Visible \/ daemon[pidfile].stage \notin L!Living \/ pidfile = None
      BY <3>1 DEF L!Named
    <3>3. pidfile \notin L!Visible
      BY <3>2, SetUpConstants DEF L!Visible, L!Living, L!RotationConstants
    <3> QED  BY <1>1, <3>1, <3>3 DEF L!AsksPidfile
  <2> QED  BY <2>1, <2>2
<1>3. ASSUME spawner' = "free"
      PROVE  watched' = {}
  <2>1. CASE spawner = "free"
    BY <1>1, <2>1
  <2>2. CASE spawner # "free"
    <3>1. L!AsksSocket /\ ~L!Answers
      BY <1>3, <2>2 DEF L!RotationNext, L!TakePidfile, L!Goes, L!Bind, L!Hangs, L!ClosesSocket,
         L!ReleasesPidfile, L!Ends, L!Writes, L!Spawn, L!PidfileRemoved, L!Begin, L!Measure,
         L!AsksPidfile, L!AsksSocket, L!Rename, L!RenameFails, L!SpawnerDies, L!At
    <3>2. watched = {}
      BY <3>1, SetUpConstants DEF L!AsksSocket, L!Answers, L!Visible, L!RotationConstants
    <3> QED  BY <1>1, <3>1, <3>2 DEF L!AsksSocket
  <2> QED  BY <2>1, <2>2
<1> QED  BY <1>1, <1>2, <1>3

LEMMA MovedUnseenNext ==
    ASSUME RotationIInv, L!RotationNext
    PROVE  L!MovedUnseenOnly'
<1> USE DEF RotationIInv, RotationTyped, L!MovedUnseenOnly, L!host, L!disk
<1>1. overlooked \subseteq overlooked'
  BY DEF L!RotationNext
<1>2. CASE L!Rename
  <2>1. watched = {}
    BY <1>2 DEF NobodyWatched, L!Rename, L!At
  <2>2. ASSUME NEW d \in Daemons, daemon[d].stage \in L!Living
        PROVE  daemon[d].file = log => d \in overlooked'
    <3>1. daemon[d].file = log => log # None
      BY <2>2, SetUpConstants DEF L!RotationConstants
    <3> QED  BY <1>2, <2>1, <3>1 DEF L!RotationNext, L!Rename
  <2> QED  BY <1>1, <1>2, <2>2 DEF L!Rename
<1>3. ASSUME NEW d \in Daemons, L!Spawn(d)
      PROVE  L!MovedUnseenOnly'
  BY <1>1, <1>3, SetUpConstants DEF L!Spawn, L!RotationConstants
<1>4. CASE ~L!Rename /\ ~ (\E d \in Daemons : L!Spawn(d))
  <2>1. log' = log /\ \A d \in Daemons : daemon'[d].stage \in L!Living =>
          daemon[d].stage \in L!Living /\ daemon'[d].file = daemon[d].file
    BY <1>4 DEF L!RotationNext, L!TakePidfile, L!Goes, L!Bind, L!Hangs, L!ClosesSocket,
         L!ReleasesPidfile, L!Ends, L!Writes, L!PidfileRemoved, L!Begin, L!Measure,
         L!AsksPidfile, L!AsksSocket, L!RenameFails, L!SpawnerDies, L!At, L!Living
  <2> QED  BY <1>1, <2>1
<1> QED  BY <1>2, <1>3, <1>4

LEMMA RotationStep == RotationIInv /\ [L!RotationNext]_L!rotationVars => RotationIInv'
<1> SUFFICES ASSUME RotationIInv, [L!RotationNext]_L!rotationVars PROVE RotationIInv'
  OBVIOUS
<1>1. RotationTyped'
  BY RotationTypedNext DEF RotationIInv
<1>2. CASE UNCHANGED L!rotationVars
  BY <1>1, <1>2 DEF RotationIInv, NobodyWatched, L!MovedUnseenOnly, L!Visible, L!rotationVars,
                    L!disk, L!host
<1>3. CASE L!RotationNext
  BY <1>1, <1>3, WatchedNext, MovedUnseenNext DEF RotationIInv
<1> QED  BY <1>2, <1>3

LEMMA RotationIInvSound == RotationIInv => L!RotationSound
  BY DEF RotationIInv, RotationTyped, L!RotationSound, L!RotationTypeOK

\* Of one part alone: a rotation moves the log of no daemon that was to be seen
\* throughout (log-rotation.ts).
THEOREM SpecMovedUnseenOnly == L!RotationSpec => []L!RotationSound
<1>1. L!RotationSpec => []RotationIInv
  BY RotationInitIInv, RotationStep, PTL DEF L!RotationSpec
<1> QED  BY <1>1, RotationIInvSound, PTL

\* And as the run has it, next to the other parts.
THEOREM SpecRotationSound == Spec => []RotationSound
<1> DEFINE Inv == scene = "rotation" => RotationIInv
<1>1. Init => Inv
  BY RotationInitIInv DEF Init
<1>2. Inv /\ [Next]_vars => Inv'
  <2> SUFFICES ASSUME Inv, [Next]_vars, scene' = "rotation" PROVE RotationIInv'
    OBVIOUS
  <2>1. scene = "rotation" /\ [L!RotationNext]_L!rotationVars
    BY DEF Next, vars, rotationVars, L!rotationVars, L!disk, L!host
  <2> QED  BY <2>1, RotationStep
<1>3. Inv => RotationSound
  BY RotationIInvSound DEF RotationSound
<1> QED  BY <1>1, <1>2, <1>3, PTL DEF Spec
===============================================================================
