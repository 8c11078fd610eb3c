----------------------------- MODULE Delivery -----------------------------
(***************************************************************************)
(* How a link gets onto a device: `appduct link` and appduct_connect, from  *)
(* the arguments they are given to the commands they run on a simulator, an *)
(* Android device or a paired iPhone, and the QR code that is left when     *)
(* there is no device (packages/appduct/src/cli/open-target.ts, link.ts,    *)
(* commands/link.ts, mcp/connect-tool.ts).                                  *)
(*                                                                          *)
(* Every command is a step, and devices come, get ready and go between two  *)
(* of them. A device that has gone does not come back.                      *)
(***************************************************************************)
EXTENDS Naturals, Sequences, FiniteSets

CONSTANTS
  Simulators, Androids, Phones,  \* the devices of each kind
  None                           \* an argument or a setting that is not given

Devices == Simulators \union Androids \union Phones
Targets == {"ios-sim", "android", "ios-device"}
Enumerated == {"ios-sim", "android"}  \* what a detection looks for
OfKind == [t \in Targets |-> CASE t = "ios-sim" -> Simulators
                               [] t = "android" -> Androids
                               [] t = "ios-device" -> Phones]
Bundles == {"valid", "invalid", None}
Results == {"invalid", "unreachable", "shown", "loopback", "failed", "delivered"}

\* Assumed of the constants.
DeliveryConstants ==
  /\ None \notin Devices \union Targets \union {"none"} \union Results
  /\ Simulators \intersect Androids = {}
  /\ Simulators \intersect Phones = {}
  /\ Androids \intersect Phones = {}

VARIABLES
  request,   \* who asks, and the arguments
  settings,  \* ANDROID_SERIAL, iosBundleId, whether a LAN address is detected,
             \* whether devicectl says what state a phone is in
  present,   \* devices booted, attached or known
  unready,   \* of these: Androids not authorized, phones unpaired or out of reach
  gone,      \* devices that were
  stage,     \* where the request is
  listed,    \* what the listings of its detection returned
  target,    \* what it is delivered to: the kind, the device and how it was found
  links,     \* the links minted for it: the address in each
  forwards,  \* Android devices on which the daemon's port is forwarded
  opened,    \* the device the link was opened on
  result
world == <<present, unready, gone>>
deliveryVars == <<request, settings, world, stage, listed, target, links, forwards,
                  opened, result>>

-----------------------------------------------------------------------------
(* The arguments.                                                           *)

Requests ==
  [via : {"cli", "mcp"}, target : Targets \union {"none", None},
   device : Devices \union {None}, bundle : Bundles]

(* What is refused before anything is looked at: a target the command does  *)
(* not know, a device or a bundle id without the target it belongs to.      *)
Malformed(r) ==
  \/ r.via = "cli" /\ r.target = "none"
  \/ r.device # None /\ r.target \in {"none", None}
  \/ r.bundle # None /\ r.target # "ios-device"

Settings ==
  [serial : Androids \union {None}, bundle : Bundles, lan : BOOLEAN, told : BOOLEAN]

(* The bundle id of a delivery to an iPhone: the argument, else the         *)
(* configured one.                                                          *)
Bundle == IF request.bundle # None THEN request.bundle ELSE settings.bundle

NoTarget == [kind |-> None, device |-> None, found |-> FALSE]

(* A setting that the request has no use for has but one value.             *)
Reads(r, s) ==
  /\ s.serial # None => r.target \in {"android", None}
  /\ s.bundle # None \/ ~s.told => r.target = "ios-device"

DeliveryInit ==
  /\ request \in Requests
  /\ settings \in {s \in Settings : Reads(request, s)}
  /\ present \in SUBSET Devices
  /\ unready \in SUBSET (present \ Simulators)
  /\ gone = {}
  /\ stage = "asked"
  /\ listed = [s \in Enumerated |-> None]
  /\ target = NoTarget
  /\ links = <<>>
  /\ forwards = {}
  /\ opened = None
  /\ result = None

Appears(d) ==
  /\ result = None
  /\ d \notin present \union gone
  /\ present' = present \union {d}
  /\ unready' = IF d \in Simulators THEN unready ELSE unready \union {d}
  /\ UNCHANGED <<request, settings, gone, stage, listed, target, links, forwards,
                 opened, result>>

GetsReady(d) ==
  /\ result = None
  /\ d \in unready
  /\ unready' = unready \ {d}
  /\ UNCHANGED <<request, settings, present, gone, stage, listed, target, links,
                 forwards, opened, result>>

(* The forwarded port of an Android device goes with it.                    *)
Disappears(d) ==
  /\ result = None
  /\ d \in present
  /\ present' = present \ {d}
  /\ unready' = unready \ {d}
  /\ gone' = gone \union {d}
  /\ forwards' = forwards \ {d}
  /\ UNCHANGED <<request, settings, stage, listed, target, links, opened, result>>

-----------------------------------------------------------------------------
(* What the tools list. adb must say that a device is ready; a phone is     *)
(* dropped only if devicectl says that it is not.                           *)

BootedSimulators == Simulators \intersect present
AttachedAndroids == (Androids \intersect present) \ unready
PairedPhones == (Phones \intersect present) \ (IF settings.told THEN unready ELSE {})

Listing(kind) == IF kind = "ios-sim" THEN BootedSimulators ELSE AttachedAndroids

(* A detection takes a tool that is missing or fails for an empty listing.  *)
SafeList(kind) == {Listing(kind), {}}

-----------------------------------------------------------------------------
(* Deciding where the link goes, before it is minted.                       *)

Ends(r) == result' = r /\ stage' = "over"
On(s) == result = None /\ stage = s

Refuse ==
  /\ On("asked")
  /\ Malformed(request)
  /\ Ends("invalid")
  /\ UNCHANGED <<request, settings, world, listed, target, links, forwards, opened>>

(* A named target is taken as it is; "none", and no target on the command   *)
(* line, deliver nothing.                                                   *)
TakeNamed ==
  /\ On("asked")
  /\ ~Malformed(request)
  /\ request.target # None \/ request.via = "cli"
  /\ target' = IF request.target \in Targets
               THEN [kind |-> request.target, device |-> request.device, found |-> FALSE]
               ELSE NoTarget
  /\ stage' = "decided"
  /\ UNCHANGED <<request, settings, world, listed, links, forwards, opened, result>>

(* No target: the simulators and the Android devices are listed at once,    *)
(* phones never; ANDROID_SERIAL is the listing of the Android side when it  *)
(* is set.                                                                  *)
Detect(kind) ==
  /\ On("asked")
  /\ ~Malformed(request)
  /\ request.via = "mcp" /\ request.target = None
  /\ listed[kind] = None
  /\ \E found \in SafeList(kind) :
       listed' = [listed EXCEPT ![kind] =
                    IF kind = "android" /\ settings.serial # None
                    THEN {settings.serial} ELSE found]
  /\ UNCHANGED <<request, settings, world, stage, target, links, forwards, opened, result>>

Candidates ==
  UNION {{[kind |-> k, device |-> d, found |-> TRUE] : d \in listed[k]} : k \in Enumerated}

(* The only candidate is the target; none and several leave a QR code.      *)
TakeDetected ==
  /\ On("asked")
  /\ \A k \in Enumerated : listed[k] # None
  /\ target' = IF Cardinality(Candidates) = 1
               THEN CHOOSE c \in Candidates : TRUE ELSE NoTarget
  /\ stage' = "decided"
  /\ UNCHANGED <<request, settings, world, listed, links, forwards, opened, result>>

(* The address in a link is the loopback override for a target that reaches *)
(* this machine over loopback, and else the detected one, which is loopback *)
(* too when no other is found.                                              *)
UsesLoopback(kind) == kind \in {"ios-sim", "android"}
PointsHome(address) == address # "lan"
Detected == IF settings.lan THEN "lan" ELSE "detected-loopback"
Minted(local) == links' = links \o <<IF local THEN "override" ELSE Detected>>

(* Delivery to an iPhone needs a bundle id, and a well-formed one.          *)
NeedsBundle == target.kind = "ios-device" /\ Bundle # "valid"

\* A variant that mints the link before it looks at the bundle id.
RefuseBundleMinted ==
  /\ On("decided")
  /\ NeedsBundle
  /\ Minted(FALSE)
  /\ Ends("invalid")
  /\ UNCHANGED <<request, settings, world, listed, target, forwards, opened>>

RefuseBundle ==
  /\ On("decided")
  /\ NeedsBundle
  /\ Ends("invalid")
  /\ UNCHANGED <<request, settings, world, listed, target, links, forwards, opened>>

-----------------------------------------------------------------------------
(* Minting, and what needs no delivery.                                     *)

Mint ==
  /\ On("decided")
  /\ ~NeedsBundle
  /\ Minted(UsesLoopback(target.kind))
  /\ stage' = "minted"
  /\ UNCHANGED <<request, settings, world, listed, target, forwards, opened, result>>

(* The daemon cannot be reached.                                            *)
MintFails ==
  /\ stage \in {"decided", "undelivered"}
  /\ result = None
  /\ Ends("unreachable")
  /\ UNCHANGED <<request, settings, world, listed, target, links, forwards, opened>>

(* No target: the link, which appduct_connect also shows as a QR code.      *)
Show ==
  /\ On("minted")
  /\ target.kind = None
  /\ Ends("shown")
  /\ UNCHANGED <<request, settings, world, listed, target, links, forwards, opened>>

(* An address that points an iPhone at itself is refused, after the fact.   *)
RefuseLoopback ==
  /\ On("minted")
  /\ target.kind = "ios-device"
  /\ PointsHome(links[Len(links)])
  /\ Ends("loopback")
  /\ UNCHANGED <<request, settings, world, listed, target, links, forwards, opened>>

-----------------------------------------------------------------------------
(* Delivering: which device, then the command or commands on it.            *)

MayDeliver ==
  /\ On("minted")
  /\ target.kind # None
  /\ target.kind = "ios-device" => ~PointsHome(links[Len(links)])

Named == target.device # None

(* A device is named, or found by ANDROID_SERIAL: no listing.               *)
SkipListing ==
  /\ MayDeliver
  /\ Named \/ (target.kind = "android" /\ settings.serial # None)
  /\ stage' = "resolved"
  /\ UNCHANGED <<request, settings, world, listed, target, links, forwards, opened, result>>

(* Exactly one device of the kind must be there. A simulator or an iPhone   *)
(* is then called by its id, an Android device is left to adb.              *)
TakeOnly(there, id) ==
  /\ MayDeliver
  /\ ~Named
  /\ Cardinality(there) = 1
  /\ target' = [target EXCEPT !.device = id]
  /\ stage' = "resolved"
  /\ UNCHANGED <<request, settings, world, listed, links, forwards, opened, result>>

ResolveSimulator ==
  /\ target.kind = "ios-sim"
  /\ \E d \in BootedSimulators : TakeOnly(BootedSimulators, d)

ResolveSingleIosDevice ==
  /\ target.kind = "ios-device"
  /\ \E d \in PairedPhones : TakeOnly(PairedPhones, d)

ResolveAndroidSerial ==
  /\ target.kind = "android"
  /\ settings.serial = None
  /\ TakeOnly(AttachedAndroids, None)

(* Where a command to the target runs now: nowhere if the device is not     *)
(* there or not ready; adb without a serial takes the only device there is. *)
Meant ==
  IF target.device # None THEN {target.device} \intersect OfKind[target.kind]
  ELSE IF settings.serial # None THEN {settings.serial}
  ELSE IF Cardinality(Androids \intersect present) = 1 THEN Androids
  ELSE {}
Reached == (Meant \intersect present) \ unready

(* adb reverse, before the link is opened.                                  *)
Forward ==
  /\ On("resolved")
  /\ target.kind = "android"
  /\ \E d \in Reached : forwards' = forwards \union {d}
  /\ stage' = "forwarded"
  /\ UNCHANGED <<request, settings, world, listed, target, links, opened, result>>

\* A variant that opens the link without waiting for the forward.
ReadyAtOnce == On("resolved")

(* The bundle id is looked at again where it goes into a command.           *)
PhoneReady == target.kind = "ios-device" /\ On("resolved") /\ ~NeedsBundle

Ready ==
  \/ target.kind = "ios-sim" /\ On("resolved")
  \/ target.kind = "android" /\ On("forwarded")
  \/ PhoneReady

(* am start, simctl openurl, devicectl process launch.                      *)
Open ==
  /\ Ready
  /\ \E d \in Reached : opened' = d
  /\ Ends("delivered")
  /\ UNCHANGED <<request, settings, world, listed, target, links, forwards>>

(* A listing, a forward or the opening: each may fail, or find nothing.     *)
CommandFails == MayDeliver \/ On("resolved") \/ On("forwarded")

\* A variant that falls back for a target somebody named.
DeliveryFailsQuietly ==
  /\ CommandFails
  /\ stage' = "undelivered"
  /\ UNCHANGED <<request, settings, world, listed, target, links, forwards, opened, result>>

(* A command fails, or the listing does not leave one device: an error for  *)
(* a target that was named, a QR code for one that was only found.          *)
DeliveryFails ==
  /\ CommandFails
  /\ IF target.found
     THEN stage' = "undelivered" /\ UNCHANGED result
     ELSE Ends("failed")
  /\ UNCHANGED <<request, settings, world, listed, target, links, forwards, opened>>

\* A variant that shows the link the delivery was tried with.
FallBackReusing ==
  /\ On("undelivered")
  /\ Ends("shown")
  /\ UNCHANGED <<request, settings, world, listed, target, links, forwards, opened>>

(* The fallback mints a fresh link, for a phone to scan.                    *)
FallBack ==
  /\ On("undelivered")
  /\ Minted(FALSE)
  /\ Ends("shown")
  /\ UNCHANGED <<request, settings, world, listed, target, forwards, opened>>

DeliveryNext ==
  \/ \E d \in Devices : Appears(d) \/ GetsReady(d) \/ Disappears(d)
  \/ Refuse
  \/ TakeNamed
  \/ \E k \in Enumerated : Detect(k)
  \/ TakeDetected
  \/ RefuseBundle
  \/ Mint
  \/ MintFails
  \/ Show
  \/ RefuseLoopback
  \/ SkipListing
  \/ ResolveSimulator
  \/ ResolveSingleIosDevice
  \/ ResolveAndroidSerial
  \/ Forward
  \/ Open
  \/ DeliveryFails
  \/ FallBack

DeliverySpec == DeliveryInit /\ [][DeliveryNext]_deliveryVars

-----------------------------------------------------------------------------
(* The types: at most two links are minted for a request, and a result is   *)
(* given once, when the request is over.                                    *)
DeliveryTypeOK ==
  /\ present \intersect gone = {}
  /\ unready \subseteq present \ Simulators
  /\ stage \in {"asked", "decided", "minted", "resolved", "forwarded", "undelivered", "over"}
  /\ target.kind \in Targets \union {None}
  /\ Len(links) <= 2
  /\ forwards \subseteq Androids \intersect present
  /\ opened \in Devices \union {None}
  /\ result = None <=> stage # "over"

(* The address a link was minted with suits where it ends up, although it   *)
(* is fixed before the delivery is tried: what is opened on a simulator or  *)
(* an Android device is the loopback link, what an iPhone is launched with  *)
(* has a LAN address, and what is shown for a phone to scan never carries   *)
(* the override, not even after a delivery that failed.                     *)
AddressSuitsTarget ==
  /\ result = "delivered" =>
       links[Len(links)] = (IF opened \in Phones THEN "lan" ELSE "override")
  /\ result = "shown" => links[Len(links)] = Detected

(* A call that cannot deliver is refused before it mints, so that it leaves *)
(* no pending link: the one exception is the address, known only then.      *)
RefusedBeforeMinting == result = "invalid" => links = <<>>

(* Who named no target gets a link to use, whatever the devices do, and who *)
(* named one is never given a QR code instead; nor is an iPhone or one of   *)
(* several devices taken by somebody who named none.                        *)
FallsBackIffUnnamed ==
  /\ result = "failed" => request.target # None
  /\ result = "shown" => request.target \in {None, "none"}
  /\ result = "delivered" /\ request.target = None =>
       opened \notin Phones /\ Cardinality(Candidates) = 1

(* An Android device is told to open the link only with the port forwarded  *)
(* on that very device, when the command names it.                          *)
ForwardedBeforeOpening ==
  opened \in Androids /\ (target.device # None \/ settings.serial # None)
    => opened \in forwards

(* Delivery as a whole: the link fits where it is opened or shown, nothing  *)
(* is minted for a call that cannot succeed, a fallback is for those who    *)
(* left the choice open, and a device is reached before it is told to open. *)
DeliverySound ==
  /\ DeliveryTypeOK
  /\ AddressSuitsTarget
  /\ RefusedBeforeMinting
  /\ FallsBackIffUnnamed
  /\ ForwardedBeforeOpening
=============================================================================
