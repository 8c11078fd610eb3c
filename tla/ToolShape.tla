---------------------------- MODULE ToolShape ----------------------------
(***************************************************************************)
(* What becomes of the schemas and the timeout an app declares for a tool:  *)
(* the classification of a schema and its export as JSON Schema             *)
(* (packages/react-native/src/schema.ts), the descriptor and the guard it   *)
(* has to pass (packages/shared/src/domains/tool-descriptor.ts), the tool   *)
(* an MCP client is shown (mcp/tool-mapping.ts), and the deadlines and the  *)
(* result of a call.                                                        *)
(*                                                                          *)
(* A tool may be registered again between any two steps of a call and       *)
(* between two listings. How the descriptor travels is in RegistrySync; it  *)
(* arrives at once here. A number of milliseconds is counted in halves, so  *)
(* that it may have a fraction.                                             *)
(***************************************************************************)
EXTENDS Integers, FiniteSets, Sequences, SequencesExt

CONSTANTS
  Tools,         \* the names of the tools
  Definitions,   \* what is registered under them
  Timeouts,      \* the timeouts a caller gives
  MinTimeout, MaxTimeout, DefaultTimeout, Slack,
  MaxNotices,    \* MAX_REMEMBERED_NOTICES
  MaxMoves,      \* bound: registrations and calls
  NaN,           \* not a finite number
  None           \* no value

VARIABLES
  build,        \* "dev" or "release"
  entries,      \* the client's map: the definition under each name
  refused,      \* the definitions native threw for
  descriptors,  \* what is registered in the daemon
  warnedAbout,  \* shapelessToolWarningsSeen: tools and slots
  hinted,       \* nonObjectInput/OutputWarningsSeen
  remembered,   \* the notices the MCP server remembers, oldest first
  printed,      \* the notices it ever printed
  catalog,      \* the tool as the MCP client saw it last, and the descriptor it is of
  served,       \* the call in progress
  moves
shapeVars == <<build, entries, refused, descriptors, warnedAbout, hinted, remembered, printed,
               catalog, served, moves>>

-----------------------------------------------------------------------------
(* The value of a schema slot: its form, and what it, its exporter or its   *)
(* converter gives: JSON Schema rooted at an object, such a one that the    *)
(* MCP SDK refuses all the same, one rooted elsewhere, something that is    *)
(* not plain JSON Schema, an exception, or no exporter at all.              *)

Slots == {"input", "output"}
PlainSchemas == {"object", "odd", "other"}
Values ==
  [form : {"standard"}, gives : PlainSchemas \union {"junk", "throws", "missing"}] \union
  [form : {"converter"}, gives : PlainSchemas \union {"junk", "throws"}] \union
  [form : {"paired", "raw"}, gives : PlainSchemas \union {"junk"}] \union
  [form : {"broken", "halfpair"}, gives : {"junk"}]

(* normalizeToolSchema does not throw. A Standard Schema and a converter    *)
(* are not tried yet; a schema given as it is has to be plain.              *)
Classifies(v) ==
  \/ v.form \in {"standard", "converter"}
  \/ v.form \in {"paired", "raw"} /\ v.gives \in PlainSchemas

(* The JSON Schema of a slot, or None.                                      *)
Export(v) == IF v # None /\ v.gives \in PlainSchemas THEN v.gives ELSE None

Validated(v) == v # None /\ v.form # "raw"

Finite(t) == t \notin {NaN, None}
TruncTowardZero(x) == IF x >= 0 THEN x - (x % 2) ELSE -((-x) - ((-x) % 2))
AtLeast(x, y) == IF x < y THEN y ELSE x
Clamp(x) == LET low == AtLeast(TruncTowardZero(x), MinTimeout)
            IN IF low > MaxTimeout THEN MaxTimeout ELSE low

\* A variant that passes what is declared through untouched.
WireTimeoutUnclamped(t) == t

(* normalizeToolTimeoutMs.                                                  *)
WireTimeout(t) == IF Finite(t) THEN Clamp(t) ELSE None

Descriptor(d) ==
  [input |-> Export(d.input), output |-> Export(d.output),
   timeout |-> WireTimeout(d.timeout), named |-> d.named]

(* isToolDescriptor, and the same rules in the native registry: the name,   *)
(* the description and the annotations are as they should be; a timeout is  *)
(* a positive whole number.                                                 *)
Passes(d) == d.named /\ (d.timeout = None \/ (Finite(d.timeout) /\ d.timeout % 2 = 0
                                              /\ d.timeout > 0))

-----------------------------------------------------------------------------
(* Assumed of the constants: bounds are whole milliseconds, definitions are *)
(* what their type allows, and no value is taken for its absence.           *)
ToolShapeConstants ==
  /\ \A x \in {MinTimeout, MaxTimeout, DefaultTimeout} : x \in Nat /\ x > 0 /\ x % 2 = 0
  /\ MinTimeout <= DefaultTimeout /\ DefaultTimeout <= MaxTimeout
  /\ Slack \in Nat \ {0}
  /\ MaxNotices \in Nat \ {0}
  /\ Timeouts \subseteq Int
  /\ Definitions \subseteq [input : Values \union {None}, output : Values \union {None},
                            timeout : Int \union {NaN, None}, named : BOOLEAN]
  /\ None \notin PlainSchemas \union Values
  /\ None \notin Int /\ NaN \notin Int
  /\ \A d \in Definitions : None \notin {d, Descriptor(d)}

-----------------------------------------------------------------------------
(* Registering.                                                             *)

Nothing == [t \in Tools |-> None]
Idle == [stage |-> "idle"]

ShapeInit ==
  /\ build \in {"dev", "release"}
  /\ entries = Nothing
  /\ refused = {}
  /\ descriptors = Nothing
  /\ warnedAbout = {}
  /\ hinted = {}
  /\ remembered = <<>>
  /\ printed = {}
  /\ catalog = Nothing
  /\ served = Idle
  /\ moves = 0

May == moves < MaxMoves /\ moves' = moves + 1

Shapeless(d) == {s \in Slots : d[s] # None /\ Export(d[s]) = None}
NotObjects(d) == {s \in Slots : Export(d[s]) \in PlainSchemas \ {"object", "odd"}}

\* A variant that warns once for a tool, whichever slot it is.
WarningsPerTool(t, d) ==
  IF \E s \in Slots : <<t, s>> \in warnedAbout THEN {}
  ELSE LET bad == Shapeless(d) IN IF bad = {} THEN {} ELSE {<<t, CHOOSE s \in bad : TRUE>>}

(* reportShapelessSchema outside a development build.                       *)
Warnings(t, d) == {t} \X Shapeless(d)

(* A value that is no schema throws, a shapeless slot throws in a           *)
(* development build, and native refuses a descriptor that is not           *)
(* well-formed: the previous registration stays.                            *)
Register(t, d) ==
  /\ May
  /\ \A s \in Slots : d[s] # None => Classifies(d[s])
  /\ build = "dev" => Shapeless(d) = {}
  /\ warnedAbout' = warnedAbout \union Warnings(t, d)
  /\ hinted' = hinted \union ({t} \X NotObjects(d))
  /\ IF Passes(Descriptor(d))
     THEN /\ entries' = [entries EXCEPT ![t] = d]
          /\ descriptors' = [descriptors EXCEPT ![t] = Descriptor(d)]
          /\ UNCHANGED refused
     ELSE refused' = refused \union {d} /\ UNCHANGED <<entries, descriptors>>
  /\ UNCHANGED <<build, remembered, printed, catalog, served>>

RegisterThrows(t, d) ==
  /\ May
  /\ \/ \E s \in Slots : d[s] # None /\ ~Classifies(d[s])
     \/ build = "dev" /\ Shapeless(d) # {}
  /\ UNCHANGED <<build, entries, refused, descriptors, warnedAbout, hinted, remembered, printed,
                 catalog, served>>

Unregister(t) ==
  /\ entries[t] # None
  /\ May
  /\ entries' = [entries EXCEPT ![t] = None]
  /\ descriptors' = [descriptors EXCEPT ![t] = None]
  /\ UNCHANGED <<build, refused, warnedAbout, hinted, remembered, printed, catalog, served>>

-----------------------------------------------------------------------------
(* The MCP server lists the tools: a schema the SDK refuses is replaced, or *)
(* dropped, with a notice that is remembered.                               *)

Rejected(schema) == schema \in {"odd", "other"}

\* A variant with the cheap check of the app.
EmitsByRoot(schema) == schema \in {"object", "odd"}

(* emitsMcpOutputSchema, which the result of a call goes by.                *)
Emits(schema) == schema # None /\ ~Rejected(schema)

Mapped(d) ==
  [input |-> IF Rejected(d.input) THEN None ELSE d.input,
   output |-> IF Rejected(d.output) THEN None ELSE d.output]

\* A variant that remembers the tool and the slot, not the schema.
KnowsByTool(known, n) == \E i \in DOMAIN known : known[i][1] = n[1] /\ known[i][2] = n[2]

Knows(known, n) == n \in ToSet(known)

(* warnOnce: a notice is printed unless it is remembered, and the oldest is *)
(* forgotten for it.                                                        *)
Due(known, n) == IF Rejected(n[3]) /\ ~Knows(known, n) THEN {n} ELSE {}
Warned(known, n) ==
  IF Due(known, n) = {} THEN known
  ELSE Append(IF Len(known) >= MaxNotices THEN Tail(known) ELSE known, n)

(* The output schema is mapped first, and the input schema knows of that.   *)
Map(t) ==
  LET output == <<t, "output", descriptors[t].output>>
      input == <<t, "input", descriptors[t].input>>
      known == Warned(remembered, output)
  IN /\ remembered' = Warned(known, input)
     /\ printed' = printed \union Due(remembered, output) \union Due(known, input)

(* Tools are listed one after the other; a list is as good as its entries.  *)
ListTool(t) ==
  /\ IF descriptors[t] = None
     THEN catalog' = [catalog EXCEPT ![t] = None] /\ UNCHANGED <<remembered, printed>>
     ELSE /\ catalog' = [catalog EXCEPT ![t] = [of |-> descriptors[t],
                                               shown |-> Mapped(descriptors[t])]]
          /\ Map(t)
  /\ UNCHANGED <<build, entries, refused, descriptors, warnedAbout, hinted, served, moves>>

-----------------------------------------------------------------------------
(* A call: the daemon's deadline, the caller's watchdog, the app's timer.   *)

CallTimeout(t) == IF Finite(t) THEN Clamp(t) ELSE DefaultTimeout

\* A variant sized from the default when the caller gives no timeout.
WatchdogFromDefault(t) == CallTimeout(t) + Slack

(* The watchdog of the SDK's client, which does not know the tool's         *)
(* timeout.                                                                 *)
Watchdog(t) == (IF Finite(t) THEN Clamp(t) ELSE MaxTimeout) + Slack

(* The MCP server sends the deadline of the descriptor it has just fetched, *)
(* the client library what its caller gave; the daemon's deadline is that   *)
(* or else the tool's.                                                      *)
Call(t, via, timeout) ==
  /\ served = Idle
  /\ descriptors[t] # None
  /\ May
  /\ LET d == descriptors[t]
         sent == IF via = "mcp" THEN CallTimeout(d.timeout) ELSE timeout
     IN served' = [stage |-> "sent", tool |-> t, via |-> via, given |-> timeout,
                   fetched |-> d, entry |-> None, result |-> None,
                   listed |-> catalog[t],
                   deadline |-> CallTimeout(IF sent # None THEN sent ELSE d.timeout),
                   watchdog |-> IF via = "mcp" THEN CallTimeout(sent) + Slack
                                ELSE Watchdog(timeout)]
  /\ UNCHANGED <<build, entries, refused, descriptors, warnedAbout, hinted, remembered, printed, catalog>>

(* The app looks the tool up: its slots and its timer are those registered  *)
(* now.                                                                     *)
AppTakes ==
  /\ served # Idle /\ served.stage = "sent"
  /\ served' = IF entries[served.tool] = None THEN Idle
               ELSE [served EXCEPT !.stage = "taken",
                                   !.entry = entries[served.tool]]
  /\ UNCHANGED <<build, entries, refused, descriptors, warnedAbout, hinted, remembered, printed,
                 catalog, moves>>

AppTimer == CallTimeout(WireTimeout(served.entry.timeout))

(* Arguments: none but {} for a tool without an input schema; whatever a    *)
(* raw schema says.                                                         *)
AcceptsArguments(v, args) == IF v = None THEN args = "empty" ELSE TRUE

(* What validateToolSchema may make of a value: the value for a raw schema, *)
(* anything its validator says for the others.                              *)
MayBecome(v, value) ==
  IF v = None THEN IF value = "undefined" THEN {"null"} ELSE {"refused"}
  ELSE IF Validated(v) THEN {"object", "list", "null", "refused"}
  ELSE {IF value = "undefined" THEN "null" ELSE value}

(* The handler runs and its result is validated and answered. The MCP       *)
(* server goes by the descriptor it fetched for the call.                   *)
Outcome(value) ==
  IF value = "refused" THEN "output_error"
  ELSE IF served.via # "mcp" \/ ~Emits(served.fetched.output)
  THEN IF value = "object" THEN "structured" ELSE "text"
  ELSE IF value = "object" THEN "structured" ELSE "mcp_output_error"

Answer ==
  /\ served # Idle /\ served.stage = "taken"
  /\ \E args \in {"empty", "object"} :
       \/ /\ ~AcceptsArguments(served.entry.input, args) \/ Validated(served.entry.input)
          /\ served' = [served EXCEPT !.stage = "over", !.result = "input_error"]
       \/ /\ AcceptsArguments(served.entry.input, args)
          /\ \E value \in {"object", "list", "undefined"} :
             \E made \in MayBecome(served.entry.output, value) :
               served' = [served EXCEPT !.stage = "over", !.result = Outcome(made)]
  /\ UNCHANGED <<build, entries, refused, descriptors, warnedAbout, hinted, remembered, printed,
                 catalog, moves>>

Forget ==
  /\ served # Idle /\ served.stage = "over"
  /\ served' = Idle
  /\ UNCHANGED <<build, entries, refused, descriptors, warnedAbout, hinted, remembered, printed,
                 catalog, moves>>

ShapeNext ==
  \/ \E t \in Tools :
       \/ \E d \in Definitions : Register(t, d) \/ RegisterThrows(t, d)
       \/ Unregister(t)
       \/ ListTool(t)
       \/ Call(t, "mcp", None)
       \/ \E timeout \in Timeouts \union {None} : Call(t, "client", timeout)
  \/ AppTakes
  \/ Answer
  \/ Forget

ShapeSpec == ShapeInit /\ [][ShapeNext]_shapeVars

-----------------------------------------------------------------------------
ShapeTypeOK ==
  /\ \A t \in Tools : entries[t] = None <=> descriptors[t] = None
  /\ warnedAbout \union hinted \subseteq Tools \X Slots
  /\ Len(remembered) <= MaxNotices
  /\ IsInjective(remembered)

(* A timeout the app declares, however odd, is no reason to refuse its      *)
(* tool: the daemon would close the session over a descriptor it does not   *)
(* accept, so that the value is clamped or left out.                        *)
OddTimeoutIsHarmless == \A d \in refused : ~d.named

(* No slot is left without a shape in silence: only a Standard Schema can   *)
(* be registered and publish none, outside a development build, and that    *)
(* slot has been warned about, the other slot's warning notwithstanding. A  *)
(* schema that is not rooted at an object has been hinted at.               *)
TroubleIsTold ==
  \A t \in Tools, s \in Slots :
    /\ entries[t] # None /\ entries[t][s] # None /\ descriptors[t][s] = None =>
         /\ build = "release" /\ <<t, s>> \in warnedAbout
         /\ entries[t][s].form \in {"standard", "converter"}
    /\ descriptors[t] # None /\ descriptors[t][s] = "other" => <<t, s>> \in hinted

(* Nor is a schema degraded in silence: when an MCP client is shown a tool  *)
(* without a schema it is registered with, that schema has been told of,    *)
(* however many others were told of and forgotten.                          *)
DegradedIsTold ==
  \A t \in Tools, s \in Slots :
    catalog[t] # None /\ catalog[t].shown[s] # catalog[t].of[s] =>
      <<t, s, catalog[t].of[s]>> \in printed

(* A result is structured where the client was shown an output schema, and  *)
(* no result is refused for a schema the client was not shown: the listing  *)
(* and the result go by one check, unless the tool was registered anew      *)
(* between the two.                                                         *)
ResultFitsListing ==
  served # Idle /\ served.stage = "over" /\ served.via = "mcp"
    /\ served.listed # None /\ served.listed.of = served.fetched =>
      /\ served.result = "text" => served.listed.shown.output = None
      /\ served.result = "mcp_output_error" => served.listed.shown.output # None

(* One deadline: the app's timer is the daemon's where the caller gave none *)
(* and the tool is still the one that was called, and the caller's watchdog *)
(* never goes off before the daemon's.                                      *)
OneDeadline ==
  served # Idle =>
    /\ served.watchdog > served.deadline
    /\ served.entry # None /\ served.given = None
         /\ WireTimeout(served.entry.timeout) = served.fetched.timeout =>
           AppTimer = served.deadline

(* Shapes and deadlines as a whole: an odd timeout does not cost the app    *)
(* its session, what is dropped on the way is told once to who can act on   *)
(* it, and app, daemon and agent agree on deadline and result.              *)
ShapesSound ==
  /\ ShapeTypeOK
  /\ OddTimeoutIsHarmless
  /\ TroubleIsTold
  /\ DegradedIsTold
  /\ ResultFitsListing
  /\ OneDeadline
=============================================================================
