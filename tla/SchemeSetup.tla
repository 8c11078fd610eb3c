---------------------------- MODULE SchemeSetup ----------------------------
(***************************************************************************)
(* Where the deep-link scheme comes from: `appduct init`, which records it  *)
(* (commands/init.ts), `appduct link`, which reads it (scheme.ts, link.ts), *)
(* and what both find in the files of the app (native-scheme.ts).           *)
(*                                                                          *)
(* The directory of the project lies in that of a repository, and that in   *)
(* the home directory. Each can hold .appduct/config.json. A file is what   *)
(* its reader makes of it: the scheme it declares, "bad" for one that the   *)
(* reader throws at, None for everything it passes over (no file, no such   *)
(* key, too large, binary). Developers edit the files between commands.     *)
(***************************************************************************)
EXTENDS Integers, FiniteSets, Sequences, SequencesExt

CONSTANTS
  Schemes,    \* the schemes that are legal
  Plists,     \* the Info.plist files that there may be, in the order of their paths
  Depth,      \* how far below the project each is
  Vendored,   \* those below Pods, build, node_modules and the like
  Asked,      \* what --scheme may be given
  Exported,   \* what APPDUCT_SCHEME may hold
  MaxMoves,   \* bound: commands and edits
  None        \* nothing declared

\* Assumed of the constants.
SetupConstants ==
  /\ {"bad", "garbage", "blocked", None} \intersect Schemes = {}
  /\ None \notin {"bad", "garbage", "blocked"}
  /\ Asked \subseteq Schemes \union {"bad", None}
  /\ Exported \subseteq Schemes \union {"bad", None}

VARIABLES
  configs,    \* .appduct/config.json of each directory
  sources,    \* the files of the app
  blessed,    \* history: the scheme init reported last for a directory, until its file is edited
  last,       \* the last command, None after an edit
  moves
setupVars == <<configs, sources, blessed, last, moves>>

-----------------------------------------------------------------------------
(* The directories from the innermost one outwards. The state directory is  *)
(* the .appduct of one of them.                                             *)

Tree == <<"project", "repo", "home">>
Above(cwd) == (CHOOSE i \in DOMAIN Tree : Tree[i] = cwd) - 1
Upwards(cwd) == SubSeq(Tree, Above(cwd) + 1, Len(Tree))
Dirs == Range(Tree)

(* globalConfigDirs.                                                        *)
Global(sd) == {"home", sd}

Gradles == <<"kts", "groovy">>
Filters == <<"view1", "view2">>
Sources == {"app.json", "yml"} \union Range(Gradles) \union Range(Filters) \union Range(Plists)

Contents == Schemes \union {"bad", None}

(* What a project's config.json may also be: not JSON or not an object, or  *)
(* a directory, or below a file called .appduct.                            *)
Configs == Contents \union {"garbage", "blocked"}

FirstOf(s) ==
  LET declared == {i \in DOMAIN s : s[i] # None}
  IN IF declared = {} THEN None ELSE s[Min(declared)]

-----------------------------------------------------------------------------
(* Discovery. Everything but the walk for Info.plist looks into the working *)
(* directory only, and the files of the app are the project's.              *)

At(cwd, s) == IF cwd = "project" THEN sources[s] ELSE None

MaxWalkDepth == 2
Level(cwd, i) == Depth[Plists[i]] + Above(cwd)

Nearer(i, j) ==
  \/ Depth[Plists[i]] < Depth[Plists[j]]
  \/ Depth[Plists[i]] = Depth[Plists[j]] /\ i < j

(* walkForFilename and probeIosInfoPlist: the nearest file that declares a  *)
(* scheme.                                                                  *)
InPlists(cwd) ==
  LET hits == {i \in DOMAIN Plists : /\ Plists[i] \notin Vendored
                                    /\ Level(cwd, i) <= MaxWalkDepth
                                    /\ sources[Plists[i]] # None}
  IN IF hits = {} THEN None
     ELSE sources[Plists[CHOOSE i \in hits : \A j \in hits \ {i} : Nearer(i, j)]]

(* What the probes say, and what discovery makes of it.                     *)
Said(cwd) ==
  {FirstOf([i \in DOMAIN Gradles |-> At(cwd, Gradles[i])]),
   FirstOf([i \in DOMAIN Filters |-> At(cwd, Filters[i])]),
   InPlists(cwd),
   At(cwd, "yml")} \ {None}

\* A variant in which one of the probes is believed.
NativeBelievesOne(cwd) ==
  CASE Said(cwd) = {} -> None
    [] "bad" \in Said(cwd) -> "bad"
    [] OTHER -> CHOOSE c \in Said(cwd) : TRUE

Native(cwd) ==
  CASE Said(cwd) = {} -> None
    [] "bad" \in Said(cwd) \/ Cardinality(Said(cwd)) > 1 -> "bad"
    [] OTHER -> CHOOSE c \in Said(cwd) : TRUE

Discovered(cwd) == FirstOf(<<At(cwd, "app.json"), Native(cwd)>>)

-----------------------------------------------------------------------------
(* resolveScheme, after the command loaded the state directory's config.    *)

(* readProjectConfigScheme, for a file that the walk came to.               *)
InProject(d) ==
  CASE configs[d] = "blocked" -> None
    [] configs[d] = "garbage" -> "bad"
    [] OTHER -> configs[d]

(* findProjectConfigs. A directory that it passes over says nothing.        *)
OnTheWay(cwd, sd) ==
  [i \in DOMAIN Upwards(cwd) |->
     IF Upwards(cwd)[i] \in Global(sd) THEN None ELSE InProject(Upwards(cwd)[i])]

InState(sd) == configs[sd]

(* loadConfig, which every command calls first. A missing file is one that  *)
(* sets nothing; one that cannot be read or parsed, or has a value of the   *)
(* wrong kind under any key it knows (that is "garbage" here), stops the    *)
(* command, while a key it does not know is passed over.                    *)
LoadFails(sd) == InState(sd) \in {"garbage", "blocked"}

\* A variant in which the state directory goes before the project.
AnswersStateFirst(cwd, flag, env, sd) ==
  <<flag, env, InState(sd)>> \o OnTheWay(cwd, sd) \o <<Discovered(cwd)>>

Answers(cwd, flag, env, sd) ==
  <<flag, env>> \o OnTheWay(cwd, sd) \o <<InState(sd), Discovered(cwd)>>

(* A scheme, "bad" for an error, None when there is none.                   *)
Resolved(cwd, flag, env, sd) ==
  IF LoadFails(sd) THEN "bad"
  ELSE FirstOf(Answers(cwd, flag, env, sd))

-----------------------------------------------------------------------------
SetupInit ==
  /\ configs = [d \in Dirs |-> None]
  /\ sources = [s \in Sources |-> None]
  /\ blessed = [d \in Dirs |-> None]
  /\ last = None
  /\ moves = 0

May == moves < MaxMoves /\ moves' = moves + 1

(* Somebody edits a file.                                                   *)
EditConfig(d, c) ==
  /\ May
  /\ configs' = [configs EXCEPT ![d] = c]
  /\ blessed' = [x \in Dirs |-> IF x = d THEN None ELSE blessed[x]]
  /\ last' = None
  /\ UNCHANGED sources

EditSource(s, c) ==
  /\ May
  /\ sources' = [sources EXCEPT ![s] = c]
  /\ last' = None
  /\ UNCHANGED <<configs, blessed>>

(* The scheme in the file, as far as init can keep it.                      *)
Recorded(d) == IF configs[d] \in Schemes THEN configs[d] ELSE None

(* The scheme init decides for.                                             *)
Chosen(cwd, asked, force) ==
  IF force THEN FirstOf(<<asked, Discovered(cwd), Recorded(cwd)>>)
  ELSE FirstOf(<<asked, Recorded(cwd), Discovered(cwd)>>)

(* Why init fails.                                                          *)
Refuses(cwd, asked, force, sd) ==
  \/ cwd \in Global(sd)
  \/ asked = "bad"
  \/ configs[cwd] \in {"garbage", "blocked"}
  \/ configs[cwd] = "bad" /\ ~force /\ asked = None
  \/ Discovered(cwd) = "bad"
  \/ Chosen(cwd, asked, force) = None
  \/ asked # None /\ Recorded(cwd) \notin {None, asked} /\ ~force

InitCommand(cwd, asked, force, sd) ==
  /\ May
  /\ last' = [command |-> "init", root |-> cwd, asked |-> asked, forced |-> force, under |-> sd,
              had |-> configs[cwd], ok |-> ~Refuses(cwd, asked, force, sd)]
  /\ IF last'.ok
     THEN /\ configs' = [configs EXCEPT ![cwd] = Chosen(cwd, asked, force)]
          /\ blessed' = [blessed EXCEPT ![cwd] = Chosen(cwd, asked, force)]
     ELSE UNCHANGED <<configs, blessed>>
  /\ UNCHANGED sources

(* mintLink, as far as the scheme goes: the one it opens a link with, or    *)
(* "bad".                                                                   *)
LinkCommand(cwd, flag, env, sd) ==
  /\ May
  /\ last' = [command |-> "link", root |-> cwd, asked |-> flag, env |-> env, under |-> sd,
              scheme |-> FirstOf(<<Resolved(cwd, flag, env, sd), "bad">>)]
  /\ UNCHANGED <<configs, sources, blessed>>

SetupNext ==
  \/ \E d \in Dirs, c \in Configs : EditConfig(d, c)
  \/ \E s \in Sources, c \in Contents : EditSource(s, c)
  \/ \E cwd \in Dirs, asked \in Asked, force \in BOOLEAN, sd \in Dirs :
       InitCommand(cwd, asked, force, sd)
  \/ \E cwd \in Dirs, flag \in Asked, env \in Exported, sd \in Dirs :
       LinkCommand(cwd, flag, env, sd)

SetupSpec == SetupInit /\ [][SetupNext]_setupVars

-----------------------------------------------------------------------------
SetupTypeOK ==
  /\ configs \in [Dirs -> Configs]
  /\ sources \in [Sources -> Contents]
  /\ blessed \in [Dirs -> Schemes \union {None}]
  /\ last = None \/ last.command = "init" \/ last.scheme \in Schemes \union {"bad"}

(* What init reported for a directory is what a link made from there uses,  *)
(* however app.json, the native files, the configs of the directories       *)
(* around it and the state directory's change in between, unless the        *)
(* command is told otherwise or given that very directory for its state; a  *)
(* state config that cannot be read fails the link (init.ts:218, scheme.ts: *)
(* 363).                                                                    *)
InitIsObeyed ==
  \A d, sd \in Dirs :
    blessed[d] # None /\ sd # d => Resolved(d, None, None, sd) \in {blessed[d], "bad"}

(* A usable scheme that is recorded for a project is not replaced by a run  *)
(* of init that was not forced, whatever it was asked for and whatever the  *)
(* files of the app say by now (init.ts:245).                               *)
RecordedStands ==
  [][\A d \in Dirs :
       last' # None /\ configs[d] \in Schemes /\ configs'[d] # configs[d]
         => last'.root = d /\ last'.forced]_setupVars

(* A link that nobody chose a scheme for is not opened when the files of    *)
(* the app name two, whatever was edited in which order. What app.json      *)
(* says, and what a config on the way or of the state directory says,       *)
(* counts as a choice; the home directory's config does only as the state   *)
(* directory's (native-scheme.ts:618, scheme.ts:235).                       *)
NeverGuesses ==
  last # None /\ last.command = "link" /\ last.scheme \in Schemes
    => LET configured == {configs[d] : d \in {last.under} \union (Range(Upwards(last.root)) \ {"home"})}
           choices == configured \union {last.asked, last.env, At(last.root, "app.json")}
       IN last.scheme \in choices \/ Said(last.root) = {last.scheme}

(* A re-run of init that asks for nothing keeps what is recorded and        *)
(* succeeds, whatever legal schemes the files of the app have come to       *)
(* declare (docs/ARCHITECTURE.md:508, init.ts:210).                         *)
RerunIsSafe ==
  last # None /\ last.command = "init" /\ last.had \in Schemes /\ last.asked = None /\ ~last.forced
    => \/ last.ok
       \/ last.root \in Global(last.under)
       \/ \E s \in Sources : sources[s] = "bad"

(* The scheme as a whole: what init reported is what links use, and no link *)
(* is opened with a guess.                                                  *)
SetupSound == SetupTypeOK /\ InitIsObeyed /\ NeverGuesses
=============================================================================
