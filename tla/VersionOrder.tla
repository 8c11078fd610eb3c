----------------------------- MODULE VersionOrder -----------------------------
(***************************************************************************)
(* compareVersions of rpc/client.ts and what the version check makes of    *)
(* it: DaemonHost has a number for a version, which is right if builds are *)
(* ordered.                                                                *)
(***************************************************************************)
EXTENDS Integers, Sequences

CONSTANTS
    Versions,   \* versions of clients and daemons, see IsVersion
    Longest,    \* bound of the reference order: no version has more numbers
    Largest     \* bound of the reference order: no identifier's rank is larger

VARIABLES
    own,        \* the version of this client's build
    other       \* the daemon's

versionVars == <<own, other>>

\* An identifier of a prerelease: a number, which may have been written with leading zeros,
\* or a word, by its rank among words.
Identifiers == [numeric : BOOLEAN, rank : Nat, zeros : Nat]

\* What parseVersion returns, build metadata dropped: a release has no prerelease, and what
\* is no version ("nightly") has no numbers.
IsVersion(v) == v.numbers \in Seq(Nat) /\ v.prerelease \in Seq(Identifiers)

\* Semver section 9: numeric identifiers have no leading zeros, and words have no use for
\* the field.
WellWritten(v) == \A i \in DOMAIN v.prerelease : v.prerelease[i].zeros = 0

\* Any finite set of versions has such bounds.
InBounds(v) ==
    Len(v.numbers) <= Longest /\ \A i \in DOMAIN v.prerelease : v.prerelease[i].rank <= Largest

VersionAssumption ==
    /\ Longest \in Nat /\ Largest \in Nat
    /\ \A v \in Versions : IsVersion(v) /\ WellWritten(v) /\ InBounds(v)

Parsed(v) == v.numbers # <<>>

-----------------------------------------------------------------------------
(* The code.                                                               *)

Least(S) == CHOOSE i \in S : \A j \in S : i <= j
Indices(s, t) == 1..(IF Len(s) < Len(t) THEN Len(t) ELSE Len(s))

CompareRanks(a, b) == IF a < b THEN -1 ELSE 1

\* A variant: identifiers are compared as words, "10" before "2".
CompareAsWords(a, b) ==
    IF a.numeric /\ b.numeric THEN CompareRanks(b.rank, a.rank)
    ELSE IF a.numeric = b.numeric THEN CompareRanks(a.rank, b.rank)
    ELSE IF a.numeric THEN -1 ELSE 1

CompareIdentifiers(a, b) ==
    IF a.numeric = b.numeric THEN CompareRanks(a.rank, b.rank)
    ELSE IF a.numeric THEN -1 ELSE 1

\* The loops end at the first identifier, and the first number, that differs; where one
\* side has no more, an identifier is larger and a number is compared with 0.
Differing(left, right) ==
    {i \in Indices(left, right) : i > Len(left) \/ i > Len(right) \/ left[i] # right[i]}
ComparePrerelease(left, right) ==
    LET i == Least(Differing(left, right))
    IN  IF Differing(left, right) = {} THEN 0
        ELSE IF i > Len(left) THEN -1
        ELSE IF i > Len(right) THEN 1
        ELSE CompareIdentifiers(left[i], right[i])

Number(s, i) == IF i <= Len(s) THEN s[i] ELSE 0
DifferingNumbers(s, t) == {i \in Indices(s, t) : Number(s, i) # Number(t, i)}

\* A prerelease comes before its release.
CompareVersions(a, b) ==
    LET i == Least(DifferingNumbers(a.numbers, b.numbers))
    IN  IF DifferingNumbers(a.numbers, b.numbers) # {}
            THEN CompareRanks(Number(a.numbers, i), Number(b.numbers, i))
        ELSE IF a.prerelease = <<>> /\ b.prerelease = <<>> THEN 0
        ELSE IF a.prerelease = <<>> THEN 1
        ELSE IF b.prerelease = <<>> THEN -1
        ELSE ComparePrerelease(a.prerelease, b.prerelease)

\* compareVersions is undefined where one is no version: then they differ, in no direction.
Ordered(a, b) == Parsed(a) /\ Parsed(b)
IsSameVersion(a, b) == a = b \/ (Ordered(a, b) /\ CompareVersions(a, b) = 0)

\* runVersionCheck: the client goes on to restart the daemon.
HasOutgrown(client, daemon) ==
    ~IsSameVersion(daemon, client) /\ Ordered(client, daemon) /\ CompareVersions(client, daemon) > 0

VersionInit == own \in Versions /\ other \in Versions
VersionSpec == VersionInit /\ [][UNCHANGED versionVars]_versionVars

-----------------------------------------------------------------------------
(* What semver section 11 says: a version as a sequence of numbers, in     *)
(* lexicographic order.                                                    *)

\* A release follows its prereleases; the end of a prerelease precedes any identifier, a
\* number any word.
Place(id) == 1 + id.rank + (IF id.numeric THEN 0 ELSE Largest + 1)
Key(v) ==
    [i \in 1..Longest |-> Number(v.numbers, i)]
    \o (IF v.prerelease = <<>> THEN <<2 * Largest + 4>>
        ELSE [i \in DOMAIN v.prerelease |-> Place(v.prerelease[i])] \o <<0>>)

Precedes(s, t) ==
    \E i \in DOMAIN s \intersect DOMAIN t : s[i] < t[i] /\ \A j \in 1..(i - 1) : s[j] = t[j]

\* The precedence is semver's (rpc/client.ts:176: "which a plain string compare gets wrong
\* in both directions"): a client restarts a daemon exactly if that one's version precedes
\* its own, and takes them for the same exactly if neither precedes the other.
AsSemver ==
    Ordered(own, other) =>
        /\ HasOutgrown(own, other) <=> Precedes(Key(other), Key(own))
        /\ IsSameVersion(own, other) <=> Key(own) = Key(other)

\* Two installs on one machine do not "take turns killing each other's daemon on every
\* command" (rpc/client.ts:901). It needs WellWritten: of rc.1 and rc.01 each is larger.
NoTurns == ~(HasOutgrown(own, other) /\ HasOutgrown(other, own))

VersionsSound == AsSemver /\ NoTurns
===============================================================================
