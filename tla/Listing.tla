------------------------------ MODULE Listing -------------------------------
(***************************************************************************)
(* The list of users, which a client reads page by page while profiles     *)
(* come, go and change their place in it, and the coming of profiles:      *)
(* with migration 003 for the users there are, with each login later, and  *)
(* not at all with a login at a server that is older than the feature.     *)
(*                                                                         *)
(* A request of the list changes nothing, so one client is enough.         *)
(***************************************************************************)
EXTENDS Integers, FiniteSets

CONSTANTS
    UserId,         \* users.id, numbered in the order of the ids
    Name,           \* display names, numbered in their order
    AccountName,    \* users.name of each user
    NoProfile,
    MaxInt,         \* the largest int (2^63 - 1)
    MaxPageSize,    \* the limit listUsers puts on page_size (100)
    Pages,          \* the pages clients begin with
    Sizes,          \* the page sizes they ask for
    MaxWrites       \* bound: writes of others

ASSUME ListingAssumption ==
    /\ UserId \subseteq Nat /\ IsFiniteSet(UserId)
    /\ Name \subseteq Nat
    /\ AccountName \in [UserId -> Name]
    /\ NoProfile \notin Name
    /\ MaxInt \in Nat \ {0}
    /\ Cardinality(UserId) <= MaxInt       \* COUNT(*) fits an int
    /\ MaxPageSize \in 1 .. MaxInt
    /\ Pages \subseteq Int /\ Sizes \subseteq Int
    /\ MaxWrites \in Nat

VARIABLES
    live,       \* users
    used,       \* every id that was given out
    migrated,   \* there is a table user_profiles
    name,       \* user_profiles.display_name, or NoProfile
    signing,    \* logins that have found or made their user, and no profile
    writes,
    pc,         \* the next step of the client's request, or its outcome
    page, size, \* the parameters of the request
    total,      \* what COUNT said
    items,      \* the users on the page
    first,      \* history: the page the client began with
    seen,       \* history: how often each user was listed
    steady,     \* history: who has kept one place since the client began
    left,       \* history: rows that have left a place since
    came,       \* history: rows that have come to a place since
    late,       \* history: those that came after the last COUNT, before its page
    settled     \* history: who has had a profile made since the migration

tables == <<live, used, migrated, name, signing, writes>>
client == <<pc, page, size, total, items, first, seen>>
moves == <<steady, left, came, late>>
vars == <<tables, client, moves, settled>>

TypeOK ==
    /\ live \subseteq used /\ used \subseteq UserId
    /\ migrated \in BOOLEAN
    /\ name \in [UserId -> Name \cup {NoProfile}]
    /\ signing \subseteq UserId
    /\ writes \in 0 .. MaxWrites
    /\ pc \in {"idle", "badRequest", "count", "page", "answered", "failed", "found", "notFound"}
    /\ page \in 1 .. MaxInt /\ size \in 1 .. MaxPageSize
    /\ total \in 0 .. Cardinality(UserId) /\ items \subseteq UserId
    /\ first \in 1 .. MaxInt
    /\ seen \in [UserId -> Nat]
    /\ steady \subseteq live /\ settled \subseteq used
    /\ {left, came, late} \subseteq Nat

\* An installation as migration 003 finds it, or leaves it.
Init ==
    /\ live \in SUBSET UserId /\ used = live
    /\ migrated \in BOOLEAN
    /\ name = [u \in UserId |-> IF migrated /\ u \in live THEN AccountName[u] ELSE NoProfile]
    /\ signing = {} /\ writes = 0
    /\ pc = "idle" /\ page = 1 /\ size = 1 /\ total = 0 /\ items = {}
    /\ first = 1 /\ seen = [u \in UserId |-> 0]
    /\ steady = {} /\ left = 0 /\ came = 0 /\ late = 0
    /\ settled = IF migrated THEN live ELSE {}

-----------------------------------------------------------------------------
(* The list.                                                               *)

\* users JOIN user_profiles
Listed == {u \in live : name[u] # NoProfile}

\* ORDER BY p.display_name ASC, u.id ASC
Before(u, v) == name[u] < name[v] \/ (name[u] = name[v] /\ u < v)

Rank(u) == Cardinality({v \in Listed : Before(v, u)})

\* An int in two's complement.
Wrap(n) == ((n + (MaxInt + 1)) % (2 * (MaxInt + 1))) - (MaxInt + 1)

\* Fault: pages count from 0.
OffsetFromZero(p, s) == Wrap(p * s)

Offset(p, s) == Wrap((p - 1) * s)

\* Fault: one row more than was asked for.
PageOfOneMore(offset, s) == {u \in Listed : Rank(u) \in offset .. offset + s}

\* LIMIT s OFFSET offset
PageAt(offset, s) == {u \in Listed : Rank(u) \in offset .. offset + s - 1}

-----------------------------------------------------------------------------
(* Requests.  Any of them may be answered 500, as may every query.         *)

\* Fault: page 0 is let in.
AcceptedFromZero(p, s, known) == p \in 0 .. MaxInt /\ s \in 1 .. MaxPageSize /\ known

\* Atoi and the limits of listUsers; known: the "fields" are list fields.
Accepted(p, s, known) == p \in 1 .. MaxInt /\ s \in 1 .. MaxPageSize /\ known

List(p, s, known) ==
    /\ pc = "idle"
    /\ \/ /\ Accepted(p, s, known)
          /\ pc' = "count"
          /\ page' = p /\ size' = s /\ first' = p
          /\ steady' = Listed
       \/ /\ ~ Accepted(p, s, known)
          /\ pc' = "badRequest"
          /\ UNCHANGED <<page, size, first, steady>>
    /\ UNCHANGED <<tables, total, items, seen, left, came, late, settled>>

\* SELECT COUNT(*), which fails without the table
Count ==
    /\ pc = "count"
    /\ \/ /\ migrated
          /\ total' = Cardinality(Listed)
          /\ late' = 0
          /\ pc' = "page"
       \/ pc' = "failed" /\ UNCHANGED <<total, late>>
    /\ UNCHANGED <<tables, page, size, items, first, seen, steady, left, came, settled>>

\* The query of the page, with a snapshot of its own.  A negative OFFSET is
\* an error to PostgreSQL.
Page ==
    /\ pc = "page"
    /\ LET offset == Offset(page, size) IN
       \/ /\ migrated /\ offset >= 0
          /\ items' = PageAt(offset, size)
          /\ seen' = [u \in UserId |-> IF u \in items' THEN seen[u] + 1 ELSE seen[u]]
          /\ pc' = "answered"
       \/ pc' = "failed" /\ UNCHANGED <<items, seen>>
    /\ UNCHANGED <<tables, page, size, total, first, moves, settled>>

\* The client asks on until it has come to the total.
AtEnd == pc = "answered" /\ page * size >= total

NextPage ==
    /\ pc = "answered" /\ ~ AtEnd
    /\ page' = page + 1
    /\ pc' = "count"
    /\ UNCHANGED <<tables, size, total, items, first, seen, moves, settled>>

\* getMyProfile, getUserProfile
GetProfile(u) ==
    /\ pc = "idle"
    /\ \/ /\ migrated
          /\ pc' = IF u \in Listed THEN "found" ELSE "notFound"
       \/ pc' = "failed"
    /\ items' = {u}
    /\ UNCHANGED <<tables, page, size, total, first, seen, moves, settled>>

-----------------------------------------------------------------------------
(* What the others do.                                                     *)

Walking == pc \in {"count", "page", "answered"}

\* The rows that leave their place and those that come to one.
Moves(gone, new) ==
    /\ steady' = steady \ gone
    /\ left' = IF Walking THEN left + Cardinality(gone) ELSE left
    /\ came' = IF Walking THEN came + Cardinality(new) ELSE came
    /\ late' = IF pc = "page" THEN late + Cardinality(new) ELSE late

Write == writes < MaxWrites /\ writes' = writes + 1

\* OAuthCallback or DevicePoll, at a server with the feature: the user, ...
Upsert(u) ==
    /\ Write
    /\ u \in live \/ u \notin used
    /\ live' = live \cup {u} /\ used' = used \cup {u}
    /\ signing' = signing \cup {u}
    /\ UNCHANGED <<migrated, name, client, moves, settled>>

\* ... and then its profile, if it has none.
EnsureProfile(u) ==
    /\ u \in signing /\ u \in live /\ migrated
    /\ signing' = signing \ {u}
    /\ settled' = settled \cup {u}
    /\ \/ /\ name[u] = NoProfile
          /\ name' = [name EXCEPT ![u] = AccountName[u]]
          /\ Moves({}, {u})
       \/ name[u] # NoProfile /\ UNCHANGED <<name, moves>>
    /\ UNCHANGED <<live, used, migrated, writes, client>>

\* No user or no table any more, or a server or a request that went away.
LoginFails(u) ==
    /\ u \in signing
    /\ signing' = signing \ {u}
    /\ UNCHANGED <<live, used, migrated, name, writes, client, moves, settled>>

\* A first login at a server without the feature.
LegacyLogin(u) ==
    /\ Write
    /\ u \notin used
    /\ live' = live \cup {u} /\ used' = used \cup {u}
    /\ UNCHANGED <<migrated, name, signing, client, moves, settled>>

\* updateMyProfile sets another display name.
Rename(u, n) ==
    /\ Write
    /\ u \in Listed /\ name[u] # n
    /\ name' = [name EXCEPT ![u] = n]
    /\ Moves({u}, {u})
    /\ UNCHANGED <<live, used, migrated, signing, client, settled>>

\* The operator's DELETE FROM users: ON DELETE CASCADE takes the profile.
DeleteUser(u) ==
    /\ Write
    /\ u \in live
    /\ live' = live \ {u}
    /\ name' = [name EXCEPT ![u] = NoProfile]
    /\ Moves(Listed \cap {u}, {})
    /\ UNCHANGED <<used, migrated, signing, client, settled>>

\* Fault: the migration makes the table and no more.
BackfillNobody == name

\* INSERT INTO user_profiles SELECT id, name FROM users
Backfill == [u \in UserId |-> IF u \in live THEN AccountName[u] ELSE NoProfile]

\* Migration 003, one transaction that keeps the writers of users out.
Migrate ==
    /\ Write
    /\ ~ migrated /\ migrated' = TRUE
    /\ name' = Backfill
    /\ settled' = live
    /\ Moves({}, live)
    /\ UNCHANGED <<live, used, signing, client>>

\* Migration 003 down drops the table.
Rollback ==
    /\ Write
    /\ migrated /\ migrated' = FALSE
    /\ name' = [u \in UserId |-> NoProfile]
    /\ settled' = {}
    /\ Moves(Listed, {})
    /\ UNCHANGED <<live, used, signing, client>>

Next ==
    \/ \E p \in Pages, s \in Sizes, known \in BOOLEAN : List(p, s, known)
    \/ Count \/ Page \/ NextPage
    \/ \E u \in UserId :
          \/ GetProfile(u)
          \/ Upsert(u) \/ EnsureProfile(u) \/ LoginFails(u) \/ LegacyLogin(u)
          \/ DeleteUser(u)
          \/ \E n \in Name : Rename(u, n)
    \/ Migrate \/ Rollback

Spec == Init /\ [][Next]_vars

-----------------------------------------------------------------------------
(* Properties.                                                             *)

WalkedThrough == AtEnd /\ first = 1

\* A client that reads the list from its first page to its last misses a user
\* who stayed in place only if somebody else left a place in front of them, or
\* came to one between the COUNT and the page of the last request: one user
\* for each such move, and none when nothing moves.
MissedOnlyWhenRowsMove ==
    WalkedThrough => Cardinality({u \in steady : seen[u] = 0}) <= left + late

\* One element for each time a user who stayed in place was listed again.
Repeats == UNION {{u} \X (2 .. seen[u]) : u \in steady}

\* It gets a user who stayed in place more than once only if others came, once
\* more for each.
RepeatedOnlyWhenRowsCome == WalkedThrough => Cardinality(Repeats) <= came

\* It gets everybody on the list exactly once if no row moved meanwhile
\* (docs/specs/FEATURE_user_profile/04_tests.md:73, PR-15), many of one name
\* or not.
UnmovedListIsReadOnce ==
    WalkedThrough /\ left = 0 /\ came = 0 => \A u \in Listed : seen[u] = 1

\* Nobody whose profile was made, by the migration or by a login that went
\* through since, is told that they have none (getMyProfile, getUserProfile).
SettledUsersAreFound ==
    [][pc = "idle" /\ pc' = "notFound" => items' \cap live \cap settled = {}]_vars

\* A page beyond the total is empty (docs/specs/FEATURE_user_profile/
\* 04_tests.md:72, PR-14), as long as nobody comes between COUNT and page.
PageBeyondTotalIsEmpty ==
    pc = "answered" /\ late = 0 /\ (page - 1) * size >= total => items = {}
=============================================================================
