------------------------- MODULE DummyAuthenticate -------------------------
(***************************************************************************)
(* The development authenticator of package security: Start loads the     *)
(* regular users and sync admins from dummy-auth.json, Authenticate       *)
(* classifies the app key of a request by splitting it on "/" and "@",    *)
(* and KeyandSecretForURL gives the app key this node sends to the CSS.   *)
(*                                                                         *)
(* An app key is a sequence of characters over a small alphabet that has  *)
(* the two separators; the users in the file are such sequences too.  The *)
(* splitting is modelled by what strings.Split does, and the result is    *)
(* checked against the key formats the comment of Authenticate states.    *)
(***************************************************************************)
EXTENDS Naturals, FiniteSets, Sequences, SequencesExt

CONSTANTS
    Letters,      \* the characters of names other than the separators
    FileUsers,    \* user names that dummy-auth.json may list
    MaxKeyLen,    \* longest app key checked
    NoAuth,       \* model value: the request carries no basic auth
    URLs,         \* URLs the node talks to
    CSSURLs,      \* those that start with common.HTTPCSSURL
    ConfigIDs     \* values of OrgID, DestinationType, DestinationID

Chars == Letters \cup {"/", "@"}
Str == BoundedSeq(Chars, MaxKeyLen)

ASSUME /\ FileUsers \subseteq Str /\ MaxKeyLen \in Nat
       /\ CSSURLs \subseteq URLs /\ ConfigIDs \subseteq Str
       /\ {"/", "@"} \cap Letters = {}

VARIABLES
    regularUsers,   \* auth.regularUsers, as a set: only membership is tested
    syncAdmins,     \* auth.syncAdmins
    started         \* Start has run

vars == <<regularUsers, syncAdmins, started>>

\* The zero DummyAuthenticate: both slices nil.
Init ==
    /\ regularUsers = {}
    /\ syncAdmins = {}
    /\ started = FALSE

\* Lines 28-49.  The file is missing or unreadable: regularUsers becomes
\* empty and syncAdmins is left as it was; it does not decode: both empty;
\* it decodes: both as listed (a missing field decodes to nil).
Start ==
    /\ ~started
    /\ started' = TRUE
    /\ \/ regularUsers' = {} /\ UNCHANGED syncAdmins
       \/ regularUsers' = {} /\ syncAdmins' = {}
       \/ \E r, s \in SUBSET FileUsers : regularUsers' = r /\ syncAdmins' = s

Next == Start

Spec == Init /\ [][Next]_vars

-----------------------------------------------------------------------------
\* strings.Split(s, sep): the pieces between the separators, one more
\* than the separators, so "" gives one empty piece.
RECURSIVE Split(_, _)
Split(s, sep) ==
    LET j == SelectInSeq(s, LAMBDA c : c = sep)
    IN IF j = 0 THEN <<s>>
       ELSE <<SubSeq(s, 1, j - 1)>> \o Split(SubSeq(s, j + 1, Len(s)), sep)

Slash == <<"/">>
At == <<"@">>

Result(code, org, id) == [code |-> code, org |-> org, id |-> id]
Failed == Result("AuthFailed", <<>>, <<>>)

\* Mutant of Authenticate: the sync admins are looked up before the
\* regular users.
AuthenticateAdminsFirst(appKey) ==
    IF appKey = NoAuth THEN Failed
    ELSE LET bySlash == Split(appKey, "/")
             parts == Split(appKey, "@")
             user == IF Len(parts) = 2 THEN parts[1] ELSE parts[1] \o At \o parts[2]
             org == parts[Len(parts)]
         IN CASE Len(bySlash) = 3 ->
                   Result("AuthEdgeNode", bySlash[1], bySlash[2] \o Slash \o bySlash[3])
              [] Len(parts) \notin {2, 3} -> Failed
              [] user \in syncAdmins -> Result("AuthSyncAdmin", <<>>, user)
              [] user \in regularUsers -> Result("AuthUser", org, user)
              [] OTHER -> Result("AuthAdmin", org, user)

\* Lines 62-97.  A key with two "/" is an edge node's; otherwise one
\* with one or two "@" is a user's, looked up in the regular users, then
\* in the sync admins.
Authenticate(appKey) ==
    IF appKey = NoAuth THEN Failed
    ELSE LET bySlash == Split(appKey, "/")
             parts == Split(appKey, "@")
             user == IF Len(parts) = 2 THEN parts[1] ELSE parts[1] \o At \o parts[2]
             org == parts[Len(parts)]
         IN CASE Len(bySlash) = 3 ->
                   Result("AuthEdgeNode", bySlash[1], bySlash[2] \o Slash \o bySlash[3])
              [] Len(parts) \notin {2, 3} -> Failed
              [] user \in regularUsers -> Result("AuthUser", org, user)
              [] user \in syncAdmins -> Result("AuthSyncAdmin", <<>>, user)
              [] OTHER -> Result("AuthAdmin", org, user)

\* Mutant of KeyandSecretForURL: the destination type is left out.
KeyandSecretForURLNoType(url, orgID, destType, destID) ==
    IF url \in CSSURLs THEN <<orgID \o Slash \o destID, <<>>>>
    ELSE <<<<>>, <<>>>>

\* Lines 102-108: the key this node presents to the CSS; none elsewhere.
KeyandSecretForURL(url, orgID, destType, destID) ==
    IF url \in CSSURLs THEN <<orgID \o Slash \o destType \o Slash \o destID, <<>>>>
    ELSE <<<<>>, <<>>>>

-----------------------------------------------------------------------------
TypeOK ==
    /\ regularUsers \subseteq FileUsers
    /\ syncAdmins \subseteq FileUsers
    /\ started \in BOOLEAN

\* The key formats of the comment of Authenticate, stated by the positions
\* of the separators: an edge node's key is orgID/destType/destID (exactly
\* two "/"); an API key is userID@orgID or email@emailDomain@orgID (one or
\* two "@"), the org after the last "@"; a user listed as regular is a
\* user of that org, one listed as sync admin is a sync admin of no org,
\* and any other is an admin of the org.  Every other key fails.
Positions(k, c) == {i \in 1..Len(k) : k[i] = c}

Documented(k) ==
    IF k = NoAuth THEN Failed
    ELSE LET sl == Positions(k, "/")
             at == Positions(k, "@")
         IN IF Cardinality(sl) = 2
            THEN LET i == Min(sl)
                 IN Result("AuthEdgeNode", SubSeq(k, 1, i - 1), SubSeq(k, i + 1, Len(k)))
            ELSE IF Cardinality(at) \in {1, 2}
            THEN LET p == Max(at)
                     user == SubSeq(k, 1, p - 1)
                     org == SubSeq(k, p + 1, Len(k))
                 IN IF user \in regularUsers THEN Result("AuthUser", org, user)
                    ELSE IF user \in syncAdmins THEN Result("AuthSyncAdmin", <<>>, user)
                    ELSE Result("AuthAdmin", org, user)
            ELSE Failed

\* Authenticate classifies every key of up to MaxKeyLen characters as its
\* comment says, before and after Start has loaded the users.
AuthenticateMatchesComment ==
    \A k \in Str \cup {NoAuth} : Authenticate(k) = Documented(k)

\* The key KeyandSecretForURL gives for a CSS URL authenticates, on the
\* CSS, as the edge node of this node's org with identity destType/destID,
\* for every configuration whose IDs contain no "/"; the empty key it
\* gives for any other URL authenticates as nobody.
SlashFree == {x \in ConfigIDs : ~Contains(x, "/")}

EssKeyIsItsNode ==
    \A url \in URLs, o, t, d \in SlashFree :
        LET auth == Authenticate(KeyandSecretForURL(url, o, t, d)[1])
        IN IF url \in CSSURLs THEN auth = Result("AuthEdgeNode", o, t \o Slash \o d)
           ELSE auth = Failed
=============================================================================
