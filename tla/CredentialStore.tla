--------------------------- MODULE CredentialStore ---------------------------
(***************************************************************************)
(* The credentials of one profile (electron/credential-store.js): a cookie *)
(* and an account, kept in the root document if the operating system can   *)
(* encrypt them; else the cookie is kept in memory only.  The store of a   *)
(* profile lives as long as the process, also when the root is reloaded    *)
(* (createCredentialStore in electron/main.js).                            *)
(*                                                                         *)
(* Commits, reloads and crashes are the steps of RootStore, of whose       *)
(* document only the secrets of the profile are kept here.                 *)
(*                                                                         *)
(* Abstracted: sizes and encodings; a sealed cookie is the cookie, though  *)
(* it can be read only while the keyring is there; name and password of    *)
(* an account are one value.                                               *)
(***************************************************************************)
CONSTANTS Cookies, Accounts, None

ASSUME SecretAssumption == None \notin Cookies \cup Accounts

Secrets == [cookie : Cookies \cup {None}, account : Accounts \cup {None}]
NoSecrets == [cookie |-> None, account |-> None]
Unreadable == [unreadable |-> TRUE]   \* no document can be loaded from the file

VARIABLES
  up, root, disk, stable, locked,   \* RootStore: the secrets in the document
  keyring,          \* the operating system can encrypt and decrypt
  ephemeralCookie, cookieRevoked,   \* fields of CredentialStore
  \* Observed by the properties only: the cookies revoked by this process that
  \* no login has delivered again, whether a revocation waits for a durable
  \* commit, and the cookie that the last saveCookie reported as saved.
  dead, owed, reported

Store == INSTANCE RootStore WITH Fresh <- NoSecrets, open <- up, mem <- root

document == <<up, root, disk, stable, locked>>
memory == <<ephemeralCookie, cookieRevoked>>
observed == <<dead, owed, reported>>
vars == <<document, keyring, memory, observed>>

-----------------------------------------------------------------------------
\* getCookie: what the process itself would use
Cookie ==
  IF cookieRevoked THEN None
  ELSE IF ephemeralCookie # None THEN ephemeralCookie
  ELSE IF keyring THEN root.cookie ELSE None

\* _commit, up to commitSecrets: a revoked cookie leaves the document with
\* whatever is committed next.
Candidate(secrets, revoked) ==
  IF revoked THEN [secrets EXCEPT !.cookie = None] ELSE secrets

\* _commit returns: the candidate is durable.
Commits(candidate) ==
  /\ ~locked /\ locked' = FALSE
  /\ disk' = candidate
  /\ Store!Commit

\* _commit throws: the store is locked or locks itself, or nothing was written.
CommitThrows(candidate) ==
  \/ UNCHANGED document
  \/ /\ ~locked /\ locked' = TRUE
     /\ disk' \in {disk, candidate}
     /\ Store!CommitUncertain

-----------------------------------------------------------------------------
(* The operations.                                                         *)

\* saveCookie; without a keyring the document must not keep an older cookie.
SaveCookie(cookie) ==
  /\ up
  /\ LET sealed == IF keyring THEN cookie ELSE None
         candidate == Candidate([root EXCEPT !.cookie = sealed], cookieRevoked)
     IN \/ /\ Commits(candidate)
           /\ ephemeralCookie' = cookie /\ cookieRevoked' = FALSE
           /\ owed' = FALSE /\ reported' = sealed
        \/ CommitThrows(candidate) /\ reported' = None /\ UNCHANGED <<memory, owed>>
  /\ dead' = dead \ {cookie}
  /\ UNCHANGED keyring

\* Everything the store knows of is revoked.
Buried == dead \cup ({ephemeralCookie, root.cookie} \ {None})

\* A plausible error: the mark of the revocation is forgotten.
ClearCookieUnmarked ==
  /\ up
  /\ cookieRevoked' = FALSE /\ ephemeralCookie' = None
  /\ LET candidate == Candidate([root EXCEPT !.cookie = None], TRUE)
     IN \/ Commits(candidate) /\ owed' = FALSE
        \/ CommitThrows(candidate) /\ owed' = TRUE
  /\ dead' = Buried /\ reported' = None
  /\ UNCHANGED keyring

\* clearCookie: first in memory, then, if it can be, in the document.
ClearCookie ==
  /\ up
  /\ cookieRevoked' = TRUE /\ ephemeralCookie' = None
  /\ LET candidate == Candidate([root EXCEPT !.cookie = None], TRUE)
     IN \/ Commits(candidate) /\ owed' = FALSE
        \/ CommitThrows(candidate) /\ owed' = TRUE
  /\ dead' = Buried /\ reported' = None
  /\ UNCHANGED keyring

\* saveSso, and clearSso with no account; a password needs the keyring.
SaveSso(account) ==
  /\ up
  /\ account # None => keyring
  /\ LET candidate == Candidate([root EXCEPT !.account = account], cookieRevoked)
     IN \/ Commits(candidate) /\ owed' = FALSE
        \/ CommitThrows(candidate) /\ UNCHANGED owed
  /\ UNCHANGED <<keyring, memory, dead, reported>>

-----------------------------------------------------------------------------
(* The program and its surroundings.                                       *)

\* retryLoad of the settings store; the store of the profile stays.
Reload ==
  /\ \/ locked' = FALSE /\ Store!Reload
     \/ locked' = TRUE /\ Store!ReloadFails
  /\ UNCHANGED <<keyring, memory, observed>>

\* The program starts.  A cookie of an older version's settings that could not
\* be encrypted is kept in memory (takeMigratedCookie).
Start(migrated) ==
  /\ \/ locked' = FALSE /\ Store!Open
     \/ locked' = TRUE /\ Store!Open
  /\ migrated # None => disk = NoSecrets /\ ~keyring
  /\ ephemeralCookie' = migrated /\ cookieRevoked' = FALSE
  /\ dead' = {} /\ owed' = FALSE
  /\ UNCHANGED <<keyring, reported>>

\* The program ends, in order or not, or the power fails.
Down ==
  /\ up /\ up' = FALSE
  /\ root' = NoSecrets /\ locked' = FALSE
  /\ \/ Store!Crash /\ UNCHANGED disk
     \/ disk' = stable /\ Store!PowerLoss
  /\ ephemeralCookie' = None /\ cookieRevoked' = FALSE
  /\ dead' = {} /\ owed' = FALSE
  /\ UNCHANGED <<keyring, reported>>

\* The keyring of the operating system comes or goes.
Keyring ==
  /\ keyring' = ~keyring
  /\ UNCHANGED <<document, memory, observed>>

Init ==
  /\ disk \in Secrets /\ stable = disk
  /\ up = FALSE /\ root = NoSecrets /\ locked = FALSE
  /\ keyring \in BOOLEAN
  /\ ephemeralCookie = None /\ cookieRevoked = FALSE
  /\ dead = {} /\ owed = FALSE /\ reported = None

Next ==
  \/ \E cookie \in Cookies : SaveCookie(cookie)
  \/ ClearCookie
  \/ \E account \in Accounts \cup {None} : SaveSso(account)
  \/ Reload \/ Down \/ Keyring
  \/ \E migrated \in Cookies \cup {None} : Start(migrated)

Spec == Init /\ [][Next]_vars

-----------------------------------------------------------------------------
\* The shape of the state; outside the process nothing is remembered.
TypeOK ==
  /\ up \in BOOLEAN /\ locked \in BOOLEAN /\ keyring \in BOOLEAN
  /\ root \in Secrets /\ disk \in Secrets /\ stable \in Secrets
  /\ ephemeralCookie \in Cookies \cup {None} /\ cookieRevoked \in BOOLEAN
  /\ dead \subseteq Cookies /\ owed \in BOOLEAN
  /\ reported \in Cookies \cup {None}
  /\ cookieRevoked => ephemeralCookie = None

\* A revoked cookie is not used again by this process, whatever becomes of the
\* document: not after a failed or uncertain commit, a reload, a keyring that
\* comes back or a later login (clearCookie, getCookie, _commit).
RevokedStaysRevoked == Cookie \notin dead

\* Neither a restart nor a power loss brings a revoked cookie back once
\* anything at all has been committed since its revocation (_commit).
RevocationReachesDisk ==
  ~owed => disk.cookie \notin dead /\ stable.cookie \notin dead

\* Both: a revoked cookie is not used again, and a later start does not find it.
RevokedForGood == RevokedStaysRevoked /\ RevocationReachesDisk

\* README.md:131: the cookie is kept through the encryption of the operating
\* system.  What saveCookie has reported as saved is there for a restart,
\* until it is revoked or saved anew.
SavedCookieSurvives ==
  ~up /\ reported # None => disk.cookie = reported
=============================================================================
