--------------------------------- MODULE Users ---------------------------------
(***************************************************************************)
(* The users of the API server (cmd/api-server/auth, cmd/api-server/models *)
(* and cmd/api-server/middlewares): login, a change of the password, the   *)
(* check every other request begins with, and the two commands that create *)
(* the superuser and reset its password.  A request reads the user by its  *)
(* email, decides, and writes fields of the document by its id, without    *)
(* looking again.  A token carries the email only.  No code deletes or     *)
(* deactivates a user.  Cryptography is what it compares: a hash is the    *)
(* password it was made from and a salt nobody else has.                   *)
(***************************************************************************)
EXTENDS Naturals, FiniteSets

CONSTANTS Requests,         \* requests and commands under way at most
          Emails,
          Passwords,
          Strong,           \* the passwords a client may choose
          MaxUsers,         \* users ever inserted
          MaxSalts          \* hashes ever made

ASSUME BoundsAssumption == MaxUsers \in Nat /\ MaxSalts \in Nat
ASSUME StrongAssumption == Strong \subseteq Passwords

VARIABLES users,            \* the collection
          tokens,           \* the tokens that are valid
          request,          \* each request: what it does and what it has read
          salts,            \* hashes made
          retired           \* salts of the hashes that have been replaced

vars == <<users, tokens, request, salts, retired>>

Hash == [salt : 1 .. MaxSalts, password : Passwords]

\* Ids count the insertions; `since' is how many of them the lookup has seen.
User == [id : 1 .. MaxUsers, email : Emails, hash : Hash, lastLogin : BOOLEAN,
         since : 0 .. MaxUsers]

\* `account' is the user whose password was presented for the token, which the
\* token does not hold.
Token == [email : Emails, account : 1 .. MaxUsers]

Idle == [op |-> "none"]

\* `overlap': the user's password was written since it was read.
Request ==
    {Idle} \cup [op : {"login"}, read : User]
           \cup [op : {"serve"}, token : Token, id : 1 .. MaxUsers]
           \cup [op : {"change"}, token : Token, id : 1 .. MaxUsers, old : Passwords,
                 hash : Hash, overlap : BOOLEAN]
           \cup [op : {"reset"}, id : 1 .. MaxUsers, hash : Hash]
           \cup [op : {"create"}, email : Emails, hash : Hash, since : 0 .. MaxUsers]

TypeOK ==
    /\ users \subseteq User /\ Cardinality(users) <= MaxUsers
    /\ tokens \subseteq Token
    /\ request \in [Requests -> Request]
    /\ salts \in 0 .. MaxSalts /\ retired \subseteq 1 .. MaxSalts

Init ==
    /\ users = {} /\ tokens = {}
    /\ request = [r \in Requests |-> Idle]
    /\ salts = 0 /\ retired = {}

Goes(r, to) == request' = [request EXCEPT ![r] = to]

-----------------------------------------------------------------------------
\* A hash that no other is equal to.
GenerateRandomBytes == salts + 1
GenerateFromPassword(password) == [salt |-> GenerateRandomBytes, password |-> password]
Hashed == salts < MaxSalts /\ salts' = salts + 1

\* The parameters are decoded from the hash, and the password is hashed again.
decodeHash(hash) == hash.password
ComparePasswordAndHash(password, hash) == password = decodeHash(hash)

\* Any string may come out, those a client may not choose included.
GenerateRandomPassword == Passwords

\* Long enough, three kinds of characters, and the same twice.
ValidatePasswords(password) == password \in Strong

GenerateToken(user) == [email |-> user.email, account |-> user.id]
ValidateToken(token) == token \in tokens

\* FindOne: any of the users with the email.
GetByEmail(email) == {u \in users : u.email = email}

\* Mutant: $set of every user with the email of the one that was read.
UpdatePasswordByEmail(id, hash) ==
    \E user \in users :
        /\ user.id = id
        /\ users' = {IF u.email = user.email THEN [u EXCEPT !.hash = hash] ELSE u : u \in users}

\* $set of the password, whatever it is by now.
UpdatePassword(id, hash) ==
    users' = {IF u.id = id THEN [u EXCEPT !.hash = hash] ELSE u : u \in users}

\* Mutant: the whole user is written back as it was read.
UpdateLastLoginAtWhole(user) ==
    users' = {IF u.id = user.id THEN [user EXCEPT !.lastLogin = TRUE] ELSE u : u \in users}

\* $set of the last login and of nothing else.
UpdateLastLoginAt(user) ==
    users' = {IF u.id = user.id THEN [u EXCEPT !.lastLogin = TRUE] ELSE u : u \in users}

\* The history of a request's password write.
Retires(r, id) ==
    /\ retired' = retired \cup {u.hash.salt : u \in {v \in users : v.id = id}}
    /\ request' = [q \in Requests |->
          IF q = r THEN Idle
          ELSE IF request[q].op = "change" /\ request[q].id = id
                 THEN [request[q] EXCEPT !.overlap = TRUE] ELSE request[q]]

-----------------------------------------------------------------------------
\* Login reads and compares; a failure or a mismatch ends it.
LoginRead(r, user, password) ==
    /\ request[r] = Idle /\ ComparePasswordAndHash(password, user.hash)
    /\ Goes(r, [op |-> "login", read |-> user])
    /\ UNCHANGED <<users, tokens, salts, retired>>

\* A last login that cannot be stored does not keep the token back.
Login(r) ==
    /\ request[r].op = "login"
    /\ UpdateLastLoginAt(request[r].read) \/ UNCHANGED users
    /\ tokens' = tokens \cup {GenerateToken(request[r].read)}
    /\ Goes(r, Idle)
    /\ UNCHANGED <<salts, retired>>

\* The middleware of the users' routes: the user of a valid token.
CheckCurrentUser(token) == IF ValidateToken(token) THEN GetByEmail(token.email) ELSE {}

\* ChangePassword: the old password is compared with what the middleware has read.
ChangePasswordRead(r, token, old, password) ==
    /\ request[r] = Idle /\ ValidatePasswords(password)
    /\ \E user \in CheckCurrentUser(token) :
          /\ ComparePasswordAndHash(old, user.hash)
          /\ Goes(r, [op |-> "change", token |-> token, id |-> user.id, old |-> old,
                      hash |-> GenerateFromPassword(password), overlap |-> FALSE])
    /\ Hashed
    /\ UNCHANGED <<users, tokens, retired>>

ChangePassword(r) ==
    /\ request[r].op = "change"
    /\ UpdatePassword(request[r].id, request[r].hash) /\ Retires(r, request[r].id)
    /\ UNCHANGED <<tokens, salts>>

\* The middleware of all other routes, with the "local" strategy: the token is
\* validated, by the strategy once more, and the user is looked up.
ValidateUser(token) == CheckCurrentUser(token)
CheckAuthenticatedUser(r, token) ==
    /\ request[r] = Idle
    /\ \E user \in ValidateUser(token) :
          Goes(r, [op |-> "serve", token |-> token, id |-> user.id])
    /\ UNCHANGED <<users, tokens, salts, retired>>

TokenExpires(token) ==
    /\ tokens' = tokens \ {token}
    /\ UNCHANGED <<users, request, salts, retired>>

-----------------------------------------------------------------------------
\* The command `resetsuperuserpassword': a password is made, then the user is read.
ResetRead(r, user, password) ==
    /\ request[r] = Idle /\ Hashed
    /\ Goes(r, [op |-> "reset", id |-> user.id, hash |-> GenerateFromPassword(password)])
    /\ UNCHANGED <<users, tokens, retired>>

ResetSuperuserPassword(r) ==
    /\ request[r].op = "reset"
    /\ UpdatePassword(request[r].id, request[r].hash) /\ Retires(r, request[r].id)
    /\ UNCHANGED <<tokens, salts>>

\* Mutant: the email that was found is not refused.
CreateLookupIgnored(r, email, password) ==
    /\ request[r] = Idle /\ Hashed
    /\ Goes(r, [op |-> "create", email |-> email, since |-> Cardinality(users),
                hash |-> GenerateFromPassword(password)])
    /\ UNCHANGED <<users, tokens, retired>>

\* The command `createsuperuser': a lookup that finds the email refuses, any other
\* outcome, an error of the database included, goes on.
CreateLookup(r, email, password) ==
    /\ request[r] = Idle /\ Hashed
    /\ LET goes(n) == Goes(r, [op |-> "create", email |-> email, since |-> n,
                               hash |-> GenerateFromPassword(password)])
       IN  \/ GetByEmail(email) = {} /\ goes(Cardinality(users))
           \/ goes(0)
    /\ UNCHANGED <<users, tokens, retired>>

\* Mutant: the insertion is tried again although it was stored.
CreateUserTwice(r) ==
    /\ request[r].op = "create"
    /\ users' = users \cup {[id |-> Cardinality(users) + i, email |-> request[r].email,
                             hash |-> request[r].hash, lastLogin |-> FALSE,
                             since |-> request[r].since] : i \in 1 .. 2}
    /\ Goes(r, Idle)
    /\ UNCHANGED <<tokens, salts, retired>>

\* User.Create inserts the document; no index keeps the email unique.
CreateUser(r) ==
    /\ request[r].op = "create" /\ Cardinality(users) < MaxUsers
    /\ users' = users \cup {[id |-> Cardinality(users) + 1, email |-> request[r].email,
                             hash |-> request[r].hash, lastLogin |-> FALSE,
                             since |-> request[r].since]}
    /\ Goes(r, Idle)
    /\ UNCHANGED <<tokens, salts, retired>>

\* A request that was let through ends, or a call fails and the request with it,
\* before it has written.
End(r) ==
    /\ request[r] # Idle
    /\ Goes(r, Idle)
    /\ UNCHANGED <<users, tokens, salts, retired>>

Next ==
    \/ \E r \in Requests :
          \/ \E user \in users, password \in Passwords : LoginRead(r, user, password)
          \/ \E token \in tokens :
                \/ CheckAuthenticatedUser(r, token)
                \/ \E old, password \in Passwords : ChangePasswordRead(r, token, old, password)
          \/ \E user \in users, password \in GenerateRandomPassword : ResetRead(r, user, password)
          \/ \E email \in Emails, password \in GenerateRandomPassword : CreateLookup(r, email, password)
          \/ Login(r) \/ ChangePassword(r) \/ ResetSuperuserPassword(r) \/ CreateUser(r) \/ End(r)
    \/ \E token \in tokens : TokenExpires(token)

Spec == Init /\ [][Next]_vars

-----------------------------------------------------------------------------
\* A password that was replaced does not come back, although logins, changes and
\* resets that read the user before write to it after.
RetiredStaysRetired == \A u \in users : u.hash.salt \notin retired

\* A client replaces a password only if it has presented it, unless another
\* change or reset of the same user came between its reading and its writing:
\* then the older password is enough to undo a reset.
ChangeNeedsPassword ==
    [][\A r \in Requests :
          request[r].op = "change" /\ request'[r] = Idle /\ ~request[r].overlap =>
              \A u \in users \ users' : ComparePasswordAndHash(request[r].old, u.hash)]_vars

\* Whoever logs in acts as the user whose password was presented, although the
\* token names the email and each request looks it up again.  Only a creation
\* whose lookup overlapped another, or failed, makes one email lead to two users.
TokenActsAsItself ==
    \A r \in Requests :
        /\ request[r].op \in {"serve", "change"}
        /\ request[r].id # request[r].token.account
        => \E new, old \in users :
              /\ new.email = request[r].token.email /\ old.email = new.email
              /\ new.since < old.id /\ old.id < new.id
==============================================================================
