----------------------------- MODULE UsersProofs -----------------------------
(***************************************************************************)
(* Safety of passwords and tokens, for any requests, emails and passwords, *)
(* and any number of users and hashes.                                     *)
(***************************************************************************)
EXTENDS Users, FiniteSetTheorems, FunctionTheorems, TLAPS

(***************************************************************************)
(* The inductive invariant.                                                *)
(***************************************************************************)
\* Ids count the insertions, and no two users have the same.
UsersCounted ==
    /\ IsFiniteSet(users)
    /\ \A u \in users : u.id <= Cardinality(users)
    /\ \A u, v \in users : u.id = v.id => u = v

HasUser(id, email) == \E u \in users : u.id = id /\ u.email = email

TokensNamed == \A token \in tokens : HasUser(token.account, token.email)

\* A user is younger than the lookup of its creation, and so than all that the
\* lookup would have found.
EmailsOverlap ==
    \A u, v \in users : u.email = v.email /\ v.id < u.id => u.since < v.id

\* What a request has read is still true: whom its token stands for, the password
\* it has compared unless that was written since, the emails its lookup missed.
Sound(q) ==
    /\ q.op = "login" => HasUser(q.read.id, q.read.email)
    /\ q.op \in {"serve", "change"} =>
          HasUser(q.token.account, q.token.email) /\ HasUser(q.id, q.token.email)
    /\ q.op = "change" /\ ~q.overlap => \A u \in users : u.id = q.id => u.hash.password = q.old
    /\ q.op = "create" =>
          /\ q.since <= Cardinality(users)
          /\ \A u \in users : u.email = q.email => q.since < u.id

RequestsSound == \A r \in Requests : Sound(request[r])

\* A request that is going to write a hash.
Writing(q) == q.op \in {"change", "reset", "create"}

\* Hashes in use, hashes about to be, and hashes that were replaced are different.
SaltsFresh ==
    /\ \A u \in users : u.hash.salt <= salts
    /\ \A u, v \in users : u.hash.salt = v.hash.salt => u.id = v.id
    /\ \A salt \in retired : salt <= salts
    /\ \A r \in Requests : Writing(request[r]) =>
          /\ request[r].hash.salt <= salts /\ request[r].hash.salt \notin retired
          /\ \A u \in users : u.hash.salt # request[r].hash.salt
    /\ \A q, r \in Requests :
          Writing(request[q]) /\ Writing(request[r]) /\ request[q].hash.salt = request[r].hash.salt => q = r

IndInv ==
    /\ TypeOK /\ UsersCounted /\ TokensNamed /\ EmailsOverlap /\ RequestsSound
    /\ SaltsFresh /\ RetiredStaysRetired

(***************************************************************************)
(* Facts about the records and the operators.                              *)
(***************************************************************************)
\* The fields of a request by its operation.
LEMMA RequestFields ==
  ASSUME NEW q \in Request
  PROVE  /\ q.op = "login" => q.read \in User
         /\ q.op \in {"serve", "change"} => q.token \in Token /\ q.id \in 1 .. MaxUsers
         /\ q.op = "change" =>
               /\ q.old \in Passwords
               /\ q \in [op : {"change"}, token : Token, id : 1 .. MaxUsers, old : Passwords,
                         hash : Hash, overlap : BOOLEAN]
         /\ q.op = "reset" => q.id \in 1 .. MaxUsers
         /\ q.op = "create" => q.email \in Emails /\ q.since \in 0 .. MaxUsers
         /\ Writing(q) => q.hash \in Hash
  <1>1. CASE q = Idle
    BY <1>1 DEF Idle, Writing
  <1>2. CASE q \in [op : {"login"}, read : User]
    BY <1>2 DEF Writing
  <1>3. CASE q \in [op : {"serve"}, token : Token, id : 1 .. MaxUsers]
    BY <1>3 DEF Writing
  <1>4. CASE q \in [op : {"change"}, token : Token, id : 1 .. MaxUsers, old : Passwords,
                    hash : Hash, overlap : BOOLEAN]
    BY <1>4 DEF Writing
  <1>5. CASE q \in [op : {"reset"}, id : 1 .. MaxUsers, hash : Hash]
    BY <1>5 DEF Writing
  <1>6. CASE q \in [op : {"create"}, email : Emails, hash : Hash, since : 0 .. MaxUsers]
    BY <1>6 DEF Writing
  <1>. QED
    BY <1>1, <1>2, <1>3, <1>4, <1>5, <1>6 DEF Request

\* An idle request does nothing and claims nothing.
LEMMA IdleRequest == Idle \in Request /\ Idle.op = "none" /\ Sound(Idle) /\ ~Writing(Idle)
  BY DEF Idle, Request, Sound, Writing

\* What a request's next step makes of the requests.
LEMMA GoesFields ==
  ASSUME TypeOK, NEW r \in Requests, NEW to \in Request, Goes(r, to)
  PROVE  /\ request' \in [Requests -> Request] /\ request'[r] = to
         /\ \A q \in Requests \ {r} : request'[q] = request[q]
  BY DEF TypeOK, Goes

\* $set of fields other than the id keeps the number of users and their ids.
LEMMA SameUsers ==
  ASSUME TypeOK, UsersCounted, NEW f \in [users -> User], \A u \in users : f[u].id = u.id,
         users' = {f[u] : u \in users}
  PROVE  UsersCounted' /\ Cardinality(users') = Cardinality(users) /\ users' \subseteq User
  <1>1. f \in [users -> users'] /\ \A v \in users' : \E u \in users : f[u] = v
    OBVIOUS
  <1>2. \A u, v \in users : f[u] = f[v] => u = v
    BY DEF UsersCounted
  <1>3. f \in Bijection(users, users')
    BY <1>1, <1>2, Fun_IsBij
  <1>4. IsFiniteSet(users') /\ Cardinality(users') = Cardinality(users)
    BY <1>3, FS_Bijection, Fun_ExistsBij DEF UsersCounted
  <1>5. \A v \in users' : v.id <= Cardinality(users')
    BY <1>1, <1>4 DEF UsersCounted
  <1>6. ASSUME NEW v \in users', NEW w \in users', v.id = w.id PROVE v = w
    BY <1>1, <1>6 DEF UsersCounted
  <1>. QED
    BY <1>1, <1>4, <1>5, <1>6 DEF UsersCounted

\* At first there are no users.
LEMMA InitInd == Init => IndInv
  <1> SUFFICES ASSUME Init PROVE IndInv
    OBVIOUS
  <1>1. /\ request \in [Requests -> Request]
        /\ \A r \in Requests : Sound(request[r]) /\ ~Writing(request[r])
    BY IdleRequest DEF Init
  <1>2. IsFiniteSet(users) /\ Cardinality(users) = 0
    BY FS_EmptySet DEF Init
  <1>3. TypeOK
    BY <1>1, <1>2, BoundsAssumption DEF Init, TypeOK
  <1>. QED
    BY <1>1, <1>2, <1>3 DEF Init, IndInv, UsersCounted, TokensNamed, EmailsOverlap, RequestsSound,
                           SaltsFresh, RetiredStaysRetired

(***************************************************************************)
(* The steps.                                                              *)
(***************************************************************************)
\* A request moves on without writing, perhaps with a hash nobody has.
LEMMA RequestStep ==
  ASSUME IndInv, NEW r \in Requests, NEW to \in Request, Goes(r, to), Sound(to),
         \/ UNCHANGED salts /\ ~Writing(to)
         \/ Hashed /\ Writing(to) /\ to.hash.salt = salts + 1,
         UNCHANGED <<users, tokens, retired>>
  PROVE  IndInv'
  <1>0. /\ TypeOK /\ UsersCounted /\ TokensNamed /\ EmailsOverlap /\ RequestsSound
        /\ SaltsFresh /\ RetiredStaysRetired
    BY DEF IndInv
  <1>1. /\ request' \in [Requests -> Request] /\ request'[r] = to
        /\ \A q \in Requests \ {r} : request'[q] = request[q]
    BY <1>0, GoesFields
  <1>2. salts \in 0 .. MaxSalts /\ salts' \in 0 .. MaxSalts /\ salts <= salts'
    BY <1>0, BoundsAssumption DEF TypeOK, Hashed
  <1>3. TypeOK'
    BY <1>0, <1>1, <1>2 DEF TypeOK
  <1>4. UsersCounted' /\ TokensNamed' /\ EmailsOverlap' /\ RetiredStaysRetired'
    BY <1>0 DEF UsersCounted, TokensNamed, HasUser, EmailsOverlap, RetiredStaysRetired
  <1>5. \A q : Sound(q)' <=> Sound(q)
    BY DEF Sound, HasUser
  <1>6. RequestsSound'
    BY <1>0, <1>1, <1>5 DEF RequestsSound
  <1>7. SaltsFresh'
    <2>1. \A u \in users : u.hash.salt \in 1 .. MaxSalts /\ u.hash.salt <= salts
      BY <1>0 DEF TypeOK, User, Hash, SaltsFresh
    <2>2. \A salt \in retired : salt \in 1 .. MaxSalts /\ salt <= salts
      BY <1>0 DEF TypeOK, SaltsFresh
    <2>3. ASSUME NEW q \in Requests, Writing(request[q])
          PROVE  request[q].hash.salt \in 1 .. MaxSalts /\ request[q].hash.salt <= salts
      BY <1>0, <2>3, RequestFields DEF TypeOK, Hash, SaltsFresh
    <2>4. CASE UNCHANGED salts /\ ~Writing(to)
      BY <1>0, <1>1, <2>4 DEF SaltsFresh
    <2>5. CASE Hashed /\ Writing(to) /\ to.hash.salt = salts + 1
      <3>1. salts' = salts + 1
        BY <2>5 DEF Hashed
      <3>2. \A u \in users : u.hash.salt <= salts' /\ u.hash.salt # to.hash.salt
        BY <1>2, <2>1, <2>5, <3>1
      <3>3. \A salt \in retired : salt <= salts' /\ salt # to.hash.salt
        BY <1>2, <2>2, <2>5, <3>1
      <3>4. \A q \in Requests : Writing(request[q]) =>
               request[q].hash.salt <= salts' /\ request[q].hash.salt # to.hash.salt
        BY <1>2, <2>3, <2>5, <3>1
      <3>5. to.hash.salt <= salts'
        BY <1>2, <2>5, <3>1
      <3>6. \A u, v \in users : u.hash.salt = v.hash.salt => u.id = v.id
        BY <1>0 DEF SaltsFresh
      <3>7. ASSUME NEW q \in Requests, Writing(request'[q])
            PROVE  /\ request'[q].hash.salt <= salts' /\ request'[q].hash.salt \notin retired
                   /\ \A u \in users : u.hash.salt # request'[q].hash.salt
        BY <1>0, <1>1, <3>2, <3>3, <3>4, <3>5, <3>7 DEF SaltsFresh
      <3>8. ASSUME NEW p \in Requests, NEW q \in Requests, Writing(request'[p]), Writing(request'[q]),
                   request'[p].hash.salt = request'[q].hash.salt
            PROVE  p = q
        BY <1>0, <1>1, <3>4, <3>8 DEF SaltsFresh
      <3>. QED
        BY <3>2, <3>3, <3>6, <3>7, <3>8 DEF SaltsFresh, Writing
    <2>. QED
      BY <2>4, <2>5
  <1>. QED
    BY <1>3, <1>4, <1>6, <1>7 DEF IndInv

\* The readings at the start of logins, checks, changes and commands, and the end
\* of a request that writes nothing.
LEMMA ReadInd ==
  ASSUME IndInv, NEW r \in Requests,
         \/ \E user \in users, password \in Passwords : LoginRead(r, user, password)
         \/ \E token \in tokens :
               \/ CheckAuthenticatedUser(r, token)
               \/ \E old, password \in Passwords : ChangePasswordRead(r, token, old, password)
         \/ \E user \in users, password \in Passwords : ResetRead(r, user, password)
         \/ \E email \in Emails, password \in Passwords : CreateLookup(r, email, password)
         \/ End(r)
  PROVE  IndInv'
  <1>0. /\ TypeOK /\ UsersCounted /\ TokensNamed
        /\ users \subseteq User /\ tokens \subseteq Token
    BY DEF IndInv, TypeOK
  <1>a. ASSUME Hashed PROVE \A password \in Passwords : GenerateFromPassword(password) \in Hash
                                /\ GenerateFromPassword(password).salt = salts + 1
    BY <1>0, <1>a, BoundsAssumption DEF TypeOK, Hashed, GenerateFromPassword, GenerateRandomBytes, Hash
  <1>1. ASSUME NEW user \in users, NEW password \in Passwords, LoginRead(r, user, password)
        PROVE  IndInv'
    <2> DEFINE to == [op |-> "login", read |-> user]
    <2>1. to \in Request /\ ~Writing(to)
      BY <1>0 DEF Request, Writing
    <2>2. Sound(to)
      BY DEF Sound, HasUser
    <2>3. Goes(r, to) /\ UNCHANGED <<users, tokens, salts, retired>>
      BY <1>1 DEF LoginRead
    <2> HIDE DEF to
    <2>. QED
      BY <2>1, <2>2, <2>3, RequestStep
  <1>2. ASSUME NEW token \in tokens, CheckAuthenticatedUser(r, token)
        PROVE  IndInv'
    <2>1. PICK user \in users :
             /\ user.email = token.email
             /\ Goes(r, [op |-> "serve", token |-> token, id |-> user.id])
      BY <1>2 DEF CheckAuthenticatedUser, ValidateUser, CheckCurrentUser, GetByEmail
    <2> DEFINE to == [op |-> "serve", token |-> token, id |-> user.id]
    <2>2. to \in Request /\ ~Writing(to)
      BY <1>0 DEF Request, Writing, User
    <2>3. Sound(to)
      BY <1>0, <2>1 DEF Sound, HasUser, TokensNamed
    <2>4. Goes(r, to) /\ UNCHANGED <<users, tokens, salts, retired>>
      BY <1>2, <2>1 DEF CheckAuthenticatedUser
    <2> HIDE DEF to
    <2>. QED
      BY <2>2, <2>3, <2>4, RequestStep
  <1>3. ASSUME NEW token \in tokens, NEW old \in Passwords, NEW password \in Passwords,
               ChangePasswordRead(r, token, old, password)
        PROVE  IndInv'
    <2>1. PICK user \in users :
             /\ user.email = token.email /\ user.hash.password = old
             /\ Goes(r, [op |-> "change", token |-> token, id |-> user.id, old |-> old,
                         hash |-> GenerateFromPassword(password), overlap |-> FALSE])
      BY <1>3 DEF ChangePasswordRead, CheckCurrentUser, GetByEmail, ComparePasswordAndHash, decodeHash
    <2> DEFINE to == [op |-> "change", token |-> token, id |-> user.id, old |-> old,
                      hash |-> GenerateFromPassword(password), overlap |-> FALSE]
    <2>2. Hashed /\ UNCHANGED <<users, tokens, retired>>
      BY <1>3 DEF ChangePasswordRead
    <2>3. /\ GenerateFromPassword(password) \in Hash
          /\ GenerateFromPassword(password).salt = salts + 1
      BY <1>a, <2>2
    <2>4. to \in Request
      BY <1>0, <2>3 DEF Request, User
    <2>5. Writing(to) /\ to.hash.salt = salts + 1
      BY <2>3 DEF Writing
    <2>6. Sound(to)
      BY <1>0, <2>1 DEF Sound, HasUser, TokensNamed, UsersCounted
    <2>7. Goes(r, to)
      BY <2>1
    <2> HIDE DEF to
    <2>. QED
      BY <2>2, <2>4, <2>5, <2>6, <2>7, RequestStep
  <1>4. ASSUME NEW user \in users, NEW password \in Passwords, ResetRead(r, user, password)
        PROVE  IndInv'
    <2> DEFINE to == [op |-> "reset", id |-> user.id, hash |-> GenerateFromPassword(password)]
    <2>1. Hashed /\ UNCHANGED <<users, tokens, retired>> /\ Goes(r, to)
      BY <1>4 DEF ResetRead
    <2>2. /\ GenerateFromPassword(password) \in Hash
          /\ GenerateFromPassword(password).salt = salts + 1
      BY <1>a, <2>1
    <2>3. to \in Request
      BY <1>0, <2>2 DEF Request, User
    <2>4. Writing(to) /\ to.hash.salt = salts + 1 /\ Sound(to)
      BY <2>2 DEF Writing, Sound
    <2> HIDE DEF to
    <2>. QED
      BY <2>1, <2>3, <2>4, RequestStep
  <1>5. ASSUME NEW email \in Emails, NEW password \in Passwords, CreateLookup(r, email, password)
        PROVE  IndInv'
    <2>1. PICK n : /\ Goes(r, [op |-> "create", email |-> email, since |-> n,
                               hash |-> GenerateFromPassword(password)])
                   /\ n = 0 \/ (n = Cardinality(users) /\ GetByEmail(email) = {})
      BY <1>5 DEF CreateLookup
    <2> DEFINE to == [op |-> "create", email |-> email, since |-> n,
                      hash |-> GenerateFromPassword(password)]
    <2>2. Hashed /\ UNCHANGED <<users, tokens, retired>>
      BY <1>5 DEF CreateLookup
    <2>3. /\ GenerateFromPassword(password) \in Hash
          /\ GenerateFromPassword(password).salt = salts + 1
      BY <1>a, <2>2
    <2>4. Cardinality(users) \in 0 .. MaxUsers
      BY <1>0, FS_CardinalityType, BoundsAssumption DEF TypeOK, UsersCounted
    <2>5. n \in 0 .. MaxUsers /\ n <= Cardinality(users)
      BY <2>1, <2>4, BoundsAssumption
    <2>6. \A u \in users : u.email = email => n < u.id
      BY <1>0, <2>1 DEF GetByEmail, User
    <2>7. to \in Request
      BY <2>3, <2>5 DEF Request
    <2>8. Writing(to) /\ to.hash.salt = salts + 1
      BY <2>3 DEF Writing
    <2>9. Sound(to)
      BY <2>5, <2>6 DEF Sound
    <2>10. Goes(r, to)
      BY <2>1
    <2> HIDE DEF to
    <2>. QED
      BY <2>2, <2>7, <2>8, <2>9, <2>10, RequestStep
  <1>6. CASE End(r)
    BY <1>6, IdleRequest, RequestStep DEF End
  <1>. QED
    BY <1>1, <1>2, <1>3, <1>4, <1>5, <1>6

\* A login stores its time, or fails to, and issues a token.
LEMMA LoginInd == ASSUME IndInv, NEW r \in Requests, Login(r) PROVE IndInv'
  <1>0. /\ TypeOK /\ UsersCounted /\ TokensNamed /\ EmailsOverlap /\ RequestsSound
        /\ SaltsFresh /\ RetiredStaysRetired
    BY DEF IndInv
  <1> DEFINE read == request[r].read
             f == [u \in users |-> IF u.id = read.id THEN [u EXCEPT !.lastLogin = TRUE] ELSE u]
  <1>1. /\ request[r].op = "login" /\ Goes(r, Idle) /\ UNCHANGED <<salts, retired>>
        /\ tokens' = tokens \cup {[email |-> read.email, account |-> read.id]}
        /\ users' = users \/ users' = {f[u] : u \in users}
    BY DEF Login, UpdateLastLoginAt, GenerateToken
  <1>2. read \in User
    BY <1>0, <1>1, RequestFields DEF TypeOK
  <1>3. \A u \in users : /\ f[u] \in User /\ f[u].id = u.id /\ f[u].email = u.email
                         /\ f[u].since = u.since /\ f[u].hash = u.hash
    BY <1>0 DEF TypeOK, User
  <1>4. f \in [users -> User]
    BY <1>3
  <1>5. /\ \A v \in users' : \E u \in users : /\ v.id = u.id /\ v.email = u.email
                                              /\ v.since = u.since /\ v.hash = u.hash
        /\ \A u \in users : \E v \in users' : v.id = u.id /\ v.email = u.email
    <2>1. CASE users' = users
      BY <2>1
    <2>2. CASE users' = {f[u] : u \in users}
      <3>1. \A v \in users' : \E u \in users : v = f[u]
        BY <2>2
      <3>2. \A u \in users : f[u] \in users'
        BY <2>2
      <3> HIDE DEF f
      <3>. QED
        BY <1>3, <3>1, <3>2
    <2>. QED
      BY <1>1, <2>1, <2>2
  <1>6. UsersCounted' /\ Cardinality(users') = Cardinality(users) /\ users' \subseteq User
    <2>1. CASE users' = users
      BY <1>0, <2>1 DEF UsersCounted, TypeOK
    <2>2. CASE users' = {f[u] : u \in users}
      <3> HIDE DEF f
      <3>. QED
        BY <1>0, <1>3, <1>4, <2>2, SameUsers
    <2>. QED
      BY <1>1, <2>1, <2>2
  <1> HIDE DEF f
  <1>7. /\ request' \in [Requests -> Request]
        /\ \A q \in Requests : request'[q] \in {request[q], Idle}
    BY <1>0, <1>1, GoesFields, IdleRequest
  <1>8. \A id, email : HasUser(id, email) => HasUser(id, email)'
    BY <1>5 DEF HasUser
  <1>9. TypeOK'
    <2>1. tokens' \subseteq Token
      BY <1>0, <1>1, <1>2 DEF TypeOK, Token, User
    <2>. QED
      BY <1>0, <1>1, <1>6, <1>7, <2>1 DEF TypeOK
  <1>10. TokensNamed'
    <2>1. HasUser(read.id, read.email)
      BY <1>0, <1>1 DEF RequestsSound, Sound
    <2>. QED
      BY <1>0, <1>1, <1>8, <2>1 DEF TokensNamed
  <1>11. EmailsOverlap'
    BY <1>0, <1>5 DEF EmailsOverlap
  <1>12. RequestsSound'
    <2>1. \A q : Sound(q) => Sound(q)'
      BY <1>5, <1>6, <1>8 DEF Sound
    <2>. QED
      BY <1>0, <1>7, <2>1, IdleRequest DEF RequestsSound
  <1>13. SaltsFresh'
    <2>1. /\ \A v \in users' : v.hash.salt <= salts'
          /\ \A salt \in retired' : salt <= salts'
      BY <1>0, <1>1, <1>5 DEF SaltsFresh
    <2>2. ASSUME NEW v \in users', NEW w \in users', v.hash.salt = w.hash.salt PROVE v.id = w.id
      BY <1>0, <1>5, <2>2 DEF SaltsFresh
    <2>3. ASSUME NEW q \in Requests, Writing(request'[q])
          PROVE  /\ request'[q] = request[q]
                 /\ request'[q].hash.salt <= salts' /\ request'[q].hash.salt \notin retired'
                 /\ \A v \in users' : v.hash.salt # request'[q].hash.salt
      <3>1. request'[q] = request[q] /\ Writing(request[q])
        BY <1>7, <2>3, IdleRequest
      <3>. QED
        BY <1>0, <1>1, <1>5, <3>1 DEF SaltsFresh
    <2>4. ASSUME NEW p \in Requests, NEW q \in Requests, Writing(request'[p]), Writing(request'[q]),
                 request'[p].hash.salt = request'[q].hash.salt
          PROVE  p = q
      BY <1>0, <2>3, <2>4 DEF SaltsFresh
    <2>. QED
      BY <2>1, <2>2, <2>3, <2>4 DEF SaltsFresh, Writing
  <1>14. RetiredStaysRetired'
    BY <1>0, <1>1, <1>5 DEF RetiredStaysRetired
  <1>. QED
    BY <1>6, <1>9, <1>10, <1>11, <1>12, <1>13, <1>14 DEF IndInv

\* A change or a reset writes the password of one user, and retires the old one.
LEMMA WriteInd ==
  ASSUME IndInv, NEW r \in Requests, ChangePassword(r) \/ ResetSuperuserPassword(r)
  PROVE  IndInv'
  <1>0. /\ TypeOK /\ UsersCounted /\ TokensNamed /\ EmailsOverlap /\ RequestsSound
        /\ SaltsFresh /\ RetiredStaysRetired
    BY DEF IndInv
  <1> DEFINE id == request[r].id
             hash == request[r].hash
             f == [u \in users |-> IF u.id = id THEN [u EXCEPT !.hash = hash] ELSE u]
  <1>1. /\ request[r].op \in {"change", "reset"} /\ UNCHANGED <<tokens, salts>>
        /\ users' = {f[u] : u \in users} /\ Retires(r, id)
    BY DEF ChangePassword, ResetSuperuserPassword, UpdatePassword
  <1>2. id \in 1 .. MaxUsers /\ hash \in Hash /\ Writing(request[r])
    BY <1>0, <1>1, RequestFields DEF TypeOK, Writing
  <1>3. \A u \in users : /\ f[u] \in User /\ f[u].id = u.id /\ f[u].email = u.email
                         /\ f[u].since = u.since
                         /\ f[u].hash = IF u.id = id THEN hash ELSE u.hash
    BY <1>0, <1>2 DEF TypeOK, User
  <1>4. f \in [users -> User]
    BY <1>3
  <1>5. (\A v \in users' : \E u \in users : v = f[u]) /\ (\A u \in users : f[u] \in users')
    BY <1>1
  <1> HIDE DEF f
  <1>6. /\ \A v \in users' : \E u \in users : /\ v.id = u.id /\ v.email = u.email /\ v.since = u.since
                                              /\ v.hash = IF u.id = id THEN hash ELSE u.hash
        /\ \A u \in users : \E v \in users' : v.id = u.id /\ v.email = u.email
    BY <1>3, <1>5
  <1>7. UsersCounted' /\ Cardinality(users') = Cardinality(users) /\ users' \subseteq User
    BY <1>0, <1>1, <1>3, <1>4, SameUsers
  <1>8. \A i, email : HasUser(i, email) => HasUser(i, email)'
    BY <1>6 DEF HasUser
  <1>9. retired' = retired \cup {u.hash.salt : u \in {v \in users : v.id = id}}
    BY <1>1 DEF Retires
  <1>10. request'[r] = Idle /\ \A q \in Requests \ {r} : request'[q] =
            IF request[q].op = "change" /\ request[q].id = id
              THEN [request[q] EXCEPT !.overlap = TRUE] ELSE request[q]
    BY <1>1 DEF Retires
  <1>11. ASSUME NEW q \in Requests \ {r}, request[q].op = "change", request[q].id = id
         PROVE  /\ request'[q] \in Request /\ request'[q].overlap /\ request'[q].op = "change"
                /\ request'[q].token = request[q].token /\ request'[q].id = request[q].id
                /\ request'[q].hash = request[q].hash
    <2>1. request[q] \in [op : {"change"}, token : Token, id : 1 .. MaxUsers, old : Passwords,
                          hash : Hash, overlap : BOOLEAN]
      BY <1>0, <1>11, RequestFields DEF TypeOK
    <2>2. request'[q] = [request[q] EXCEPT !.overlap = TRUE]
      BY <1>10, <1>11
    <2>. QED
      BY <2>1, <2>2 DEF Request
  <1>12. request' \in [Requests -> Request]
    <2>1. DOMAIN request' = Requests /\ request' = [q \in Requests |-> request'[q]]
      BY <1>1 DEF Retires
    <2>2. \A q \in Requests : request'[q] \in Request
      BY <1>0, <1>10, <1>11, IdleRequest DEF TypeOK
    <2>. QED
      BY <2>1, <2>2
  <1>13. TypeOK'
    <2>1. retired' \subseteq 1 .. MaxSalts
      BY <1>0, <1>9 DEF TypeOK, User, Hash
    <2>. QED
      BY <1>0, <1>1, <1>7, <1>12, <2>1 DEF TypeOK
  <1>14. TokensNamed'
    BY <1>0, <1>1, <1>8 DEF TokensNamed
  <1>15. EmailsOverlap'
    BY <1>0, <1>6 DEF EmailsOverlap
  <1>16. RequestsSound'
    <2> SUFFICES ASSUME NEW q \in Requests PROVE Sound(request[q])'
      BY DEF RequestsSound
    <2>0. CASE q = r
      BY <1>10, <2>0 DEF Sound, Idle
    <2>1. Sound(request[q])
      BY <1>0 DEF RequestsSound
    <2>2. CASE q # r /\ request[q].op = "change" /\ request[q].id = id
      BY <1>8, <1>11, <2>1, <2>2 DEF Sound
    <2>3. CASE q # r /\ ~(request[q].op = "change" /\ request[q].id = id)
      <3>1. request'[q] = request[q]
        BY <1>10, <2>3
      <3>2. request[q].op = "change" /\ ~request[q].overlap =>
               \A v \in users' : v.id = request[q].id => v.hash.password = request[q].old
        BY <1>6, <2>1, <2>3 DEF Sound
      <3>3. request[q].op = "create" =>
               /\ request[q].since <= Cardinality(users')
               /\ \A v \in users' : v.email = request[q].email => request[q].since < v.id
        BY <1>6, <1>7, <2>1 DEF Sound
      <3>. QED
        BY <1>8, <2>1, <3>1, <3>2, <3>3 DEF Sound
    <2>. QED
      BY <2>0, <2>2, <2>3
  <1>17. ASSUME NEW q \in Requests, Writing(request'[q])
         PROVE  q # r /\ Writing(request[q]) /\ request'[q].hash = request[q].hash
    BY <1>10, <1>11, <1>17, IdleRequest DEF Writing
  <1>18. /\ hash.salt <= salts /\ hash.salt \notin retired
         /\ \A u \in users : u.hash.salt # hash.salt
         /\ \A q \in Requests \ {r} : Writing(request[q]) => request[q].hash.salt # hash.salt
    BY <1>0, <1>2 DEF SaltsFresh
  <1>19. \A salt \in retired' : salt \in retired \/ \E u \in users : u.id = id /\ u.hash.salt = salt
    BY <1>9
  <1> HIDE DEF id, hash
  <1>20. RetiredStaysRetired'
    <2> SUFFICES ASSUME NEW v \in users' PROVE v.hash.salt \notin retired'
      BY DEF RetiredStaysRetired
    <2>1. PICK u \in users : v.hash = IF u.id = id THEN hash ELSE u.hash
      BY <1>6
    <2>2. CASE u.id = id
      BY <1>18, <1>19, <2>1, <2>2
    <2>3. CASE u.id # id
      BY <1>0, <1>19, <2>1, <2>3 DEF RetiredStaysRetired, SaltsFresh
    <2>. QED
      BY <2>2, <2>3
  <1>21. SaltsFresh'
    <2>1. \A v \in users' : v.hash.salt <= salts'
      BY <1>0, <1>1, <1>6, <1>18 DEF SaltsFresh
    <2>2. \A salt \in retired' : salt <= salts'
      BY <1>0, <1>1, <1>19 DEF SaltsFresh
    <2>3. ASSUME NEW v \in users', NEW w \in users', v.hash.salt = w.hash.salt PROVE v.id = w.id
      BY <1>0, <1>6, <1>18, <2>3 DEF SaltsFresh
    <2>4. ASSUME NEW q \in Requests, Writing(request'[q])
          PROVE  /\ request'[q].hash.salt <= salts' /\ request'[q].hash.salt \notin retired'
                 /\ \A v \in users' : v.hash.salt # request'[q].hash.salt
      <3>1. q # r /\ Writing(request[q]) /\ request'[q].hash = request[q].hash
        BY <1>17, <2>4
      <3>2. /\ request[q].hash.salt <= salts /\ request[q].hash.salt \notin retired
            /\ \A u \in users : u.hash.salt # request[q].hash.salt
        BY <1>0, <3>1 DEF SaltsFresh
      <3>3. request[q].hash.salt # hash.salt
        BY <1>18, <3>1
      <3>4. request[q].hash.salt \notin retired'
        BY <1>19, <3>2
      <3>5. \A v \in users' : v.hash.salt # request[q].hash.salt
        BY <1>6, <3>2, <3>3
      <3>. QED
        BY <1>1, <3>1, <3>2, <3>4, <3>5
    <2>5. ASSUME NEW p \in Requests, NEW q \in Requests, Writing(request'[p]), Writing(request'[q]),
                 request'[p].hash.salt = request'[q].hash.salt
          PROVE  p = q
      BY <1>0, <1>17, <2>5 DEF SaltsFresh
    <2>. QED
      BY <2>1, <2>2, <2>3, <2>4, <2>5 DEF SaltsFresh, Writing
  <1>. QED
    BY <1>7, <1>13, <1>14, <1>15, <1>16, <1>20, <1>21 DEF IndInv

\* A user is inserted, under the next id, and with the hash that was made for it.
LEMMA CreateInd == ASSUME IndInv, NEW r \in Requests, CreateUser(r) PROVE IndInv'
  <1>0. /\ TypeOK /\ UsersCounted /\ TokensNamed /\ EmailsOverlap /\ RequestsSound
        /\ SaltsFresh /\ RetiredStaysRetired
    BY DEF IndInv
  <1> DEFINE n == Cardinality(users)
             q0 == request[r]
             new == [id |-> n + 1, email |-> q0.email, hash |-> q0.hash, lastLogin |-> FALSE,
                     since |-> q0.since]
  <1>1. /\ q0.op = "create" /\ n < MaxUsers /\ users' = users \cup {new} /\ Goes(r, Idle)
        /\ UNCHANGED <<tokens, salts, retired>>
    BY DEF CreateUser
  <1>2. q0.email \in Emails /\ q0.since \in 0 .. MaxUsers /\ q0.hash \in Hash /\ Writing(q0)
    BY <1>0, <1>1, RequestFields DEF TypeOK, Writing
  <1>3. n \in Nat /\ IsFiniteSet(users)
    BY <1>0, FS_CardinalityType DEF UsersCounted
  <1>4. new \in User
    BY <1>1, <1>2, <1>3, BoundsAssumption DEF User
  <1>5. new.id = n + 1 /\ new.email = q0.email /\ new.hash = q0.hash /\ new.since = q0.since
    OBVIOUS
  <1>6. /\ q0.since <= n
        /\ \A u \in users : u.email = q0.email => q0.since < u.id
    BY <1>0, <1>1 DEF RequestsSound, Sound
  <1>7. \A u \in users : u.id \in 1 .. MaxUsers /\ u.id <= n /\ u.id < n + 1
    BY <1>0, <1>3 DEF UsersCounted, TypeOK, User
  <1> HIDE DEF new
  <1>8. new \notin users
    BY <1>3, <1>5, <1>7
  <1>9. IsFiniteSet(users') /\ Cardinality(users') = n + 1
    BY <1>1, <1>3, <1>8, FS_AddElement
  <1>10. /\ request' \in [Requests -> Request] /\ request'[r] = Idle
         /\ \A q \in Requests \ {r} : request'[q] = request[q]
    BY <1>0, <1>1, GoesFields, IdleRequest
  <1> HIDE DEF n
  <1>11. TypeOK'
    BY <1>0, <1>1, <1>3, <1>4, <1>9, <1>10, BoundsAssumption DEF TypeOK
  <1>12. UsersCounted'
    <2>1. \A u \in users' : u.id <= Cardinality(users')
      BY <1>1, <1>3, <1>5, <1>7, <1>9
    <2>2. ASSUME NEW u \in users', NEW v \in users', u.id = v.id PROVE u = v
      BY <1>0, <1>1, <1>3, <1>5, <1>7, <2>2 DEF UsersCounted
    <2>. QED
      BY <1>9, <2>1, <2>2 DEF UsersCounted
  <1>13. \A id, email : HasUser(id, email) => HasUser(id, email)'
    BY <1>1 DEF HasUser
  <1>14. TokensNamed'
    BY <1>0, <1>1, <1>13 DEF TokensNamed
  <1>15. EmailsOverlap'
    <2> SUFFICES ASSUME NEW u \in users', NEW v \in users', u.email = v.email, v.id < u.id
                 PROVE  u.since < v.id
      BY DEF EmailsOverlap
    <2>1. CASE u \in users /\ v \in users
      BY <1>0, <2>1 DEF EmailsOverlap
    <2>2. CASE u = new /\ v \in users
      BY <1>5, <1>6, <2>2
    <2>3. CASE v = new
      BY <1>1, <1>3, <1>5, <1>7, <2>3
    <2>. QED
      BY <1>1, <2>1, <2>2, <2>3
  <1>16. RequestsSound'
    <2> SUFFICES ASSUME NEW q \in Requests PROVE Sound(request[q])'
      BY DEF RequestsSound
    <2>1. CASE q = r
      BY <1>10, <2>1 DEF Sound, Idle
    <2>2. CASE q # r
      <3>1. request'[q] = request[q] /\ Sound(request[q]) /\ request[q] \in Request
        BY <1>0, <1>10, <2>2 DEF RequestsSound, TypeOK
      <3>2. request[q].op = "change" /\ ~request[q].overlap =>
               \A u \in users' : u.id = request[q].id => u.hash.password = request[q].old
        <4>1. request[q].op = "change" => \E u \in users : u.id = request[q].id
          BY <3>1 DEF Sound, HasUser
        <4>2. request[q].op = "change" => new.id # request[q].id
          BY <1>3, <1>5, <1>7, <4>1
        <4>. QED
          BY <1>1, <3>1, <4>2 DEF Sound
      <3>3. request[q].op = "create" =>
               /\ request[q].since <= Cardinality(users')
               /\ \A u \in users' : u.email = request[q].email => request[q].since < u.id
        <4> SUFFICES ASSUME request[q].op = "create"
                     PROVE  /\ request[q].since <= Cardinality(users')
                            /\ \A u \in users' : u.email = request[q].email => request[q].since < u.id
          OBVIOUS
        <4>1. request[q].since \in 0 .. MaxUsers /\ request[q].since <= n
          BY <3>1, RequestFields DEF Sound, n
        <4>. QED
          BY <1>1, <1>3, <1>5, <1>9, <3>1, <4>1 DEF Sound
      <3>. QED
        BY <1>13, <3>1, <3>2, <3>3 DEF Sound
    <2>. QED
      BY <2>1, <2>2
  <1>17. /\ q0.hash.salt <= salts /\ q0.hash.salt \notin retired
         /\ \A u \in users : u.hash.salt # q0.hash.salt
         /\ \A q \in Requests \ {r} : Writing(request[q]) => request[q].hash.salt # q0.hash.salt
    BY <1>0, <1>2 DEF SaltsFresh
  <1> HIDE DEF q0
  <1>18. SaltsFresh'
    <2>1. \A u \in users' : u.hash.salt <= salts'
      BY <1>0, <1>1, <1>5, <1>17 DEF SaltsFresh
    <2>2. ASSUME NEW u \in users', NEW v \in users', u.hash.salt = v.hash.salt PROVE u.id = v.id
      BY <1>0, <1>1, <1>5, <1>17, <2>2 DEF SaltsFresh
    <2>3. \A salt \in retired' : salt <= salts'
      BY <1>0, <1>1 DEF SaltsFresh
    <2>4. ASSUME NEW q \in Requests, Writing(request'[q])
          PROVE  /\ q # r /\ request'[q] = request[q]
                 /\ request'[q].hash.salt <= salts' /\ request'[q].hash.salt \notin retired'
                 /\ \A u \in users' : u.hash.salt # request'[q].hash.salt
      <3>1. q # r /\ request'[q] = request[q]
        BY <1>10, <2>4, IdleRequest
      <3>2. /\ request[q].hash.salt <= salts /\ request[q].hash.salt \notin retired
            /\ \A u \in users : u.hash.salt # request[q].hash.salt
        BY <1>0, <2>4, <3>1 DEF SaltsFresh
      <3>3. request[q].hash.salt # new.hash.salt
        BY <1>5, <1>17, <2>4, <3>1
      <3>. QED
        BY <1>1, <3>1, <3>2, <3>3
    <2>5. ASSUME NEW p \in Requests, NEW q \in Requests, Writing(request'[p]), Writing(request'[q]),
                 request'[p].hash.salt = request'[q].hash.salt
          PROVE  p = q
      BY <1>0, <2>4, <2>5 DEF SaltsFresh
    <2>. QED
      BY <2>1, <2>2, <2>3, <2>4, <2>5 DEF SaltsFresh, Writing
  <1>19. RetiredStaysRetired'
    BY <1>0, <1>1, <1>5, <1>17 DEF RetiredStaysRetired
  <1>. QED
    BY <1>11, <1>12, <1>14, <1>15, <1>16, <1>18, <1>19 DEF IndInv

\* A token that expires leaves the others; so does a step that changes nothing.
LEMMA ExpiryInd ==
  ASSUME IndInv, UNCHANGED <<users, request, salts, retired>>, tokens' \subseteq tokens
  PROVE  IndInv'
  <1>1. TypeOK'
    BY DEF IndInv, TypeOK
  <1>2. TokensNamed' /\ UsersCounted' /\ EmailsOverlap' /\ RetiredStaysRetired'
    BY DEF IndInv, TokensNamed, HasUser, UsersCounted, EmailsOverlap, RetiredStaysRetired
  <1>3. RequestsSound'
    BY DEF IndInv, RequestsSound, Sound, HasUser
  <1>4. SaltsFresh'
    BY DEF IndInv, SaltsFresh
  <1>. QED
    BY <1>1, <1>2, <1>3, <1>4 DEF IndInv

\* Every step of the requests and the commands keeps the invariant.
LEMMA NextInd == IndInv /\ [Next]_vars => IndInv'
  <1> SUFFICES ASSUME IndInv, [Next]_vars PROVE IndInv'
    OBVIOUS
  <1>1. ASSUME NEW r \in Requests,
               \/ \E user \in users, password \in Passwords : LoginRead(r, user, password)
               \/ \E token \in tokens :
                     \/ CheckAuthenticatedUser(r, token)
                     \/ \E old, password \in Passwords : ChangePasswordRead(r, token, old, password)
               \/ \E user \in users, password \in Passwords : ResetRead(r, user, password)
               \/ \E email \in Emails, password \in Passwords : CreateLookup(r, email, password)
               \/ End(r)
        PROVE  IndInv'
    BY <1>1, ReadInd
  <1>2. ASSUME NEW r \in Requests, Login(r) PROVE IndInv'
    BY <1>2, LoginInd
  <1>3. ASSUME NEW r \in Requests, ChangePassword(r) \/ ResetSuperuserPassword(r) PROVE IndInv'
    BY <1>3, WriteInd
  <1>4. ASSUME NEW r \in Requests, CreateUser(r) PROVE IndInv'
    BY <1>4, CreateInd
  <1>5. CASE (\E token \in tokens : TokenExpires(token)) \/ UNCHANGED vars
    <2>1. UNCHANGED <<users, request, salts, retired>> /\ tokens' \subseteq tokens
      BY <1>5 DEF TokenExpires, vars
    <2>. QED
      BY <2>1, ExpiryInd
  <1>. QED
    BY <1>1, <1>2, <1>3, <1>4, <1>5 DEF Next, GenerateRandomPassword

\* The invariant holds from the empty collection on.
THEOREM Invariance == Spec => []IndInv
  BY InitInd, NextInd, PTL DEF Spec

(***************************************************************************)
(* The results.                                                            *)
(***************************************************************************)
\* Users, tokens and requests have their type, and no more users are stored than
\* were inserted.
THEOREM TypeCorrect == Spec => []TypeOK
  <1>1. IndInv => TypeOK
    BY DEF IndInv
  <1>. QED
    BY <1>1, Invariance, PTL

\* No login, change or reset that read a user before its password was replaced
\* stores the old hash again.
THEOREM RetirementLasts == Spec => []RetiredStaysRetired
  <1>1. IndInv => RetiredStaysRetired
    BY DEF IndInv
  <1>. QED
    BY <1>1, Invariance, PTL

\* The email in a token leads the middleware to the user who logged in, unless
\* createsuperuser has stored the email twice, by an overlap or a failed lookup.
THEOREM TokensAct == Spec => []TokenActsAsItself
  <1>1. ASSUME IndInv PROVE TokenActsAsItself
    <2> SUFFICES ASSUME NEW r \in Requests, request[r].op \in {"serve", "change"},
                        request[r].id # request[r].token.account
                 PROVE  \E new, old \in users :
                           /\ new.email = request[r].token.email /\ old.email = new.email
                           /\ new.since < old.id /\ old.id < new.id
      BY DEF TokenActsAsItself
    <2>1. /\ HasUser(request[r].token.account, request[r].token.email)
          /\ HasUser(request[r].id, request[r].token.email)
      BY <1>1 DEF IndInv, RequestsSound, Sound
    <2>2. PICK u \in users : u.id = request[r].token.account /\ u.email = request[r].token.email
      BY <2>1 DEF HasUser
    <2>3. PICK v \in users : v.id = request[r].id /\ v.email = request[r].token.email
      BY <2>1 DEF HasUser
    <2>4. u.id \in Nat /\ v.id \in Nat /\ u.id # v.id
      BY <1>1, <2>2, <2>3 DEF IndInv, TypeOK, User
    <2>5. u.id < v.id \/ v.id < u.id
      BY <2>4
    <2>. QED
      BY <1>1, <2>2, <2>3, <2>5 DEF IndInv, EmailsOverlap
  <1>. QED
    BY <1>1, Invariance, PTL

\* ChangePassword replaces only a password that was presented, unless another
\* change or reset of the user came between its reading and its writing.
THEOREM ChangesCompare == Spec => ChangeNeedsPassword
  <1> DEFINE Compared ==
        \A r \in Requests :
            request[r].op = "change" /\ request'[r] = Idle /\ ~request[r].overlap =>
                \A u \in users \ users' : ComparePasswordAndHash(request[r].old, u.hash)
  <1>1. ASSUME IndInv, [Next]_vars PROVE [Compared]_vars
    <2> SUFFICES ASSUME Next, NEW r \in Requests, request[r].op = "change", request'[r] = Idle,
                        ~request[r].overlap, NEW u \in users \ users'
                 PROVE  ComparePasswordAndHash(request[r].old, u.hash)
      BY <1>1
    <2>0. TypeOK /\ RequestsSound /\ request[r] \in Request
      BY <1>1 DEF IndInv, TypeOK
    <2>1. Idle.op = "none"
      BY IdleRequest
    <2>2. ChangePassword(r)
      <3>1. ASSUME NEW q \in Requests, NEW to, Goes(q, to), q # r PROVE FALSE
        <4>1. request'[r] = request[r]
          BY <2>0, <3>1 DEF Goes, TypeOK
        <4>. QED
          BY <2>1, <4>1
      <3>2. ASSUME NEW q \in Requests, NEW id, Retires(q, id), q # r PROVE FALSE
        <4>1. request[r] \in [op : {"change"}, token : Token, id : 1 .. MaxUsers, old : Passwords,
                              hash : Hash, overlap : BOOLEAN]
          BY <2>0, RequestFields
        <4>2. request'[r] = request[r] \/ request'[r] = [request[r] EXCEPT !.overlap = TRUE]
          BY <3>2 DEF Retires
        <4>3. request'[r].op = "change"
          BY <4>1, <4>2
        <4>. QED
          BY <2>1, <4>3
      <3>3. ASSUME NEW q \in Requests,
                   \/ \E user \in users, password \in Passwords : LoginRead(q, user, password)
                   \/ \E token \in tokens :
                         \/ CheckAuthenticatedUser(q, token)
                         \/ \E old, password \in Passwords : ChangePasswordRead(q, token, old, password)
                   \/ \E user \in users, password \in Passwords : ResetRead(q, user, password)
                   \/ \E email \in Emails, password \in Passwords : CreateLookup(q, email, password)
                   \/ End(q)
            PROVE  FALSE
        <4>1. users' = users
          BY <3>3 DEF LoginRead, CheckAuthenticatedUser, ChangePasswordRead, ResetRead, CreateLookup, End
        <4>. QED
          BY <4>1
      <3>4. ASSUME NEW q \in Requests, Login(q) \/ CreateUser(q) PROVE FALSE
        BY <3>1, <3>4 DEF Login, CreateUser
      <3>5. ASSUME NEW q \in Requests, ChangePassword(q) \/ ResetSuperuserPassword(q)
            PROVE  ChangePassword(r)
        BY <3>2, <3>5 DEF ChangePassword, ResetSuperuserPassword
      <3>6. ASSUME NEW token \in tokens, TokenExpires(token) PROVE FALSE
        BY <3>6 DEF TokenExpires
      <3>. QED
        BY <3>3, <3>4, <3>5, <3>6 DEF Next, GenerateRandomPassword
    <2>3. u.id = request[r].id
      <3>1. users' = {IF v.id = request[r].id THEN [v EXCEPT !.hash = request[r].hash] ELSE v : v \in users}
        BY <2>2 DEF ChangePassword, UpdatePassword
      <3>. QED
        BY <3>1
    <2>4. u.hash.password = request[r].old
      BY <2>0, <2>3 DEF RequestsSound, Sound
    <2>. QED
      BY <2>4 DEF ComparePasswordAndHash, decodeHash
  <1>2. IndInv /\ [Next]_vars => [Compared]_vars
    BY <1>1
  <1>. QED
    BY <1>2, Invariance, PTL DEF Spec, ChangeNeedsPassword
==============================================================================
