---------------------------- MODULE DatabaseProofs ----------------------------
(***************************************************************************)
(* Commands that change a database server and more: create_db, which       *)
(* compensates for its failures; provision_dump_user, which changes a      *)
(* password in the server and then in the vault; and the steps of a        *)
(* Supabase migration, which change artifacts and a stack.                 *)
(***************************************************************************)
EXTENDS CreateDatabase, DumpUser, SupabaseMigrate, TLAPS

-----------------------------------------------------------------------------
(* CreateDatabase *)

(* Where a call is tells what it asks for. *)
Request(c) ==
  /\ pc[c] \in {"user", "grant", "settle", "undo user"} => Owner(c) \in Users
  /\ pc[c] \in {"grant", "settle", "undo user"} => request[c].grantAll
  /\ pc[c] = "done" => Owner(c) # BadOwner

(* What a call under way has made, and nobody takes from it. *)
Has(c) ==
  /\ drops = 0 /\ pc[c] \in {"user", "grant", "settle", "undo user", "undo db"} => dbs[Db(c)] = c
  /\ pc[c] \in {"grant", "settle", "undo user"} => users[Owner(c)] = c
  /\ drops = 0 /\ pc[c] = "settle" => <<Db(c), Owner(c)>> \in grants

Finished(c) ==
  pc[c] = "done" /\ drops = 0 =>
    /\ dbs[Db(c)] = c
    /\ Owner(c) # NoOwner => users[Owner(c)] = c
    /\ Owner(c) # NoOwner /\ request[c].grantAll =>
         <<Db(c), Owner(c)>> \in grants /\ (Postgres => owner[Db(c)] = Owner(c))

(* A call makes what it was asked for, and undoes it again. *)
HasNoMore(c) ==
  /\ \A n \in Names : dbs[n] = c => n = Db(c) /\ pc[c] # "create"
  /\ \A u \in Users : users[u] = c => u = Owner(c) /\ pc[c] \notin {"create", "user"}
  /\ c \notin excused /\ pc[c] \in {"undo db", "undone", "failed"} /\ drops = 0 =>
       \A u \in Users : users[u] # c
  /\ c \notin excused /\ pc[c] \in {"undone", "failed"} /\ drops = 0 =>
       \A n \in Names : dbs[n] # c

(* Privileges are those of calls that have a user. *)
GrantsOwned ==
  \A g \in grants : \E d \in Calls :
    users[g[2]] = d /\ (pc[d] \in {"settle", "done", "failed"} \/ d \in excused)

CreateInv ==
  /\ TypeOK /\ GrantsOwned
  /\ \A c \in Calls : Request(c) /\ Has(c) /\ Finished(c) /\ HasNoMore(c)

LEMMA CreateInvInit == Init => CreateInv
<1> SUFFICES ASSUME Init PROVE CreateInv
  OBVIOUS
<1>1. TypeOK
  BY CreateDatabaseAssumption DEF Init, TypeOK
<1>2. GrantsOwned /\ \A c \in Calls : Request(c) /\ Has(c) /\ Finished(c) /\ HasNoMore(c)
  BY CreateDatabaseAssumption DEF Init, GrantsOwned, Request, Has, Finished, HasNoMore
<1> QED BY <1>1, <1>2 DEF CreateInv

(* Call c takes a step that touches only what is c's or nobody's. *)
TouchesItsOwn(c) ==
  /\ \A n \in Names : dbs'[n] # dbs[n] =>
       n = Db(c) /\ dbs'[n] \in {c, Nobody} /\ (drops = 0 => dbs[n] \in {c, Nobody})
  /\ \A u \in Users : users'[u] # users[u] =>
       u = Owner(c) /\ users[u] \in {c, Nobody} /\ users'[u] \in {c, Nobody}
  /\ \A g \in grants \ grants' :
       users[g[2]] = c \/ (g[1] = Db(c) /\ (drops = 0 => dbs[g[1]] = c))
  /\ \A n \in Names : owner'[n] # owner[n] => n = Db(c) /\ (drops = 0 => dbs[n] = c)

Own(c) == Request(c) /\ Has(c) /\ Finished(c) /\ HasNoMore(c)

LEMMA OthersKeepTheirs ==
  ASSUME CreateInv, TypeOK', NEW c \in Calls, TouchesItsOwn(c),
         \A d \in Calls \ {c} : pc'[d] = pc[d],
         UNCHANGED <<given, drops>>, excused \subseteq excused', excused' \subseteq excused \cup {c},
         NEW d \in Calls, d # c
  PROVE  Own(d)'
<1> USE CreateDatabaseAssumption
<1>1. /\ pc'[d] = pc[d] /\ request'[d] = request[d] /\ drops' = drops /\ engine' = engine
      /\ d \in excused' <=> d \in excused
      /\ request[d].db \in Names /\ d # Nobody
      /\ Own(d)
  BY DEF given, CreateInv, TypeOK, Requests, Own
<1>2. drops = 0 /\ dbs[Db(d)] = d =>
        dbs'[Db(d)] = d /\ owner'[Db(d)] = owner[Db(d)]
  BY <1>1 DEF TouchesItsOwn, Db
<1>3. Owner(d) \in Users /\ users[Owner(d)] = d => users'[Owner(d)] = d
  BY <1>1 DEF TouchesItsOwn
<1>4. drops = 0 /\ dbs[Db(d)] = d /\ users[Owner(d)] = d /\ <<Db(d), Owner(d)>> \in grants =>
        <<Db(d), Owner(d)>> \in grants'
  BY <1>1 DEF TouchesItsOwn
<1>5. /\ \A n \in Names : dbs'[n] = d => dbs[n] = d
      /\ \A u \in Users : users'[u] = d => users[u] = d
  BY <1>1 DEF TouchesItsOwn
<1>6. Db(d)' = Db(d) /\ Owner(d)' = Owner(d)
  BY <1>1 DEF Db, Owner
<1>7. Request(d)'
  BY <1>1, <1>6 DEF Own, Request
<1>8. Has(d)'
  BY <1>1, <1>2, <1>3, <1>4, <1>6 DEF Own, Has, Request
<1>9. Finished(d)'
  <2>1. Owner(d) \in Users \cup {NoOwner, BadOwner}
    BY DEF CreateInv, TypeOK, Requests, Owner
  <2>2. pc[d] = "done" /\ Owner(d) # NoOwner => Owner(d) \in Users
    BY <1>1, <2>1 DEF Own, Request
  <2> QED BY <1>1, <1>2, <1>3, <1>4, <1>6, <2>2 DEF Own, Finished, Postgres
<1>10. HasNoMore(d)'
  BY <1>1, <1>5, <1>6 DEF Own, HasNoMore
<1> QED BY <1>7, <1>8, <1>9, <1>10 DEF Own

(* What holds of call c holds of all, when c touched only its own. *)
LEMMA OneMoved ==
  ASSUME CreateInv, TypeOK', NEW c \in Calls, TouchesItsOwn(c),
         \A d \in Calls \ {c} : pc'[d] = pc[d],
         UNCHANGED <<given, drops>>, excused \subseteq excused', excused' \subseteq excused \cup {c},
         Own(c)', GrantsOwned'
  PROVE  CreateInv'
<1>1. \A d \in Calls : Own(d)'
  <2>1. ASSUME NEW d \in Calls, d # c PROVE Own(d)'
    BY <2>1, OthersKeepTheirs
  <2> QED BY <2>1
<1> QED BY <1>1 DEF CreateInv, Own

Places == {"create", "user", "grant", "settle", "undo user", "undo db", "undone", "done", "failed"}

(* The outcomes of a statement that leave the server as it was. *)
LEMMA NothingDone ==
  ASSUME CreateInv, NEW c \in Calls, NEW place \in Places, Goto(c, place),
         UNCHANGED <<given, drops, server>>, faults' \in 0 .. MaxFaults,
         excused \subseteq excused', excused' \subseteq excused \cup {c},
         pc[c] \notin {"done", "failed"}, pc[c] = "settle" => place = "failed",
         Own(c)'
  PROVE  CreateInv'
<1>1. pc \in [Calls -> Places] /\ pc' \in [Calls -> Places] /\ \A d \in Calls \ {c} : pc'[d] = pc[d]
  BY DEF CreateInv, TypeOK, Goto, Places
<1>2. TypeOK'
  BY <1>1 DEF CreateInv, TypeOK, Places, given, server
<1>3. TouchesItsOwn(c)
  BY DEF TouchesItsOwn, server
<1>4. GrantsOwned'
  <2>1. ASSUME NEW d \in Calls, pc[d] \in {"settle", "done", "failed"} \/ d \in excused
        PROVE  pc'[d] \in {"settle", "done", "failed"} \/ d \in excused'
    <3>1. CASE d = c
      BY <1>1, <2>1, <3>1 DEF Goto
    <3>2. CASE d # c
      BY <1>1, <2>1, <3>2
    <3> QED BY <3>1, <3>2
  <2> QED BY <2>1 DEF GrantsOwned, CreateInv, server
<1> QED BY <1>1, <1>2, <1>3, <1>4, OneMoved

LEMMA CallFacts ==
  ASSUME CreateInv, NEW c \in Calls, UNCHANGED <<given, drops>>
  PROVE  /\ Own(c) /\ Db(c) \in Names /\ Owner(c) \in Users \cup {NoOwner, BadOwner}
         /\ Db(c)' = Db(c) /\ Owner(c)' = Owner(c) /\ request'[c] = request[c]
         /\ pc \in [Calls -> Places]
         /\ faults \in 0 .. MaxFaults /\ (Fault => faults' \in 0 .. MaxFaults)
<1>1. Own(c) /\ request \in [Calls -> Requests] /\ request' = request
  BY DEF CreateInv, TypeOK, Own, given
<1>2. /\ Db(c) \in Names /\ Owner(c) \in Users \cup {NoOwner, BadOwner}
      /\ Db(c)' = Db(c) /\ Owner(c)' = Owner(c) /\ request'[c] = request[c]
  BY <1>1 DEF Requests, Db, Owner
<1>3. pc \in [Calls -> Places] /\ faults \in 0 .. MaxFaults
  BY DEF CreateInv, TypeOK, Places
<1>4. Fault => faults' \in 0 .. MaxFaults
  BY <1>3, CreateDatabaseAssumption DEF Fault
<1> QED BY <1>1, <1>2, <1>3, <1>4

LEMMA CreateDbKeeps ==
  ASSUME CreateInv, NEW c \in Calls, CreateDb(c)
  PROVE  CreateInv'
<1> USE CreateDatabaseAssumption
<1>1. /\ pc[c] = "create" /\ Own(c) /\ Db(c) \in Names
      /\ Owner(c) \in Users \cup {NoOwner, BadOwner}
      /\ UNCHANGED <<given, drops>> /\ Db(c)' = Db(c) /\ Owner(c)' = Owner(c)
      /\ pc \in [Calls -> Places] /\ request'[c] = request[c]
      /\ faults \in 0 .. MaxFaults /\ (Fault => faults' \in 0 .. MaxFaults)
  <2>1. pc[c] = "create" /\ UNCHANGED <<given, drops>>
    BY DEF CreateDb
  <2> QED BY <2>1, CallFacts
<1>2. ASSUME UNCHANGED server, Goto(c, "failed"), excused' = excused,
             faults' \in 0 .. MaxFaults
      PROVE  CreateInv'
  <2>1. pc'[c] = "failed"
    BY <1>1, <1>2 DEF Goto
  <2>2. Own(c)'
    BY <1>1, <1>2, <2>1 DEF Own, Request, Has, Finished, HasNoMore, server
  <2> QED BY <1>1, <1>2, <2>2, NothingDone DEF Places
<1>3. ASSUME dbs[Db(c)] = Nobody, dbs' = [dbs EXCEPT ![Db(c)] = c],
             UNCHANGED <<users, grants, owner>>, NEW place \in {"done", "undo db", "user", "failed"},
             Goto(c, place), faults' \in 0 .. MaxFaults,
             excused' = excused \/ excused' = excused \cup {c},
             place = "failed" => c \in excused',
             place = "done" => Owner(c) = NoOwner,
             place = "user" => Owner(c) \notin {NoOwner, BadOwner}
      PROVE  CreateInv'
  <2>1. pc'[c] = place /\ pc' \in [Calls -> Places] /\ \A d \in Calls \ {c} : pc'[d] = pc[d]
    BY <1>1, <1>3 DEF Goto, Places
  <2>2. TypeOK'
    BY <1>1, <1>3, <2>1 DEF CreateInv, TypeOK, Places, given
  <2>3. TouchesItsOwn(c)
    BY <1>1, <1>3 DEF TouchesItsOwn, CreateInv, TypeOK
  <2>4. Own(c)'
    <3>1. dbs'[Db(c)] = c /\ \A n \in Names \ {Db(c)} : dbs'[n] = dbs[n]
      BY <1>1, <1>3 DEF CreateInv, TypeOK
    <3>2. Request(c)' /\ Has(c)'
      BY <1>1, <1>3, <2>1, <3>1 DEF Own, Request, Has
    <3>3. Finished(c)'
      BY <1>1, <1>3, <2>1, <3>1 DEF Finished
    <3>4. HasNoMore(c)'
      BY <1>1, <1>3, <2>1, <3>1 DEF Own, HasNoMore
    <3> QED BY <3>2, <3>3, <3>4 DEF Own
  <2>5. GrantsOwned'
    BY <1>1, <1>3, <2>1 DEF GrantsOwned, CreateInv
  <2> QED BY <1>1, <1>3, <2>1, <2>2, <2>3, <2>4, <2>5, OneMoved
<1> DEFINE next == CASE Owner(c) = NoOwner -> "done"
                     [] Owner(c) = BadOwner -> "undo db"
                     [] OTHER -> "user"
<1>4. /\ next \in {"done", "undo db", "user"}
      /\ next = "done" => Owner(c) = NoOwner
      /\ next = "user" => Owner(c) \notin {NoOwner, BadOwner}
  OBVIOUS
<1>5. \/ /\ dbs[Db(c)] = Nobody /\ dbs' = [dbs EXCEPT ![Db(c)] = c]
         /\ UNCHANGED <<users, grants, owner>> /\ Goto(c, next) /\ UNCHANGED <<faults, excused>>
      \/ Goto(c, "failed") /\ UNCHANGED <<server, faults, excused>>
      \/ /\ Fault /\ dbs[Db(c)] = Nobody /\ dbs' = [dbs EXCEPT ![Db(c)] = c]
         /\ UNCHANGED <<users, grants, owner>> /\ Goto(c, "failed")
         /\ excused' = excused \cup {c}
      \/ Fault /\ Goto(c, "failed") /\ excused' = excused /\ UNCHANGED server
  BY <1>1, Zenon DEF CreateDb, Statement, Unprotected
<1> HIDE DEF next
<1> QED BY <1>1, <1>2, <1>3, <1>4, <1>5

ServerTyped ==
  /\ dbs \in [Names -> Calls \cup {Nobody}] /\ users \in [Users -> Calls \cup {Nobody}]
  /\ grants \subseteq Names \X Users /\ owner \in [Names -> Users \cup {Nobody}]

(* The outcomes of a statement that took effect. *)
LEMMA Executed ==
  ASSUME CreateInv, NEW c \in Calls, NEW place \in Places, Goto(c, place),
         UNCHANGED <<given, drops>>, faults' \in 0 .. MaxFaults,
         excused \subseteq excused', excused' \subseteq excused \cup {c},
         ServerTyped', TouchesItsOwn(c), pc'[c] = place => Own(c)', GrantsOwned'
  PROVE  CreateInv'
<1>1. pc \in [Calls -> Places] /\ pc' \in [Calls -> Places]
      /\ pc'[c] = place /\ \A d \in Calls \ {c} : pc'[d] = pc[d]
  BY DEF CreateInv, TypeOK, Goto, Places
<1>2. TypeOK'
  BY <1>1 DEF CreateInv, TypeOK, Places, given, ServerTyped
<1> QED BY <1>1, <1>2, OneMoved

LEMMA CreateUserKeeps ==
  ASSUME CreateInv, NEW c \in Calls, CreateUser(c)
  PROVE  CreateInv'
<1> USE CreateDatabaseAssumption
<1> DEFINE next == IF request[c].grantAll THEN "grant" ELSE "done"
<1>1. /\ pc[c] = "user" /\ UNCHANGED <<given, drops>>
      /\ Own(c) /\ Db(c) \in Names /\ Owner(c) \in Users
      /\ Db(c)' = Db(c) /\ Owner(c)' = Owner(c) /\ request'[c] = request[c]
      /\ pc \in [Calls -> Places] /\ ServerTyped
      /\ faults \in 0 .. MaxFaults /\ (Fault => faults' \in 0 .. MaxFaults)
  <2>1. pc[c] = "user" /\ UNCHANGED <<given, drops>>
    BY DEF CreateUser
  <2>2. ServerTyped
    BY DEF CreateInv, TypeOK, ServerTyped
  <2> QED BY <2>1, <2>2, CallFacts DEF Own, Request
<1>2. ASSUME UNCHANGED server, Goto(c, "undo db"), excused' = excused,
             faults' \in 0 .. MaxFaults
      PROVE  CreateInv'
  <2>1. pc'[c] = "undo db"
    BY <1>1, <1>2 DEF Goto
  <2>2. Own(c)'
    BY <1>1, <1>2, <2>1 DEF Own, Request, Has, Finished, HasNoMore, server
  <2> QED BY <1>1, <1>2, <2>2, NothingDone DEF Places
<1>3. ASSUME users[Owner(c)] = Nobody, users' = [users EXCEPT ![Owner(c)] = c],
             UNCHANGED <<dbs, grants, owner>>, NEW place \in {"grant", "done", "undo db"},
             Goto(c, place), faults' \in 0 .. MaxFaults,
             excused' = excused \/ excused' = excused \cup {c},
             place = "undo db" => c \in excused',
             place = "grant" => request[c].grantAll,
             place = "done" => ~request[c].grantAll
      PROVE  CreateInv'
  <2>1. users'[Owner(c)] = c /\ (\A u \in Users \ {Owner(c)} : users'[u] = users[u]) /\ ServerTyped'
    BY <1>1, <1>3 DEF ServerTyped
  <2>2. TouchesItsOwn(c)
    BY <1>1, <1>3, <2>1 DEF TouchesItsOwn
  <2>3. ASSUME pc'[c] = place PROVE Own(c)'
    <3>1. Request(c)' /\ Has(c)'
      BY <1>1, <1>3, <2>1, <2>3 DEF Own, Request, Has
    <3>2. Finished(c)'
      BY <1>1, <1>3, <2>1, <2>3 DEF Own, Finished, Has
    <3>3. HasNoMore(c)'
      BY <1>1, <1>3, <2>1, <2>3 DEF Own, HasNoMore
    <3> QED BY <3>1, <3>2, <3>3 DEF Own
  <2>4. GrantsOwned'
    <3>1. ASSUME NEW g \in grants, NEW d \in Calls, users[g[2]] = d,
                 pc[d] \in {"settle", "done", "failed"} \/ d \in excused
          PROVE  users'[g[2]] = d /\ (pc'[d] \in {"settle", "done", "failed"} \/ d \in excused')
      <4>1. g[2] # Owner(c) /\ g[2] \in Users
        BY <1>1, <1>3, <3>1 DEF ServerTyped
      <4>2. d # c \/ c \in excused
        BY <1>1, <3>1
      <4> QED BY <1>1, <1>3, <2>1, <3>1, <4>1, <4>2 DEF Goto
    <3> QED BY <1>3, <3>1 DEF GrantsOwned, CreateInv
  <2> QED BY <1>1, <1>3, <2>1, <2>2, <2>3, <2>4, Executed DEF Places
<1>4. /\ next \in {"grant", "done"} /\ (next = "grant" => request[c].grantAll)
      /\ next = "done" => ~request[c].grantAll
  OBVIOUS
<1>5. \/ /\ users[Owner(c)] = Nobody /\ users' = [users EXCEPT ![Owner(c)] = c]
         /\ UNCHANGED <<dbs, grants, owner>> /\ Goto(c, next) /\ UNCHANGED <<faults, excused>>
      \/ Goto(c, "undo db") /\ UNCHANGED <<server, faults, excused>>
      \/ /\ Fault /\ users[Owner(c)] = Nobody /\ users' = [users EXCEPT ![Owner(c)] = c]
         /\ UNCHANGED <<dbs, grants, owner>> /\ Goto(c, "undo db")
         /\ excused' = excused \cup {c}
      \/ Fault /\ Goto(c, "undo db") /\ excused' = excused /\ UNCHANGED server
  BY <1>1, Zenon DEF CreateUser, Statement, Unprotected
<1> HIDE DEF next
<1> QED BY <1>1, <1>2, <1>3, <1>4, <1>5

LEMMA GrantKeeps ==
  ASSUME CreateInv, NEW c \in Calls, Grant(c)
  PROVE  CreateInv'
<1> USE CreateDatabaseAssumption
<1>1. /\ pc[c] = "grant" /\ UNCHANGED <<given, drops>>
      /\ Own(c) /\ Db(c) \in Names
      /\ Db(c)' = Db(c) /\ Owner(c)' = Owner(c) /\ request'[c] = request[c]
      /\ pc \in [Calls -> Places] /\ ServerTyped
      /\ faults \in 0 .. MaxFaults /\ (Fault => faults' \in 0 .. MaxFaults)
      /\ Owner(c) \in Users /\ request[c].grantAll /\ users[Owner(c)] = c
  <2>1. pc[c] = "grant" /\ UNCHANGED <<given, drops>>
    BY DEF Grant
  <2>2. ServerTyped
    BY DEF CreateInv, TypeOK, ServerTyped
  <2> QED BY <2>1, <2>2, CallFacts DEF Own, Request, Has
<1>2. ASSUME UNCHANGED server, Goto(c, "undo user"), excused' = excused,
             faults' \in 0 .. MaxFaults
      PROVE  CreateInv'
  <2>1. pc'[c] = "undo user"
    BY <1>1, <1>2 DEF Goto
  <2>2. Own(c)'
    BY <1>1, <1>2, <2>1 DEF Own, Request, Has, Finished, HasNoMore, server
  <2> QED BY <1>1, <1>2, <2>2, NothingDone DEF Places
<1>3. ASSUME grants' = grants \cup {<<Db(c), Owner(c)>>},
             UNCHANGED <<dbs, users, owner>>, NEW place \in {"settle", "undo user"},
             Goto(c, place), faults' \in 0 .. MaxFaults,
             excused' = excused \/ excused' = excused \cup {c},
             place = "undo user" => c \in excused'
      PROVE  CreateInv'
  <2>1. ServerTyped'
    <3>1. <<Db(c), Owner(c)>> \in Names \X Users
      BY <1>1
    <3> QED BY <1>1, <1>3, <3>1 DEF ServerTyped
  <2>2. TouchesItsOwn(c)
    BY <1>1, <1>3 DEF TouchesItsOwn
  <2>3. ASSUME pc'[c] = place PROVE Own(c)'
    <3>1. Request(c)' /\ Has(c)'
      BY <1>1, <1>3, <2>1, <2>3 DEF Own, Request, Has
    <3>2. Finished(c)'
      BY <1>1, <1>3, <2>1, <2>3 DEF Own, Finished, Has, Request, Postgres, given
    <3>3. HasNoMore(c)'
      BY <1>1, <1>3, <2>1, <2>3 DEF Own, HasNoMore, Has, Request
    <3> QED BY <3>1, <3>2, <3>3 DEF Own
  <2>4. GrantsOwned'
    <3>1. ASSUME NEW d \in Calls, pc[d] \in {"settle", "done", "failed"} \/ d \in excused
          PROVE  pc'[d] \in {"settle", "done", "failed"} \/ d \in excused'
      BY <1>1, <1>3, <3>1 DEF Goto
    <3>2. pc'[c] = "settle" \/ c \in excused'
      BY <1>1, <1>3 DEF Goto
    <3>3. ASSUME NEW g \in grants'
          PROVE  \E d \in Calls :
                   users'[g[2]] = d /\ (pc'[d] \in {"settle", "done", "failed"} \/ d \in excused')
      <4>1. CASE g \in grants
        BY <1>3, <3>1, <4>1 DEF GrantsOwned, CreateInv
      <4>2. CASE g = <<Db(c), Owner(c)>>
        BY <1>1, <1>3, <3>2, <4>2
      <4> QED BY <1>3, <4>1, <4>2
    <3> QED BY <3>3 DEF GrantsOwned
  <2> QED BY <1>1, <1>3, <2>1, <2>2, <2>3, <2>4, Executed DEF Places
<1>4. \/ /\ grants' = grants \cup {<<Db(c), Owner(c)>>} /\ UNCHANGED <<dbs, users, owner>>
         /\ Goto(c, "settle") /\ UNCHANGED <<faults, excused>>
      \/ Goto(c, "undo user") /\ UNCHANGED <<server, faults, excused>>
      \/ /\ Fault /\ grants' = grants \cup {<<Db(c), Owner(c)>>} /\ UNCHANGED <<dbs, users, owner>>
         /\ Goto(c, "undo user") /\ excused' = excused \cup {c}
      \/ Fault /\ Goto(c, "undo user") /\ excused' = excused /\ UNCHANGED server
  BY <1>1, Zenon DEF Grant, Statement, Unprotected
<1> QED BY <1>1, <1>2, <1>3, <1>4

LEMMA SettleKeeps ==
  ASSUME CreateInv, NEW c \in Calls, Settle(c)
  PROVE  CreateInv'
<1> USE CreateDatabaseAssumption
<1>1. /\ pc[c] = "settle" /\ UNCHANGED <<given, drops>>
      /\ Own(c) /\ Db(c) \in Names
      /\ Db(c)' = Db(c) /\ Owner(c)' = Owner(c) /\ request'[c] = request[c]
      /\ pc \in [Calls -> Places] /\ ServerTyped
      /\ faults \in 0 .. MaxFaults /\ (Fault => faults' \in 0 .. MaxFaults)
      /\ Owner(c) \in Users /\ users[Owner(c)] = c /\ (drops = 0 => dbs[Db(c)] = c)
  <2>1. pc[c] = "settle" /\ UNCHANGED <<given, drops>>
    BY DEF Settle
  <2>2. ServerTyped
    BY DEF CreateInv, TypeOK, ServerTyped
  <2> QED BY <2>1, <2>2, CallFacts DEF Own, Request, Has
<1>2. ASSUME UNCHANGED server, Goto(c, "failed"), excused' = excused \/ excused' = excused \cup {c},
             faults' \in 0 .. MaxFaults,
             drops # 0 \/ c \in excused'
      PROVE  CreateInv'
  <2>1. pc'[c] = "failed"
    BY <1>1, <1>2 DEF Goto
  <2>2. Own(c)'
    BY <1>1, <1>2, <2>1 DEF Own, Request, Has, Finished, HasNoMore, server
  <2> QED BY <1>1, <1>2, <2>2, NothingDone DEF Places
<1>3. ASSUME owner' = [owner EXCEPT ![Db(c)] = Owner(c)] \/ (owner' = owner /\ ~Postgres),
             UNCHANGED <<dbs, users, grants>>, NEW place \in {"done", "failed"},
             Goto(c, place), faults' \in 0 .. MaxFaults,
             excused' = excused \/ excused' = excused \cup {c},
             place = "failed" => c \in excused'
      PROVE  CreateInv'
  <2>1. /\ ServerTyped' /\ (Postgres => owner'[Db(c)] = Owner(c))
        /\ \A n \in Names \ {Db(c)} : owner'[n] = owner[n]
    <3>1. CASE owner' = [owner EXCEPT ![Db(c)] = Owner(c)]
      BY <1>1, <1>3, <3>1 DEF ServerTyped
    <3>2. CASE owner' = owner /\ ~Postgres
      BY <1>1, <1>3, <3>2 DEF ServerTyped
    <3> QED BY <1>3, <3>1, <3>2
  <2>2. TouchesItsOwn(c)
    BY <1>1, <1>3, <2>1 DEF TouchesItsOwn
  <2>3. ASSUME pc'[c] = place PROVE Own(c)'
    <3>1. Request(c)' /\ Has(c)'
      BY <1>1, <1>3, <2>1, <2>3 DEF Own, Request, Has
    <3>2. Finished(c)'
      BY <1>1, <1>3, <2>1, <2>3 DEF Own, Finished, Has, Request, Postgres, given
    <3>3. HasNoMore(c)'
      BY <1>1, <1>3, <2>1, <2>3 DEF Own, HasNoMore, Has, Request
    <3> QED BY <3>1, <3>2, <3>3 DEF Own
  <2>4. GrantsOwned'
    <3>1. ASSUME NEW d \in Calls, pc[d] \in {"settle", "done", "failed"} \/ d \in excused
          PROVE  pc'[d] \in {"settle", "done", "failed"} \/ d \in excused'
      BY <1>1, <1>3, <3>1 DEF Goto
    <3> QED BY <1>3, <3>1 DEF GrantsOwned, CreateInv
  <2> QED BY <1>1, <1>3, <2>1, <2>2, <2>3, <2>4, Executed DEF Places
<1> DEFINE then == IF Postgres THEN [owner EXCEPT ![Db(c)] = Owner(c)] ELSE owner
<1>4. \/ /\ owner' = then /\ UNCHANGED <<dbs, users, grants>>
         /\ Goto(c, "done") /\ UNCHANGED <<faults, excused>>
      \/ /\ Postgres /\ dbs[Db(c)] = Nobody
         /\ Goto(c, "failed") /\ UNCHANGED <<server, faults, excused>>
      \/ /\ Fault /\ owner' = then /\ UNCHANGED <<dbs, users, grants>>
         /\ Goto(c, "failed") /\ excused' = excused \cup {c}
      \/ Fault /\ Goto(c, "failed") /\ excused' = excused \cup {c} /\ UNCHANGED server
  <2>1. Unprotected(c)
    BY <1>1 DEF Unprotected
  <2> QED BY <1>1, <2>1, Zenon DEF Settle, Statement
<1>5. then = [owner EXCEPT ![Db(c)] = Owner(c)] \/ (then = owner /\ ~Postgres)
  OBVIOUS
<1> HIDE DEF then
<1> QED BY <1>1, <1>2, <1>3, <1>4, <1>5

LEMMA UndoUserKeeps ==
  ASSUME CreateInv, NEW c \in Calls, UndoUser(c)
  PROVE  CreateInv'
<1> USE CreateDatabaseAssumption
<1>1. /\ pc[c] = "undo user" /\ UNCHANGED <<given, drops>>
      /\ Own(c) /\ Db(c) \in Names
      /\ Db(c)' = Db(c) /\ Owner(c)' = Owner(c) /\ request'[c] = request[c]
      /\ pc \in [Calls -> Places] /\ ServerTyped
      /\ faults \in 0 .. MaxFaults /\ (Fault => faults' \in 0 .. MaxFaults)
      /\ Owner(c) \in Users /\ users[Owner(c)] = c /\ (drops = 0 => dbs[Db(c)] = c)
  <2>1. pc[c] = "undo user" /\ UNCHANGED <<given, drops>>
    BY DEF UndoUser
  <2>2. ServerTyped
    BY DEF CreateInv, TypeOK, ServerTyped
  <2> QED BY <2>1, <2>2, CallFacts DEF Own, Request, Has
<1> DEFINE held == {g \in grants : g[2] = Owner(c)}
<1>2. ASSUME UNCHANGED server, Goto(c, "undo db"), excused' = excused \cup {c},
             faults' \in 0 .. MaxFaults
      PROVE  CreateInv'
  <2>1. pc'[c] = "undo db"
    BY <1>1, <1>2 DEF Goto
  <2>2. Own(c)'
    BY <1>1, <1>2, <2>1 DEF Own, Request, Has, Finished, HasNoMore, server
  <2> QED BY <1>1, <1>2, <2>2, NothingDone DEF Places
<1>3. ASSUME users' = [users EXCEPT ![Owner(c)] = Nobody], grants' = grants \ held,
             UNCHANGED <<dbs, owner>>,
             Goto(c, "undo db"), faults' \in 0 .. MaxFaults,
             excused' = excused \/ excused' = excused \cup {c}
      PROVE  CreateInv'
  <2>1. /\ ServerTyped' /\ users'[Owner(c)] = Nobody
        /\ \A u \in Users \ {Owner(c)} : users'[u] = users[u]
    BY <1>1, <1>3 DEF ServerTyped
  <2>2. TouchesItsOwn(c)
    BY <1>1, <1>3, <2>1 DEF TouchesItsOwn
  <2>3. ASSUME pc'[c] = "undo db" PROVE Own(c)'
    <3>1. Request(c)' /\ Has(c)'
      BY <1>1, <1>3, <2>1, <2>3 DEF Own, Request, Has
    <3>2. Finished(c)'
      BY <1>1, <1>3, <2>1, <2>3 DEF Own, Finished, Has, Request, Postgres, given
    <3>3. HasNoMore(c)'
      BY <1>1, <1>3, <2>1, <2>3 DEF Own, HasNoMore, Has, Request
    <3> QED BY <3>1, <3>2, <3>3 DEF Own
  <2>4. GrantsOwned'
    <3>1. ASSUME NEW g \in grants', NEW d \in Calls, users[g[2]] = d,
                 pc[d] \in {"settle", "done", "failed"} \/ d \in excused
          PROVE  users'[g[2]] = d /\ (pc'[d] \in {"settle", "done", "failed"} \/ d \in excused')
      <4>1. g[2] # Owner(c) /\ g[2] \in Users
        BY <1>1, <1>3, <3>1 DEF ServerTyped
      <4>2. d # c \/ c \in excused
        BY <1>1, <3>1
      <4> QED BY <1>1, <1>3, <2>1, <3>1, <4>1, <4>2 DEF Goto
    <3>2. \A g \in grants' : g \in grants
      BY <1>3
    <3> QED BY <3>1, <3>2 DEF GrantsOwned, CreateInv
  <2> QED BY <1>1, <1>3, <2>1, <2>2, <2>3, <2>4, Executed DEF Places
(* The server refuses only while somebody has made a grant to the user.    *)
<1>4. held # {} => c \in excused
  <2>1. ASSUME NEW g \in held PROVE c \in excused
    BY <1>1 DEF GrantsOwned, CreateInv
  <2> QED BY <2>1
<1>5. \/ /\ users' = [users EXCEPT ![Owner(c)] = Nobody] /\ grants' = grants \ held
         /\ UNCHANGED <<dbs, owner>> /\ Goto(c, "undo db") /\ UNCHANGED <<faults, excused>>
      \/ /\ users[Owner(c)] = Nobody \/ (Postgres /\ held # {})
         /\ Goto(c, "undo db") /\ UNCHANGED <<server, faults, excused>>
      \/ /\ Fault /\ users' = [users EXCEPT ![Owner(c)] = Nobody] /\ grants' = grants \ held
         /\ UNCHANGED <<dbs, owner>> /\ Goto(c, "undo db") /\ excused' = excused \cup {c}
      \/ Fault /\ Goto(c, "undo db") /\ excused' = excused \cup {c} /\ UNCHANGED server
  <2>1. Unprotected(c)
    BY <1>1 DEF Unprotected
  <2> QED BY <1>1, <2>1, Zenon DEF UndoUser, Statement
<1> HIDE DEF held
<1>6. excused = excused \cup {c} \/ c \notin excused
  OBVIOUS
<1> QED BY <1>1, <1>2, <1>3, <1>4, <1>5, <1>6

LEMMA UndoDbKeeps ==
  ASSUME CreateInv, NEW c \in Calls, UndoDb(c)
  PROVE  CreateInv'
<1> USE CreateDatabaseAssumption
<1>1. /\ pc[c] = "undo db" /\ UNCHANGED <<given, drops>>
      /\ Own(c) /\ Db(c) \in Names
      /\ Db(c)' = Db(c) /\ Owner(c)' = Owner(c) /\ request'[c] = request[c]
      /\ pc \in [Calls -> Places] /\ ServerTyped
      /\ faults \in 0 .. MaxFaults /\ (Fault => faults' \in 0 .. MaxFaults)
      /\ (drops = 0 => dbs[Db(c)] = c)
  <2>1. pc[c] = "undo db" /\ UNCHANGED <<given, drops>>
    BY DEF UndoDb
  <2>2. ServerTyped
    BY DEF CreateInv, TypeOK, ServerTyped
  <2> QED BY <2>1, <2>2, CallFacts DEF Own, Has
<1>2. ASSUME UNCHANGED server, Goto(c, "undone"), excused' = excused \/ excused' = excused \cup {c},
             faults' \in 0 .. MaxFaults,
             drops # 0 \/ c \in excused'
      PROVE  CreateInv'
  <2>1. pc'[c] = "undone"
    BY <1>1, <1>2 DEF Goto
  <2>2. Own(c)'
    BY <1>1, <1>2, <2>1 DEF Own, Request, Has, Finished, HasNoMore, server
  <2> QED BY <1>1, <1>2, <2>2, NothingDone DEF Places
<1>3. ASSUME DropIt(Db(c)), Goto(c, "undone"), faults' \in 0 .. MaxFaults,
             excused' = excused \/ excused' = excused \cup {c}
      PROVE  CreateInv'
  <2>1. /\ ServerTyped' /\ dbs'[Db(c)] = Nobody /\ users' = users
        /\ \A n \in Names \ {Db(c)} : dbs'[n] = dbs[n] /\ owner'[n] = owner[n]
        /\ grants' \subseteq grants /\ \A g \in grants \ grants' : g[1] = Db(c)
    BY <1>1, <1>3 DEF ServerTyped, DropIt
  <2>2. TouchesItsOwn(c)
    BY <1>1, <1>3, <2>1 DEF TouchesItsOwn
  <2>3. ASSUME pc'[c] = "undone" PROVE Own(c)'
    <3>1. Request(c)' /\ Has(c)'
      BY <1>1, <1>3, <2>1, <2>3 DEF Own, Request, Has
    <3>2. Finished(c)'
      BY <1>1, <1>3, <2>1, <2>3 DEF Own, Finished, Has, Request, Postgres, given
    <3>3. HasNoMore(c)'
      BY <1>1, <1>3, <2>1, <2>3 DEF Own, HasNoMore, Has, Request
    <3> QED BY <3>1, <3>2, <3>3 DEF Own
  <2>4. GrantsOwned'
    <3>1. ASSUME NEW d \in Calls, pc[d] \in {"settle", "done", "failed"} \/ d \in excused
          PROVE  pc'[d] \in {"settle", "done", "failed"} \/ d \in excused'
      BY <1>1, <1>3, <3>1 DEF Goto
    <3> QED BY <2>1, <3>1 DEF GrantsOwned, CreateInv
  <2> QED BY <1>1, <1>3, <2>1, <2>2, <2>3, <2>4, Executed DEF Places
<1>4. \/ DropIt(Db(c)) /\ Goto(c, "undone") /\ UNCHANGED <<faults, excused>>
      \/ dbs[Db(c)] = Nobody /\ Goto(c, "undone") /\ UNCHANGED <<server, faults, excused>>
      \/ Fault /\ DropIt(Db(c)) /\ Goto(c, "undone") /\ excused' = excused \cup {c}
      \/ Fault /\ Goto(c, "undone") /\ excused' = excused \cup {c} /\ UNCHANGED server
  <2>1. Unprotected(c)
    BY <1>1 DEF Unprotected
  <2> QED BY <1>1, <2>1, Zenon DEF UndoDb, Statement
<1> QED BY <1>1, <1>2, <1>3, <1>4

(* drop_db takes from every call, and excuses them all. *)
LEMMA DropDbKeeps ==
  ASSUME CreateInv, NEW n \in Names, DropDb(n)
  PROVE  CreateInv'
<1> USE CreateDatabaseAssumption
<1>1. /\ UNCHANGED <<given, pc, excused, faults, users>> /\ drops' # 0 /\ drops' \in 0 .. MaxDrops
      /\ dbs' = [dbs EXCEPT ![n] = Nobody] /\ owner' = [owner EXCEPT ![n] = Nobody]
      /\ grants' \subseteq grants
  <2>1. drops \in 0 .. MaxDrops /\ drops < MaxDrops /\ drops' = drops + 1
    BY DEF DropDb, CreateInv, TypeOK
  <2>2. drops' # 0 /\ drops' \in 0 .. MaxDrops
    BY <2>1
  <2> QED BY <2>2 DEF DropDb, DropIt
<1>2. TypeOK'
  BY <1>1 DEF CreateInv, TypeOK, given
<1>3. GrantsOwned'
  BY <1>1 DEF CreateInv, GrantsOwned
<1>4. ASSUME NEW c \in Calls PROVE Own(c)'
  <2>1. Own(c) /\ Db(c)' = Db(c) /\ Owner(c)' = Owner(c) /\ request' = request
    BY <1>1 DEF CreateInv, Own, Db, Owner, given
  <2>2. \A m \in Names : dbs'[m] = c => dbs[m] = c
    BY <1>1 DEF CreateInv, TypeOK
  <2> QED BY <1>1, <2>1, <2>2 DEF Own, Request, Has, Finished, HasNoMore
<1> QED BY <1>2, <1>3, <1>4 DEF CreateInv, Own

LEMMA CreateInvNext == CreateInv /\ [Next]_vars => CreateInv'
<1>1. ASSUME CreateInv, UNCHANGED vars PROVE CreateInv'
  <2>1. TypeOK' /\ GrantsOwned'
    BY <1>1 DEF CreateInv, TypeOK, GrantsOwned, vars, given, server
  <2>2. ASSUME NEW c \in Calls PROVE Own(c)'
    <3>1. Own(c) /\ Db(c)' = Db(c) /\ Owner(c)' = Owner(c)
      BY <1>1 DEF CreateInv, Own, Db, Owner, vars, given
    <3>2. Request(c)' /\ Has(c)' /\ HasNoMore(c)'
      BY <1>1, <3>1 DEF Own, Request, Has, HasNoMore, vars, given, server
    <3>3. Finished(c)'
      BY <1>1, <3>1 DEF Own, Finished, Postgres, vars, given, server
    <3> QED BY <3>2, <3>3 DEF Own
  <2> QED BY <2>1, <2>2 DEF CreateInv, Own
<1> QED BY <1>1, CreateDbKeeps, CreateUserKeeps, GrantKeeps, SettleKeeps, UndoUserKeeps,
           UndoDbKeeps, DropDbKeeps DEF Next

(* For any requests for databases and owners, in any interleaving: what a  *)
(* call reports as created no rollback takes away, and a call that fails   *)
(* leaves nothing, whatever statements fail where the code compensates.    *)
THEOREM CreatesAlwaysAllOrNothing == Spec => []CreatesAllOrNothing
<1>1. CreateInv => CreatesAllOrNothing
  BY DEF CreateInv, CreatesAllOrNothing, NoCallUndone, FailureLeavesNothing, Made, Finished, HasNoMore
<1> QED BY <1>1, CreateInvInit, CreateInvNext, PTL DEF Spec

-----------------------------------------------------------------------------
(* DumpUser *)

(* A password belongs to the one call that drew it; once a call has given  *)
(* the user its password there is one, with the privileges once granted.   *)
Drawn ==
  /\ \A c \in Provisions : step[c] = "idle" <=> minted[c] = 0
  /\ \A c, d \in Provisions : minted[c] = minted[d] /\ minted[c] # 0 => c = d
  /\ \A c \in Provisions : step[c] \in {"grant", "verify", "put", "done"} => password # 0
  /\ \A c \in Provisions : step[c] \in {"verify", "put", "done"} => granted
  /\ \A i \in Instances : vault[i] # Admin => password # 0 /\ granted

(* The user has the password of a call that has come that far.             *)
Given ==
  password # 0 =>
    \E c \in Provisions : minted[c] = password /\ step[c] \notin {"idle", "create"}

(* Who is alone and under way is the only one. *)
AloneIsOnly == \A c \in Provisioning : alone[c] => Provisioning = {c}

(* Who stores a credential after a call that ran alone has given the user  *)
(* another password since.                                                 *)
LaterRotates ==
  \A c, d \in Provisions :
    step[c] = "done" /\ alone[c] /\ step[d] \in {"grant", "verify", "put"} => password # minted[c]

ProvisionInv ==
  DUTypeOK /\ Drawn /\ Given /\ AloneIsOnly /\ LaterRotates /\ StaleOnlyByRotation

LEMMA ProvisionInvInit == DUInit => ProvisionInv
<1> SUFFICES ASSUME DUInit PROVE ProvisionInv
  OBVIOUS
<1>1. DUTypeOK
  <2>1. password \in 0 .. drawn /\ drawn \in Nat /\ fails \in 0 .. MaxFails /\ 0 \in 0 .. drawn
    BY DumpUserAssumption DEF DUInit
  <2> QED BY <2>1 DEF DUInit, DUTypeOK, Admin
<1>2. Drawn /\ Given /\ AloneIsOnly /\ LaterRotates
  BY DEF DUInit, Drawn, Given, AloneIsOnly, LaterRotates, Provisioning
<1>3. StaleOnlyByRotation
  BY DEF DUInit, StaleOnlyByRotation, Works
<1> QED BY <1>1, <1>2, <1>3 DEF ProvisionInv

LEMMA ProvisionInvNext == ProvisionInv /\ [DUNext]_provisionVars => ProvisionInv'
<1> SUFFICES ASSUME ProvisionInv, [DUNext]_provisionVars PROVE ProvisionInv'
  OBVIOUS
<1> USE DumpUserAssumption DEF ProvisionInv
<1>1. ASSUME NEW c \in Provisions, OpenForProvision(c) PROVE ProvisionInv'
  <2>1. DUTypeOK'
    <3>1. /\ drawn \in Nat /\ drawn' = drawn + 1 /\ 0 .. drawn \subseteq 0 .. drawn'
          /\ drawn + 1 \in 0 .. drawn'
      BY <1>1 DEF OpenForProvision, DUTypeOK
    <3>2. PICK v \in {Admin, vault[target[c]]} : via' = [via EXCEPT ![c] = v]
      BY <1>1 DEF OpenForProvision
    <3>3. v \in 0 .. drawn
      BY <3>1, <3>2 DEF DUTypeOK, Admin
    <3>4. /\ via' \in [Provisions -> 0 .. drawn'] /\ minted' \in [Provisions -> 0 .. drawn']
          /\ vault' \in [Instances -> 0 .. drawn']
      BY <1>1, <3>1, <3>2, <3>3 DEF OpenForProvision, DUTypeOK
    <3>5. alone' \in [Provisions -> BOOLEAN]
      BY <1>1, Zenon DEF OpenForProvision
    <3>6. step' \in [Provisions -> {"idle", "create", "alter", "grant", "verify", "put", "done", "failed"}]
      BY <1>1 DEF OpenForProvision, StepTo, DUTypeOK
    <3> QED BY <1>1, <3>1, <3>4, <3>5, <3>6 DEF OpenForProvision, DUTypeOK
  <2>2. Drawn'
    BY <1>1 DEF OpenForProvision, DUTypeOK, StepTo, Drawn
  <2>3. AloneIsOnly'
    <3>1. \A d \in Provisions :
            alone'[d] => alone[d] /\ (Provisioning = {} \/ d \notin Provisioning \cup {c})
      BY <1>1, Zenon DEF OpenForProvision
    <3>2. Provisioning' = Provisioning \cup {c} /\ Provisioning \subseteq Provisions
      BY <1>1 DEF OpenForProvision, DUTypeOK, StepTo, Provisioning
    <3> QED BY <3>1, <3>2 DEF AloneIsOnly
  <2>4. LaterRotates'
    BY <1>1 DEF OpenForProvision, DUTypeOK, StepTo, LaterRotates
  <2>5. StaleOnlyByRotation'
    <3>1. \A d \in Provisions : ~alone[d] => ~alone'[d]
      BY <1>1, Zenon DEF OpenForProvision
    <3>2. /\ UNCHANGED <<password, granted, vault, target>>
          /\ \A d \in Provisions \ {c} : minted'[d] = minted[d] /\ step'[d] = step[d]
          /\ minted[c] = 0
      BY <1>1 DEF OpenForProvision, DUTypeOK, StepTo, Drawn
    <3> SUFFICES ASSUME NEW i \in Instances, ~Works(vault[i])
                 PROVE  \E d \in Provisions :
                          /\ minted'[d] = password
                          /\ \/ step'[d] \in {"alter", "grant", "verify", "put", "failed"}
                             \/ target[d] # i
                             \/ ~alone'[d]
      BY <3>2 DEF StaleOnlyByRotation, Works
    <3>3. PICK d \in Provisions :
            /\ minted[d] = password
            /\ \/ step[d] \in {"alter", "grant", "verify", "put", "failed"}
               \/ target[d] # i
               \/ ~alone[d]
      BY DEF StaleOnlyByRotation
    <3>4. password # 0
      BY DEF Works, Drawn
    <3> QED BY <3>1, <3>2, <3>3, <3>4
  <2>6. Given'
    BY <1>1 DEF OpenForProvision, DUTypeOK, StepTo, Given, Drawn
  <2> QED BY <2>1, <2>2, <2>3, <2>4, <2>5, <2>6
<1>2. ASSUME NEW c \in Provisions, CreateDumpUser(c) PROVE ProvisionInv'
  <2> USE <1>2 DEF CreateDumpUser, DUTypeOK, StepTo, provisionCallVars
  <2>1. DUTypeOK'
    OBVIOUS
  <2>2. Drawn'
    BY DEF Drawn
  <2>3. AloneIsOnly'
    BY DEF AloneIsOnly, Provisioning
  <2>4. LaterRotates'
    BY DEF LaterRotates, Drawn
  <2>5. StaleOnlyByRotation'
    BY DEF StaleOnlyByRotation, Works, Drawn
  <2>6. Given'
    BY DEF Given, Drawn
  <2> QED BY <2>1, <2>2, <2>3, <2>4, <2>5, <2>6
<1>3. ASSUME NEW c \in Provisions, AlterUser(c) PROVE ProvisionInv'
  <2> USE <1>3 DEF AlterUser, DUTypeOK, StepTo, provisionCallVars
  <2>1. DUTypeOK'
    OBVIOUS
  <2>2. Drawn'
    BY DEF Drawn
  <2>3. AloneIsOnly'
    BY DEF AloneIsOnly, Provisioning
  <2>4. LaterRotates'
    BY DEF LaterRotates, Drawn
  <2>5. StaleOnlyByRotation'
    BY DEF StaleOnlyByRotation, Works, Drawn
  <2>6. Given'
    BY DEF Given, Drawn
  <2> QED BY <2>1, <2>2, <2>3, <2>4, <2>5, <2>6
<1>4. ASSUME NEW c \in Provisions, GrantDumpUser(c) PROVE ProvisionInv'
  <2> USE <1>4 DEF GrantDumpUser, DUTypeOK, StepTo, provisionCallVars
  <2>1. DUTypeOK'
    OBVIOUS
  <2>2. Drawn'
    BY DEF Drawn
  <2>3. AloneIsOnly'
    BY DEF AloneIsOnly, Provisioning
  <2>4. LaterRotates'
    BY DEF LaterRotates
  <2>5. StaleOnlyByRotation'
    BY DEF StaleOnlyByRotation, Works
  <2>6. Given'
    BY DEF Given, Drawn
  <2> QED BY <2>1, <2>2, <2>3, <2>4, <2>5, <2>6
<1>5. ASSUME NEW c \in Provisions, Verify(c) PROVE ProvisionInv'
  <2> USE <1>5 DEF Verify, DUTypeOK, StepTo, provisionCallVars
  <2>1. DUTypeOK'
    OBVIOUS
  <2>2. Drawn'
    BY DEF Drawn
  <2>3. AloneIsOnly'
    BY DEF AloneIsOnly, Provisioning
  <2>4. LaterRotates'
    BY DEF LaterRotates
  <2>5. StaleOnlyByRotation'
    BY DEF StaleOnlyByRotation, Works
  <2>6. Given'
    BY DEF Given, Drawn
  <2> QED BY <2>1, <2>2, <2>3, <2>4, <2>5, <2>6
<1>6. ASSUME NEW c \in Provisions, PutCredential(c) PROVE ProvisionInv'
  <2> USE <1>6 DEF PutCredential, DUTypeOK, StepTo, provisionCallVars
  <2>1. DUTypeOK'
    OBVIOUS
  <2>2. Drawn'
    BY DEF Drawn
  <2>3. AloneIsOnly'
    BY DEF AloneIsOnly, Provisioning
  <2>4. LaterRotates'
    BY DEF LaterRotates, AloneIsOnly, Provisioning
  <2>5. StaleOnlyByRotation'
    <3> SUFFICES ASSUME NEW i \in Instances, ~Works(vault'[i])
                 PROVE  \E d \in Provisions :
                          /\ minted[d] = password
                          /\ \/ step'[d] \in {"alter", "grant", "verify", "put", "failed"}
                             \/ target[d] # i
                             \/ ~alone[d]
      BY DEF StaleOnlyByRotation, Works
    <3>1. step[c] = "put" /\ step'[c] = "done" /\ \A d \in Provisions \ {c} : step'[d] = step[d]
      OBVIOUS
    <3>2. CASE i = target[c]
      <4>1. minted[c] # password
        BY <3>2 DEF Works, Drawn
      <4>2. PICK d \in Provisions : minted[d] = password
        BY <3>1, <4>1 DEF Drawn, Given
      <4> QED BY <3>1, <4>1, <4>2 DEF LaterRotates, Drawn, Given
    <3>3. CASE i # target[c]
      <4>1. ~Works(vault[i])
        BY <3>3 DEF Works
      <4>2. PICK d \in Provisions :
              /\ minted[d] = password
              /\ \/ step[d] \in {"alter", "grant", "verify", "put", "failed"}
                 \/ target[d] # i
                 \/ ~alone[d]
        BY <4>1 DEF StaleOnlyByRotation
      <4> QED BY <3>1, <3>3, <4>2
    <3> QED BY <3>2, <3>3
  <2>6. Given'
    BY DEF Given, Drawn
  <2> QED BY <2>1, <2>2, <2>3, <2>4, <2>5, <2>6
<1>7. ASSUME NEW c \in Provisions, DUFail(c) PROVE ProvisionInv'
  <2> USE <1>7 DEF DUFail, DUTypeOK, StepTo, provisionCallVars, Provisioning
  <2>1. DUTypeOK'
    OBVIOUS
  <2>2. Drawn'
    BY DEF Drawn
  <2>3. AloneIsOnly'
    BY DEF AloneIsOnly
  <2>4. LaterRotates'
    BY DEF LaterRotates
  <2>5. StaleOnlyByRotation'
    BY DEF StaleOnlyByRotation, Works
  <2>6. Given'
    BY DEF Given, Drawn
  <2> QED BY <2>1, <2>2, <2>3, <2>4, <2>5, <2>6
<1>8. CASE UNCHANGED provisionVars
  BY <1>8 DEF provisionVars, DUTypeOK, Drawn, Given, AloneIsOnly, LaterRotates, StaleOnlyByRotation, Works, Provisioning
<1> QED BY <1>1, <1>2, <1>3, <1>4, <1>5, <1>6, <1>7, <1>8 DEF DUNext

(* Whatever provisions overlap and fail, for any instances: a credential   *)
(* of the vault only stops working by a rotation of a call that failed or  *)
(* is under way, that was for another instance, or that overlapped one.    *)
THEOREM ProvisionsAlwaysSound == DUSpec => []ProvisionsSound
<1>1. ProvisionInv => ProvisionsSound
  BY DEF ProvisionInv, ProvisionsSound
<1> QED BY <1>1, ProvisionInvInit, ProvisionInvNext, PTL DEF DUSpec

-----------------------------------------------------------------------------
(* SupabaseMigrate *)

SMPlaces ==
  Ended \cup {"list schemas", "dump roles", "open dump", "pg_dump", "apply roles",
              "pg_restore", "reset", "count", "remove artifacts", "stop stack", "remove tree"}
SMRecords ==
  [pc : SMPlaces, knows : {"nothing", "own", "stale"}, open : {"no", "alone", "shared"},
   source : 0 .. 2, dest : 0 .. 2]

(* Whoever may have restored other passwords resets them next, or has      *)
(* ended without.                                                          *)
Passwords == smStack.pass = "own" \/ Under({"reset", "unreset"}) # {}

MigrationInv == SMTypeOK /\ smCall \in [SMCalls -> SMRecords] /\ Passwords

LEMMA NoSMCallIs ==
  /\ NoSMCall \in SMRecords
  /\ \A p \in SMPlaces : [NoSMCall EXCEPT !.pc = p] \in SMRecords
<1>1. 0 \in 0 .. 2 /\ "idle" \in SMPlaces
  BY DEF SMPlaces, Ended
<1> QED BY <1>1 DEF NoSMCall, SMRecords

LEMMA MigrationInvInit == SMInit => MigrationInv
<1> SUFFICES ASSUME SMInit PROVE MigrationInv
  OBVIOUS
<1>1. smCall \in [SMCalls -> SMRecords]
  BY NoSMCallIs DEF SMInit
<1>2. \A c \in SMCalls : smCall[c].source \in 0 .. 2 /\ smCall[c].dest \in 0 .. 2
  <2>1. \A c \in SMCalls : smCall[c] \in SMRecords
    BY <1>1
  <2> QED BY <2>1 DEF SMRecords
<1>3. SMTypeOK
  <2>1. smFaults \in 0 .. SMMaxFaults
    BY SMAssumption DEF SMInit
  <2> QED BY <1>2, <2>1 DEF SMInit, SMTypeOK, NoDir, FreshStack, Amounts
<1>4. Passwords
  BY DEF SMInit, Passwords, FreshStack
<1> QED BY <1>1, <1>3, <1>4 DEF MigrationInv

(* What a step of one call does to its record. *)
LEMMA MigrationCall ==
  ASSUME smCall \in [SMCalls -> SMRecords], NEW c \in SMCalls, NEW r \in SMRecords,
         smCall' = [smCall EXCEPT ![c] = r]
  PROVE  /\ smCall' \in [SMCalls -> SMRecords] /\ smCall'[c] = r
         /\ \A d \in SMCalls : d # c => smCall'[d] = smCall[d]
OBVIOUS

(* A step that restores no passwords and takes no call from its reset. *)
LEMMA PasswordsStay ==
  ASSUME Passwords, smStack'.pass \in {"own", smStack.pass},
         \A d \in SMCalls : smCall[d].pc \in {"reset", "unreset"}
                              => smCall'[d].pc \in {"reset", "unreset"}
  PROVE  Passwords'
BY DEF Passwords, Under

LEMMA SMGoes ==
  ASSUME smCall \in [SMCalls -> SMRecords], NEW c \in SMCalls, NEW p \in SMPlaces
  PROVE  /\ SMGoto(c, p) =>
              /\ smCall' \in [SMCalls -> SMRecords] /\ smCall'[c].pc = p
              /\ \A d \in SMCalls : d # c => smCall'[d] = smCall[d]
         /\ SMEnd(c, p) =>
              /\ smCall' \in [SMCalls -> SMRecords] /\ smCall'[c].pc = p
              /\ \A d \in SMCalls : d # c => smCall'[d] = smCall[d]
<1>1. ASSUME SMGoto(c, p)
      PROVE  /\ smCall' \in [SMCalls -> SMRecords] /\ smCall'[c].pc = p
             /\ \A d \in SMCalls : d # c => smCall'[d] = smCall[d]
  <2> DEFINE r == [smCall[c] EXCEPT !.pc = p]
  <2>1. r \in SMRecords /\ r.pc = p
    BY DEF SMRecords
  <2>2. smCall' = [smCall EXCEPT ![c] = r]
    BY <1>1 DEF SMGoto
  <2> HIDE DEF r
  <2> QED BY <2>1, <2>2, MigrationCall
<1>2. ASSUME SMEnd(c, p)
      PROVE  /\ smCall' \in [SMCalls -> SMRecords] /\ smCall'[c].pc = p
             /\ \A d \in SMCalls : d # c => smCall'[d] = smCall[d]
  <2> DEFINE r == [NoSMCall EXCEPT !.pc = p]
  <2>1. r \in SMRecords /\ r.pc = p
    BY NoSMCallIs DEF NoSMCall
  <2>2. smCall' = [smCall EXCEPT ![c] = r]
    BY <1>2 DEF SMEnd
  <2> HIDE DEF r
  <2> QED BY <2>1, <2>2, MigrationCall
<1> QED BY <1>1, <1>2

Stacks ==
  [up : BOOLEAN, tree : BOOLEAN, data : Amounts, pass : {"own", "other"},
   functions : Amounts, objects : Amounts]
Dirs == [there : BOOLEAN, roles : Amounts, dump : Amounts]

(* What there is to show of a step, once its effects are known. *)
LEMMA MigrationStep ==
  ASSUME smDir' \in Dirs, smStack' \in Stacks, smFaults' \in 0 .. SMMaxFaults,
         smCall' \in [SMCalls -> SMRecords], Passwords'
  PROVE  MigrationInv'
<1>1. \A d \in SMCalls : smCall'[d].source \in 0 .. 2 /\ smCall'[d].dest \in 0 .. 2
  <2>1. \A d \in SMCalls : smCall'[d] \in SMRecords
    OBVIOUS
  <2> QED BY <2>1 DEF SMRecords
<1>2. SMTypeOK'
  BY <1>1 DEF SMTypeOK, Stacks, Dirs
<1> QED BY <1>2 DEF MigrationInv

LEMMA Typed ==
  ASSUME MigrationInv
  PROVE  /\ smDir \in Dirs /\ smStack \in Stacks /\ smFaults \in 0 .. SMMaxFaults
         /\ smCall \in [SMCalls -> SMRecords] /\ Passwords
         /\ SMFault \/ SMNoFault => smFaults' \in 0 .. SMMaxFaults
BY SMAssumption DEF MigrationInv, SMTypeOK, Dirs, Stacks, SMFault, SMNoFault

(* Steps of a dump. *)
LEMMA DumpStep ==
  ASSUME MigrationInv, NEW c \in SMCalls,
         \/ BeginDump(c) \/ ListSchemas(c) \/ DumpRoles(c) \/ OpenDump(c) \/ PgDump(c)
  PROVE  MigrationInv'
<1>0. /\ {"list schemas", "dump roles", "open dump", "pg_dump", "failed", "done"} \subseteq SMPlaces
      /\ smFaults' \in 0 .. SMMaxFaults /\ smStack' = smStack
      /\ smCall[c].pc \notin {"reset", "unreset"}
      /\ smCall \in [SMCalls -> SMRecords] /\ smDir \in Dirs /\ smStack \in Stacks /\ Passwords
  <2>1. SMFault \/ SMNoFault
    BY DEF BeginDump, ListSchemas, DumpRoles, OpenDump, PgDump, SMNoFault
  <2>2. smStack' = smStack /\ smCall[c].pc \notin {"reset", "unreset"}
    BY DEF BeginDump, ListSchemas, DumpRoles, OpenDump, PgDump, SMAt
  <2> QED BY <2>1, <2>2, Typed DEF SMPlaces, Ended
<1>1. /\ smCall' \in [SMCalls -> SMRecords]
      /\ \A d \in SMCalls : d # c => smCall'[d].pc = smCall[d].pc
  <2>1. CASE OpenDump(c) /\ smDir.there
    <3>1. smCall' = Opened(c)
      BY <2>1 DEF OpenDump
    <3> DEFINE W == {d \in SMCalls : smCall[d].open # "no"} \cup {c}
               how == IF W = {c} THEN "alone" ELSE "shared"
               r(d) == IF d = c THEN [smCall[d] EXCEPT !.pc = "pg_dump", !.open = how]
                       ELSE IF d \in W THEN [smCall[d] EXCEPT !.open = how] ELSE smCall[d]
    <3>2. smCall' = [d \in SMCalls |-> r(d)]
      BY <3>1 DEF Opened
    <3>3. how \in {"no", "alone", "shared"}
      OBVIOUS
    <3> HIDE DEF how
    <3>4. ASSUME NEW d \in SMCalls
          PROVE  r(d) \in SMRecords /\ (d # c => r(d).pc = smCall[d].pc)
      <4>1. smCall[d] \in SMRecords
        BY <1>0
      <4> QED BY <1>0, <3>3, <4>1 DEF SMRecords
    <3> HIDE DEF r
    <3> QED BY <3>2, <3>4
  <2>2. CASE ~(OpenDump(c) /\ smDir.there)
    <3>1. \/ SMGoto(c, "list schemas") \/ SMGoto(c, "dump roles") \/ SMGoto(c, "open dump")
          \/ SMEnd(c, "failed") \/ SMEnd(c, "done")
      BY <2>2 DEF BeginDump, ListSchemas, DumpRoles, OpenDump, PgDump
    <3> QED BY <1>0, <3>1, SMGoes
  <2> QED BY <2>1, <2>2
<1>2. smDir' \in Dirs
  <2>1. \/ smDir' = smDir
        \/ smDir' = [smDir EXCEPT !.there = TRUE]
        \/ \E a \in Amounts :
             smDir' = [smDir EXCEPT !.roles = a] \/ smDir' = [smDir EXCEPT !.dump = a]
    <3>1. smDir.dump \in Amounts
      BY <1>0 DEF Dirs
    <3> QED BY <3>1 DEF BeginDump, ListSchemas, DumpRoles, OpenDump, PgDump, Amounts
  <2> QED BY <1>0, <2>1 DEF Dirs
<1>3. Passwords'
  BY <1>0, <1>1, PasswordsStay DEF Stacks
<1> QED BY <1>0, <1>1, <1>2, <1>3, MigrationStep

LEMMA RestoreStep ==
  ASSUME MigrationInv, NEW c \in SMCalls,
         \/ (\E known \in BOOLEAN : BeginRestore(c, known))
         \/ ApplyRoles(c) \/ PgRestore(c) \/ ResetRoles(c)
  PROVE  MigrationInv'
<1>1. /\ smDir' \in Dirs /\ smFaults' \in 0 .. SMMaxFaults
      /\ smStack \in Stacks /\ smCall \in [SMCalls -> SMRecords] /\ smCall[c] \in SMRecords
      /\ Passwords
  <2>1. SMFault \/ SMNoFault
    BY DEF BeginRestore, ApplyRoles, PgRestore, ResetRoles, SMNoFault
  <2>2. smDir' = smDir
    BY DEF BeginRestore, ApplyRoles, PgRestore, ResetRoles
  <2> QED BY <2>1, <2>2, Typed
<1>2. {"apply roles", "pg_restore", "reset", "unreset", "failed", "done"} \subseteq SMPlaces
  BY DEF SMPlaces, Ended
<1>3. CASE \E known \in BOOLEAN : BeginRestore(c, known)
  <2>1. PICK known \in BOOLEAN : BeginRestore(c, known)
    BY <1>3
  <2> DEFINE r == [smCall[c] EXCEPT !.pc = "apply roles", !.knows = IF known \/ smStack.tree THEN "own" ELSE "nothing"]
  <2>2. /\ smCall' = [smCall EXCEPT ![c] = r] /\ smStack' = smStack
        /\ smCall[c].pc = "idle"
    BY <2>1 DEF BeginRestore, SMAt
  <2>4. r \in SMRecords
    BY <1>1, <1>2 DEF SMRecords
  <2> HIDE DEF r
  <2>5. /\ smCall' \in [SMCalls -> SMRecords] /\ smCall'[c] = r
        /\ \A d \in SMCalls : d # c => smCall'[d] = smCall[d]
    BY <1>1, <2>2, <2>4, MigrationCall
  <2>6. Passwords'
    BY <1>1, <2>2, <2>5, PasswordsStay
  <2> QED BY <1>1, <2>2, <2>5, <2>6, MigrationStep
<1>4. CASE ApplyRoles(c)
  <2>1. /\ smStack' = smStack /\ smCall[c].pc = "apply roles"
        /\ SMGoto(c, "pg_restore") \/ SMEnd(c, "failed")
    BY <1>4 DEF ApplyRoles, SMAt
  <2>2. /\ smCall' \in [SMCalls -> SMRecords]
        /\ \A d \in SMCalls : d # c => smCall'[d] = smCall[d]
    BY <1>1, <1>2, <2>1, SMGoes
  <2>3. Passwords'
    BY <1>1, <2>1, <2>2, PasswordsStay
  <2> QED BY <1>1, <2>1, <2>2, <2>3, MigrationStep
<1>5. CASE PgRestore(c)
  <2>1. SMGoto(c, "reset")
    BY <1>5 DEF PgRestore
  <2>2. /\ smCall' \in [SMCalls -> SMRecords] /\ smCall'[c].pc = "reset"
    BY <1>1, <1>2, <2>1, SMGoes
  <2>3. Passwords'
    BY <2>2 DEF Passwords, Under
  <2>4. smStack' \in Stacks
    <3>1. \/ smStack' = smStack
          \/ \E a \in Amounts, clobbers \in BOOLEAN : Restores(a, clobbers)
      BY <1>5 DEF PgRestore, Amounts
    <3>2. ASSUME NEW a \in Amounts, NEW clobbers \in BOOLEAN, Restores(a, clobbers)
          PROVE  smStack' \in Stacks
      <4> DEFINE data == IF Count(a) > Count(smStack.data) THEN a ELSE smStack.data
                 pass == IF clobbers THEN "other" ELSE smStack.pass
      <4>1. smStack' = [smStack EXCEPT !.data = data, !.pass = pass]
        BY <3>2 DEF Restores
      <4>2. data \in Amounts /\ pass \in {"own", "other"}
        BY <1>1 DEF Stacks
      <4> HIDE DEF data, pass
      <4> QED BY <1>1, <4>1, <4>2 DEF Stacks
    <3> QED BY <1>1, <3>1, <3>2
  <2> QED BY <1>1, <2>2, <2>3, <2>4, MigrationStep
<1>6. CASE ResetRoles(c)
  <2>1. \/ smStack' = [smStack EXCEPT !.pass = "own"] /\ SMEnd(c, "done")
        \/ SMEnd(c, "unreset") /\ smStack' \in {smStack, [smStack EXCEPT !.pass = "other"]}
    BY <1>6 DEF ResetRoles
  <2>2. /\ smCall' \in [SMCalls -> SMRecords]
        /\ SMEnd(c, "unreset") => smCall'[c].pc = "unreset"
    BY <1>1, <1>2, <2>1, SMGoes
  <2>3. smStack' \in Stacks
    BY <1>1, <2>1 DEF Stacks
  <2>4. Passwords'
    <3>1. CASE smStack' = [smStack EXCEPT !.pass = "own"]
      BY <1>1, <3>1 DEF Passwords, Stacks
    <3>2. CASE SMEnd(c, "unreset")
      BY <2>2, <3>2 DEF Passwords, Under
    <3> QED BY <2>1, <3>1, <3>2
  <2> QED BY <1>1, <2>2, <2>3, <2>4, MigrationStep
<1> QED BY <1>3, <1>4, <1>5, <1>6

LEMMA VerifyStep ==
  ASSUME MigrationInv, NEW c \in SMCalls, CountSource(c) \/ CountDestination(c)
  PROVE  MigrationInv'
<1>1. /\ smDir' \in Dirs /\ smStack' = smStack /\ smStack \in Stacks
      /\ smCall \in [SMCalls -> SMRecords] /\ smCall[c] \in SMRecords
      /\ smCall[c].pc \notin {"reset", "unreset"} /\ Passwords
  BY Typed DEF CountSource, CountDestination, SMAt
<1>2. smFaults' \in 0 .. SMMaxFaults
  <2>1. SMFault \/ SMNoFault
    BY DEF CountSource, CountDestination
  <2> QED BY <2>1, Typed
<1>3. \E n \in 0 .. 2 :
        \/ smCall' = [smCall EXCEPT ![c].pc = "count", ![c].source = n]
        \/ smCall' = [smCall EXCEPT ![c].pc = "verified", ![c].dest = n]
  <2>1. 0 \in 0 .. 2 /\ 1 \in 0 .. 2 /\ 2 \in 0 .. 2
    OBVIOUS
  <2>2. \A a \in Amounts : Count(a) \in 0 .. 2
    BY <2>1 DEF Amounts, Count
  <2>3. CASE CountSource(c)
    BY <2>1, <2>2, <2>3 DEF CountSource, Amounts
  <2>4. CASE CountDestination(c)
    <3>1. smStack.data \in Amounts
      BY <1>1 DEF Stacks
    <3> DEFINE n == IF smStack.up THEN Count(smStack.data) ELSE 0
    <3>2. n \in 0 .. 2
      BY <2>1, <2>2, <3>1
    <3>3. \/ smCall' = [smCall EXCEPT ![c].pc = "verified", ![c].dest = n]
          \/ smCall' = [smCall EXCEPT ![c].pc = "verified", ![c].dest = 0]
      BY <2>4 DEF CountDestination
    <3> QED BY <2>1, <3>2, <3>3
  <2> QED BY <2>3, <2>4
<1>4. PICK n \in 0 .. 2 :
        \/ smCall' = [smCall EXCEPT ![c].pc = "count", ![c].source = n]
        \/ smCall' = [smCall EXCEPT ![c].pc = "verified", ![c].dest = n]
  BY <1>3
<1>5. \E r \in SMRecords : smCall' = [smCall EXCEPT ![c] = r]
  <2>1. CASE smCall' = [smCall EXCEPT ![c].pc = "count", ![c].source = n]
    <3>1. [smCall[c] EXCEPT !.pc = "count", !.source = n] \in SMRecords
      BY <1>1 DEF SMRecords, SMPlaces
    <3> WITNESS [smCall[c] EXCEPT !.pc = "count", !.source = n] \in SMRecords
    <3> QED BY <1>1, <2>1 DEF SMRecords
  <2>2. CASE smCall' = [smCall EXCEPT ![c].pc = "verified", ![c].dest = n]
    <3>1. [smCall[c] EXCEPT !.pc = "verified", !.dest = n] \in SMRecords
      BY <1>1 DEF SMRecords, SMPlaces, Ended
    <3> WITNESS [smCall[c] EXCEPT !.pc = "verified", !.dest = n] \in SMRecords
    <3> QED BY <1>1, <2>2 DEF SMRecords
  <2> QED BY <1>4, <2>1, <2>2
<1>6. PICK r \in SMRecords : smCall' = [smCall EXCEPT ![c] = r]
  BY <1>5
<1>7. /\ smCall' \in [SMCalls -> SMRecords] /\ smCall'[c] = r
      /\ \A d \in SMCalls : d # c => smCall'[d] = smCall[d]
  BY <1>1, <1>6, MigrationCall
<1>8. Passwords'
  BY <1>1, <1>7, PasswordsStay DEF Stacks
<1> QED BY <1>1, <1>2, <1>7, <1>8, MigrationStep

LEMMA StackStep ==
  ASSUME MigrationInv, NEW c \in SMCalls,
         \/ (\E how \in {"git", "copy"} : DeployFunctions(c, how))
         \/ StorageSync(c) \/ StopStack(c) \/ RemoveTree(c)
  PROVE  MigrationInv'
<1>1. /\ smDir' \in Dirs /\ smCall[c].pc \notin {"reset", "unreset"}
      /\ smStack \in Stacks /\ smCall \in [SMCalls -> SMRecords] /\ Passwords
  BY Typed DEF DeployFunctions, StorageSync, StopStack, RemoveTree, SMAt
<1>2. smFaults' \in 0 .. SMMaxFaults
  <2>1. SMFault \/ SMNoFault
    BY DEF DeployFunctions, StorageSync, StopStack, RemoveTree, SMNoFault
  <2> QED BY <2>1, Typed
<1>3. /\ {"done", "failed", "remove tree"} \subseteq SMPlaces
      /\ SMEnd(c, "done") \/ SMEnd(c, "failed") \/ SMGoto(c, "remove tree")
  BY DEF SMPlaces, Ended, DeployFunctions, StorageSync, StopStack, RemoveTree
<1>4. smStack' \in Stacks /\ smStack'.pass \in {"own", smStack.pass}
  <2>1. \/ \E a \in Amounts : smStack' = [smStack EXCEPT !.functions = a]
        \/ \E a \in Amounts : smStack' = [smStack EXCEPT !.objects = a]
        \/ smStack' \in {smStack, NoStack}
        \/ smStack' = [smStack EXCEPT !.up = FALSE]
        \/ smStack' = [smStack EXCEPT !.tree = FALSE, !.functions = "none"]
    <3>1. smStack.functions \in Amounts /\ smStack.objects \in Amounts
      BY <1>1 DEF Stacks
    <3> QED BY <3>1 DEF DeployFunctions, StorageSync, StopStack, RemoveTree, Amounts
  <2>2. NoStack \in Stacks /\ NoStack.pass = "own"
    BY DEF Stacks, NoStack, Amounts
  <2>3. smStack.pass \in {"own", "other"} /\ "none" \in Amounts
    BY <1>1 DEF Stacks, Amounts
  <2>4. CASE smStack' \in {smStack, NoStack}
    BY <1>1, <2>2, <2>4
  <2>5. CASE ~(smStack' \in {smStack, NoStack})
    BY <1>1, <2>1, <2>3, <2>5 DEF Stacks
  <2> QED BY <2>4, <2>5
<1>5. /\ smCall' \in [SMCalls -> SMRecords]
      /\ \A d \in SMCalls : d # c => smCall'[d] = smCall[d]
  BY <1>1, <1>3, SMGoes
<1>6. Passwords'
  BY <1>1, <1>4, <1>5, PasswordsStay
<1> QED BY <1>1, <1>2, <1>4, <1>5, <1>6, MigrationStep

LEMMA CleanStep ==
  ASSUME MigrationInv, NEW c \in SMCalls,
         BeginCleanup(c) \/ RemoveRoles(c) \/ RemoveDump(c) \/ RemoveDir(c)
  PROVE  MigrationInv'
<1>1. /\ smCall[c].pc \in {"idle", "remove artifacts"} /\ UNCHANGED <<smStack, smFaults>>
      /\ smDir \in Dirs /\ smStack \in Stacks /\ smFaults \in 0 .. SMMaxFaults
      /\ smCall \in [SMCalls -> SMRecords] /\ Passwords
      /\ {"remove artifacts", "stop stack"} \subseteq SMPlaces
  BY Typed DEF BeginCleanup, RemoveRoles, RemoveDump, RemoveDir, SMAt, SMPlaces
<1>2. smDir' \in Dirs
  <2>1. \/ smDir' \in {smDir, NoDir} \/ smDir' = [smDir EXCEPT !.roles = "none"]
        \/ smDir' = [smDir EXCEPT !.dump = "none"]
    BY DEF BeginCleanup, RemoveRoles, RemoveDump, RemoveDir
  <2>2. NoDir \in Dirs
    BY DEF Dirs, NoDir, Amounts
  <2>3. CASE smDir' \in {smDir, NoDir}
    BY <1>1, <2>2, <2>3
  <2>4. CASE smDir' \notin {smDir, NoDir}
    BY <1>1, <2>1, <2>4 DEF Dirs, Amounts
  <2> QED BY <2>3, <2>4
<1>3. /\ smCall' \in [SMCalls -> SMRecords]
      /\ \A d \in SMCalls : smCall[d].pc \in {"reset", "unreset"}
                              => smCall'[d].pc \in {"reset", "unreset"}
  <2>1. CASE RemoveDump(c)
    <3> DEFINE r(d) == [smCall[d] EXCEPT !.open = "no"]
    <3>1. smCall' = [d \in SMCalls |-> r(d)]
      BY <2>1 DEF RemoveDump
    <3>2. \A d \in SMCalls : r(d) \in SMRecords /\ r(d).pc = smCall[d].pc
      <4>1. \A d \in SMCalls : smCall[d] \in SMRecords
        BY <1>1
      <4> QED BY <4>1 DEF SMRecords
    <3> HIDE DEF r
    <3> QED BY <3>1, <3>2
  <2>2. CASE smCall' = smCall
    BY <1>1, <2>2
  <2>3. CASE SMGoto(c, "remove artifacts") \/ SMGoto(c, "stop stack")
    <3>1. /\ smCall' \in [SMCalls -> SMRecords]
          /\ \A d \in SMCalls : d # c => smCall'[d] = smCall[d]
      BY <1>1, <2>3, SMGoes
    <3> QED BY <1>1, <3>1
  <2> QED BY <2>1, <2>2, <2>3 DEF BeginCleanup, RemoveRoles, RemoveDir
<1>4. Passwords'
  BY <1>1, <1>3, PasswordsStay DEF Stacks
<1> QED BY <1>1, <1>2, <1>3, <1>4, MigrationStep

LEMMA RestartStep ==
  ASSUME MigrationInv, Install \/ SMCrash \/ UNCHANGED smVars
  PROVE  MigrationInv'
<1>1. /\ smDir' = smDir /\ smDir \in Dirs /\ smStack \in Stacks
      /\ smFaults \in 0 .. SMMaxFaults
      /\ smCall \in [SMCalls -> SMRecords] /\ Passwords
  BY Typed DEF Install, SMCrash, smVars
<1>2. CASE UNCHANGED smVars
  <2>1. UNCHANGED <<smStack, smCall, smFaults>>
    BY <1>2 DEF smVars
  <2>2. Passwords'
    BY <1>1, <2>1 DEF Passwords, Under
  <2> QED BY <1>1, <2>1, <2>2, MigrationStep
<1>3. CASE Install
  <2> DEFINE r(c) == IF smCall[c].knows = "own" THEN [smCall[c] EXCEPT !.knows = "stale"]
                     ELSE smCall[c]
  <2>1. smFaults' = smFaults /\ smStack' = FreshStack /\ smCall' = [c \in SMCalls |-> r(c)]
    BY <1>3 DEF Install
  <2>2. smStack' \in Stacks /\ smStack'.pass = "own"
    BY <2>1 DEF FreshStack, Stacks, Amounts
  <2>3. \A c \in SMCalls : r(c) \in SMRecords
    <3>1. \A c \in SMCalls : smCall[c] \in SMRecords
      BY <1>1
    <3> QED BY <3>1 DEF SMRecords
  <2> HIDE DEF r
  <2>4. smCall' \in [SMCalls -> SMRecords]
    BY <2>1, <2>3
  <2>5. Passwords'
    BY <2>2 DEF Passwords
  <2> QED BY <1>1, <2>1, <2>2, <2>4, <2>5, MigrationStep
<1>4. CASE SMCrash
  <2> DEFINE r(c) == IF c \in Restoring THEN [NoSMCall EXCEPT !.pc = "unreset"]
                     ELSE IF c \in Under(Ended) THEN smCall[c]
                     ELSE [NoSMCall EXCEPT !.pc = "failed"]
  <2>1. /\ smFaults' \in 0 .. SMMaxFaults /\ smStack' = smStack
        /\ smCall' = [c \in SMCalls |-> r(c)]
    BY <1>4, Typed DEF SMCrash
  <2>2. ASSUME NEW c \in SMCalls
        PROVE  /\ r(c) \in SMRecords
               /\ smCall[c].pc \in {"reset", "unreset"} => r(c).pc \in {"reset", "unreset"}
    <3>1. smCall[c] \in SMRecords
      BY <1>1
    <3>2. [NoSMCall EXCEPT !.pc = "unreset"] \in SMRecords /\ [NoSMCall EXCEPT !.pc = "failed"] \in SMRecords
      BY NoSMCallIs DEF SMPlaces, Ended
    <3>3. /\ smCall[c].pc = "reset" => c \in Restoring
          /\ smCall[c].pc = "unreset" => c \in Under(Ended)
      BY DEF Restoring, Under, Ended
    <3> QED BY <3>1, <3>2, <3>3 DEF NoSMCall
  <2> HIDE DEF r
  <2>3. /\ smCall' \in [SMCalls -> SMRecords] /\ \A c \in SMCalls : smCall'[c] = r(c)
    BY <2>1, <2>2
  <2>4. Passwords'
    BY <1>1, <2>1, <2>2, <2>3, PasswordsStay DEF Stacks
  <2> QED BY <1>1, <2>1, <2>3, <2>4, MigrationStep
<1> QED BY <1>2, <1>3, <1>4

LEMMA MigrationInvNext == MigrationInv /\ [SMNext]_smVars => MigrationInv'
<1> SUFFICES ASSUME MigrationInv, [SMNext]_smVars PROVE MigrationInv'
  OBVIOUS
<1>1. CASE Install \/ SMCrash \/ UNCHANGED smVars
  BY <1>1, RestartStep
<1>2. ASSUME NEW c \in SMCalls,
             \/ BeginDump(c) \/ ListSchemas(c) \/ DumpRoles(c) \/ OpenDump(c) \/ PgDump(c)
             \/ (\E known \in BOOLEAN : BeginRestore(c, known)) \/ ApplyRoles(c)
             \/ PgRestore(c) \/ ResetRoles(c) \/ CountSource(c) \/ CountDestination(c)
             \/ (\E how \in {"git", "copy"} : DeployFunctions(c, how))
             \/ StorageSync(c) \/ BeginCleanup(c) \/ RemoveRoles(c) \/ RemoveDump(c)
             \/ RemoveDir(c) \/ StopStack(c) \/ RemoveTree(c)
      PROVE  MigrationInv'
  BY <1>2, DumpStep, RestoreStep, VerifyStep, StackStep, CleanStep
<1> QED BY <1>1, <1>2 DEF SMNext

(* However dumps, restores, cleanups and new installations overlap, fail   *)
(* and are repeated: the services can log in once no restore is under way  *)
(* and none ended without its reset (supabase_ops.go).                     *)
THEOREM MigrationAlwaysSound == SMSpec => []MigrationSound
<1>1. ASSUME MigrationInv PROVE MigrationSound
  <2>1. ServicesCanLogIn
    <3>1. ASSUME NEW c \in Under({"reset", "unreset"})
          PROVE  c \in Restoring \/ c \in Under({"unreset"})
      BY DEF Under, Restoring
    <3> QED BY <1>1, <3>1 DEF MigrationInv, Passwords, ServicesCanLogIn
  <2> QED BY <1>1, <2>1 DEF MigrationInv, MigrationSound
<1> QED BY <1>1, MigrationInvInit, MigrationInvNext, PTL DEF SMSpec
=============================================================================
