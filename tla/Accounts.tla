------------------------------ MODULE Accounts ------------------------------
(***************************************************************************)
(* Customer accounts, their companies, and the copies of company and sales *)
(* representative that every order carries: UsersService, with the parts   *)
(* of OrdersService.create and of the Ring Builder intake that make        *)
(* accounts, companies and orders.                                         *)
(*                                                                         *)
(* An account is identified with its email.  Names are abstracted: which   *)
(* accounts or companies carry the same name is any choice.                *)
(***************************************************************************)
EXTENDS Naturals, FiniteSets

CONSTANTS
  Customers,  \* accounts with role CUSTOMER that may be created
  Companies,  \* bound: ids of the companies that may be created
  Orders,     \* bound: ids of the orders that may be placed
  Reps,       \* the sales representatives
  None        \* SQL NULL

ASSUME AccountsAssumption == None \notin Customers \cup Companies \cup Reps

VARIABLES
  user,     \* the customer accounts
  company,  \* the companies
  order,    \* the orders: who placed them, and their copies of company and rep
  resolved  \* history: the companies an administrator has resolved a group into

vars == <<user, company, order, resolved>>

AbsentUser == [state |-> "FREE", company |-> None, rep |-> None]
AbsentCompany == [exists |-> FALSE, rep |-> None]
AbsentOrder ==
  [exists |-> FALSE, customer |-> None, email |-> None, company |-> None, rep |-> None,
   source |-> "PORTAL"]

TablesOK ==
  /\ user \in [Customers -> [state : {"FREE", "ACTIVE", "REMOVED"}, company : Companies \cup {None}, rep : Reps \cup {None}]]
  /\ company \in [Companies -> [exists : BOOLEAN, rep : Reps \cup {None}]]
  /\ order \in [Orders -> [exists : BOOLEAN, customer : Customers \cup {None},
                           email : Customers \cup {None}, company : Companies \cup {None},
                           rep : Reps \cup {None}, source : {"PORTAL", "STAFF", "RING_BUILDER"}]]

TypeOK == TablesOK /\ resolved \subseteq Companies

Init ==
  /\ user = [u \in Customers |-> AbsentUser]
  /\ company = [c \in Companies |-> AbsentCompany]
  /\ order = [o \in Orders |-> AbsentOrder]
  /\ resolved = {}

Accounts == {u \in Customers : user[u].state = "ACTIVE"}

\* Bound: the email of an account that was removed does not register again.
Free(u) == user[u].state = "FREE"
Firms == {c \in Companies : company[c].exists}
Members(c) == {u \in Accounts : user[u].company = c}

\* Orders are matched to accounts by customerId or by the typed email.
OrdersOf(us) == {o \in Orders : order[o].exists /\ (order[o].customer \in us \/ order[o].email \in us)}
OrdersIn(c) == {o \in Orders : order[o].exists /\ order[o].company = c}

Moved(os, c, r) ==
  [o \in Orders |-> IF o \in os THEN [order[o] EXCEPT !.company = c, !.rep = r] ELSE order[o]]
Repped(os, r) ==
  [o \in Orders |-> IF o \in os THEN [order[o] EXCEPT !.rep = r] ELSE order[o]]

\* Accounts us join company c with representative r.
Joined(us, c, r) ==
  [u \in Customers |-> IF u \in us THEN [user[u] EXCEPT !.company = c, !.rep = r] ELSE user[u]]
Founded(c, r) == [company EXCEPT ![c] = [exists |-> TRUE, rep |-> r]]

-----------------------------------------------------------------------------
(* Accounts are made *)

\* By Admin or by a sales representative, with a company of its own.
CreateCustomer(u, c, r) ==
  /\ Free(u) /\ c \notin Firms
  /\ company' = Founded(c, r)
  /\ user' = [user EXCEPT ![u] = [state |-> "ACTIVE", company |-> c, rep |-> r]]
  /\ UNCHANGED order

AddTeammate(u, c) ==
  /\ Free(u) /\ c \in Firms
  /\ user' = [user EXCEPT ![u] = [state |-> "ACTIVE", company |-> c, rep |-> company[c].rep]]
  /\ UNCHANGED <<company, order>>

\* findOrCreateCustomer: an account without company or representative.
RegisterByRingBuilder(u) ==
  /\ Free(u)
  /\ user' = [user EXCEPT ![u] = [state |-> "ACTIVE", company |-> None, rep |-> None]]
  /\ UNCHANGED <<company, order>>

\* Orders keep the id and the email of an account that is removed.
Remove(u) ==
  /\ u \in Accounts
  /\ user' = [user EXCEPT ![u] = [AbsentUser EXCEPT !.state = "REMOVED"]]
  /\ UNCHANGED <<company, order>>

-----------------------------------------------------------------------------
(* UsersService.update *)

\* Bug: teammates keep the representative they had.
ChangeOwnRep(u, r) ==
  /\ u \in Accounts
  /\ LET c == user[u].company
     IN  /\ company' = IF c = None THEN company ELSE [company EXCEPT ![c].rep = r]
         /\ user' = [user EXCEPT ![u].rep = r]
         /\ order' = Repped(IF c = None THEN OrdersOf({u}) ELSE OrdersIn(c), r)

\* Bug: the company keeps the representative it had.
ChangeMembersRep(u, r) ==
  /\ u \in Accounts
  /\ LET c == user[u].company
         us == IF c = None THEN {u} ELSE Members(c)
     IN  /\ user' = [v \in Customers |-> IF v \in us THEN [user[v] EXCEPT !.rep = r] ELSE user[v]]
         /\ order' = Repped(IF c = None THEN OrdersOf({u}) ELSE OrdersIn(c), r)
  /\ UNCHANGED company

\* One representative per company: a change reaches every teammate and the
\* orders that carry the company.
ChangeRep(u, r) ==
  /\ u \in Accounts
  /\ LET c == user[u].company
         us == IF c = None THEN {u} ELSE Members(c)
     IN  /\ company' = IF c = None THEN company ELSE [company EXCEPT ![c].rep = r]
         /\ user' = [v \in Customers |-> IF v \in us THEN [user[v] EXCEPT !.rep = r] ELSE user[v]]
         /\ order' = Repped(IF c = None THEN OrdersOf({u}) ELSE OrdersIn(c), r)

\* Bug: the account itself is recorded as its representative.
AdoptedAccount(u, c) == IF company[c].rep # None THEN company[c].rep ELSE u

Adopted(u, c) == IF company[c].rep # None THEN company[c].rep ELSE user[u].rep

\* Bug: what the account has ordered stays behind.
JoinWithoutOrders(u, c) ==
  /\ u \in Accounts /\ c \in Firms
  /\ company' = [company EXCEPT ![c].rep = Adopted(u, c)]
  /\ user' = Joined(Members(c) \cup {u}, c, Adopted(u, c))
  /\ order' = Repped(OrdersIn(c), Adopted(u, c))

\* An existing account joins a company; a company without a representative adopts
\* the account's.
JoinCompany(u, c) ==
  /\ u \in Accounts /\ c \in Firms
  /\ LET r == Adopted(u, c)
         backfills == company[c].rep = None /\ r # None
         us == IF backfills THEN Members(c) \cup {u} ELSE {u}
         os == IF backfills THEN OrdersIn(c) ELSE {}
     IN  /\ company' = [company EXCEPT ![c].rep = r]
         /\ user' = Joined(us, c, r)
         /\ order' = Moved(OrdersOf({u}) \cup os, c, r)

-----------------------------------------------------------------------------
(* Healing: views that rewrite the copies *)

\* getCustomerOrders: healCompanyOrders, then the list.
ViewOrders(u) ==
  /\ u \in Accounts /\ user[u].company # None
  /\ LET c == user[u].company
     IN  order' = Moved(OrdersOf(Members(c)), c, company[c].rep)
  /\ UNCHANGED <<user, company>>

\* getCompanyTeammates, on an account that has no company yet.
FoundOnView(u, c) ==
  /\ u \in Accounts /\ user[u].company = None /\ c \notin Firms
  /\ company' = Founded(c, user[u].rep)
  /\ user' = Joined({u}, c, user[u].rep)
  /\ order' = Moved(OrdersOf({u}), c, user[u].rep)

-----------------------------------------------------------------------------
(* Orders are placed *)

\* OrdersService.create with a resolved customer u: on the portal, or by staff who
\* typed the email e.  rep: the sales representative who places it.
PlaceOrder(o, u, e, rep, c, source) ==
  LET firm == IF user[u].company = None THEN c ELSE user[u].company
  IN  /\ ~order[o].exists /\ u \in Accounts
      /\ user[u].company = None => c \notin Firms
      /\ IF user[u].company = None
         THEN /\ company' = Founded(c, user[u].rep)
              /\ user' = [user EXCEPT ![u].company = c]
         ELSE c = user[u].company /\ UNCHANGED <<user, company>>
      /\ order' = [order EXCEPT ![o] =
                     [exists |-> TRUE, customer |-> u, email |-> e, company |-> firm,
                      rep |-> IF rep = None THEN user[u].rep ELSE rep, source |-> source]]

CustomerOrder(o, u, c) == PlaceOrder(o, u, u, None, c, "PORTAL")

\* Staff pick a customer and type an email; with no customer picked, an account
\* with that email is.
StaffOrder(o, u, e, rep, c) == PlaceOrder(o, u, e, rep, c, "STAFF")

UnlinkedOrder(o, rep) ==
  /\ ~order[o].exists
  /\ order' = [order EXCEPT ![o] = [AbsentOrder EXCEPT !.exists = TRUE, !.rep = rep, !.source = "STAFF"]]
  /\ UNCHANGED <<user, company>>

\* createFromRingBuilder: no company is looked up.
RingBuilderOrder(o, u) ==
  /\ ~order[o].exists /\ u \in Accounts
  /\ order' = [order EXCEPT ![o] =
                 [exists |-> TRUE, customer |-> u, email |-> u, company |-> None,
                  rep |-> user[u].rep, source |-> "RING_BUILDER"]]
  /\ UNCHANGED <<user, company>>

-----------------------------------------------------------------------------
(* Administrators' repairs *)

\* Bug: only the accounts that have ordered are moved.
MergeWithoutMembers(group, primary) ==
  LET us == {u \in UNION {Members(c) : c \in group \ {primary}} : OrdersOf({u}) # {}}
  IN  /\ group \subseteq Firms /\ primary \in group /\ Cardinality(group) >= 2
      /\ user' = Joined(us, primary, company[primary].rep)
      /\ order' = Moved(OrdersOf(us), primary, company[primary].rep)
      /\ company' = [c \in Companies |->
                       IF c \in group \ {primary} THEN AbsentCompany ELSE company[c]]

\* Companies that carry the same name, unless two of them have representatives that
\* differ.  The survivor has one if any has.
MergeCompanies(group, primary) ==
  LET reps == {company[c].rep : c \in group} \ {None}
      us   == UNION {Members(c) : c \in group \ {primary}}
  IN  /\ group \subseteq Firms /\ primary \in group /\ Cardinality(group) >= 2
      /\ Cardinality(reps) <= 1
      /\ reps # {} => company[primary].rep # None
      /\ user' = Joined(us, primary, company[primary].rep)
      /\ order' = Moved(OrdersOf(us), primary, company[primary].rep)
      /\ company' = [c \in Companies |->
                       IF c \in group \ {primary} THEN AbsentCompany ELSE company[c]]

\* The accounts us are put on company c, an existing one of theirs or a new one,
\* with representative r.
PutTogether(us, c, r) ==
  /\ company' = Founded(c, r)
  /\ user' = Joined(us, c, r)
  /\ order' = Moved(OrdersOf(us), c, r)

\* mergeDuplicateDisplayNames: accounts without a company that share a name, perhaps
\* with the members of one that has.
MergeNames(us, c) ==
  LET reps == {user[u].rep : u \in us} \ {None}
  IN  /\ us \subseteq Accounts /\ Cardinality(us) >= 2
      /\ \A u \in us : user[u].company = None
      /\ \/ c \in Firms /\ Members(c) # {} /\ PutTogether(us, c, company[c].rep)
         \/ /\ c \notin Firms /\ Cardinality(reps) <= 1
            /\ PutTogether(us, c, IF reps = {} THEN None ELSE CHOOSE r \in reps : TRUE)

\* Where a group of accounts goes: the company of one of them, or a new one if none
\* has any.
HomeOf(us, c) ==
  /\ us \subseteq Accounts /\ Cardinality(us) >= 2
  /\ IF \E u \in us : user[u].company \in Firms
     THEN c \in {user[u].company : u \in us} \cap Firms
     ELSE c \notin Firms

\* resolveDuplicateGroups: an administrator names the accounts and, perhaps, the
\* representative.
ResolveGroup(us, c, chosen) ==
  /\ HomeOf(us, c)
  /\ PutTogether(us, c, IF chosen # None THEN chosen
                        ELSE IF c \in Firms THEN company[c].rep ELSE None)

\* mergeCustomerAccountsByIds: the company's representative, or one of the accounts'.
MergeAccounts(us, c) ==
  LET reps == {user[u].rep : u \in us} \ {None}
      kept == IF c \in Firms THEN company[c].rep ELSE None
  IN  /\ HomeOf(us, c)
      /\ \/ kept # None /\ PutTogether(us, c, kept)
         \/ kept = None /\ reps = {} /\ PutTogether(us, c, None)
         \/ kept = None /\ \E r \in reps : PutTogether(us, c, r)

\* relinkOrdersToCustomer: the typed email stays.
Relink(o, u) ==
  /\ order[o].exists /\ u \in Accounts
  /\ LET c == user[u].company
     IN  order' = [order EXCEPT ![o].customer = u, ![o].company = c,
                                ![o].rep = IF c = None THEN user[u].rep ELSE company[c].rep]
  /\ UNCHANGED <<user, company>>

-----------------------------------------------------------------------------

AccountStep ==
  \E u \in Customers :
    \/ \E c \in Companies, r \in Reps : CreateCustomer(u, c, r)
    \/ \E c \in Companies : AddTeammate(u, c) \/ JoinCompany(u, c) \/ FoundOnView(u, c)
    \/ RegisterByRingBuilder(u)
    \/ \E r \in Reps \cup {None} : ChangeRep(u, r)
    \/ ViewOrders(u)
    \/ Remove(u)

OrderStep ==
  \E o \in Orders :
    \/ \E u \in Customers, c \in Companies :
         \/ CustomerOrder(o, u, c)
         \/ \E e \in Customers \cup {None}, r \in Reps \cup {None} : StaffOrder(o, u, e, r, c)
    \/ \E r \in Reps \cup {None} : UnlinkedOrder(o, r)
    \/ \E u \in Customers : RingBuilderOrder(o, u) \/ Relink(o, u)

MergeStep ==
  \/ \E group \in SUBSET Companies, primary \in Companies : MergeCompanies(group, primary)
  \/ \E us \in SUBSET Customers, c \in Companies : MergeNames(us, c) \/ MergeAccounts(us, c)

\* The history is written here; the operations above write the tables.
Next ==
  \/ (AccountStep \/ OrderStep \/ MergeStep) /\ UNCHANGED resolved
  \/ \E us \in SUBSET Customers, c \in Companies, r \in Reps \cup {None} :
       ResolveGroup(us, c, r) /\ resolved' = resolved \cup {c}

Spec == Init /\ [][Next]_vars

-----------------------------------------------------------------------------
(* What a sales representative sees *)

\* The order list: by the order's copy, or by the company's representative.
Listed(o, r) ==
  order[o].exists /\ (order[o].rep = r \/ \E c \in Firms : order[o].company = c /\ company[c].rep = r)

\* findOne: by the order's copy, or by that of any colleague of its company.
Opens(o, r) ==
  /\ order[o].exists
  /\ order[o].rep = r \/ \E c \in Companies : order[o].company = c /\ \E u \in Members(c) : user[u].rep = r

-----------------------------------------------------------------------------
(* What holds *)

\* findCompanyRepDrift: a teammate has another representative than the company, or
\* has one while the company has none.
Drifted(c) == \E u \in Members(c) : user[u].rep \notin {None, company[c].rep}

Resolving == \E us \in SUBSET Customers, c \in Companies, r \in Reps \cup {None} : ResolveGroup(us, c, r)

\* Companies do not come to drift from their teammates by accounts being created,
\* joined, reassigned, merged or viewed, in whatever order: only by an
\* administrator's explicit resolution of a group.
OnlyResolutionDrifts ==
  [][\A c \in Companies : Drifted(c)' => Drifted(c) \/ Resolving]_vars

\* Members never belong to a company that a merge has deleted.
MembersHaveCompany == \A u \in Accounts : user[u].company \in Firms \cup {None}

\* An order that its own customer placed is shared with the company its customer is
\* in now: it moved along with every join and merge.
OrdersFollowTheirCustomer ==
  \A o \in Orders : \A u \in Accounts :
    order[o].exists /\ order[o].source = "PORTAL" /\ order[o].customer = u /\ order[o].email = u =>
      order[o].company = user[u].company

\* An order that a customer with a representative has placed on the portal.
OrderedWith(o, r) ==
  \E u \in Accounts : /\ order[o].exists /\ order[o].source = "PORTAL"
                      /\ order[o].customer = u /\ order[o].email = u
                      /\ user[u].rep = r

\* What a representative may open, and what the representative's customers have
\* ordered on the portal, is in the representative's list, whatever was joined,
\* founded, merged, reassigned, relinked or viewed since: every operation that
\* writes one of the copies keeps company, members and orders in line.  Only a
\* company that an administrator has resolved a group into may hide an order.
RepFindsOrders ==
  \A o \in Orders, r \in Reps :
    Opens(o, r) \/ OrderedWith(o, r) => Listed(o, r) \/ order[o].company \in resolved

-----------------------------------------------------------------------------
(* What the comments say and the handlers do not keep *)

\* update: with a change of representative, the orders already placed appear in the
\* new representative's list; orders that staff placed may carry another one.
RepSeesEveryOrder ==
  \A o \in Orders : \A u \in Accounts :
    order[o].exists /\ order[o].customer = u /\ order[o].email = u /\ order[o].source # "STAFF"
      /\ user[u].rep # None => Listed(o, user[u].rep)

\* findOne: "same company-membership fallback" as the list; it lacks the orders of a
\* company whose members have no representative.
ListedIsOpenable == \A o \in Orders, r \in Reps : Listed(o, r) => Opens(o, r)
=============================================================================
