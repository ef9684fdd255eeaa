---------------------------- MODULE AccountsProofs ----------------------------
(***************************************************************************)
(* Proofs about Accounts, for any number of accounts, companies, orders    *)
(* and representatives.                                                    *)
(***************************************************************************)
EXTENDS Accounts, TLAPS

UserRows == [state : {"FREE", "ACTIVE", "REMOVED"}, company : Companies \cup {None}, rep : Reps \cup {None}]
CompanyRows == [exists : BOOLEAN, rep : Reps \cup {None}]
OrderRows ==
  [exists : BOOLEAN, customer : Customers \cup {None}, email : Customers \cup {None},
   company : Companies \cup {None}, rep : Reps \cup {None},
   source : {"PORTAL", "STAFF", "RING_BUILDER"}]

-----------------------------------------------------------------------------
(* What the helpers return *)

\* The type invariant, table by table.
LEMMA TypeRows ==
  TablesOK <=> /\ user \in [Customers -> UserRows]
             /\ company \in [Companies -> CompanyRows]
             /\ order \in [Orders -> OrderRows]
  BY DEF TablesOK, UserRows, CompanyRows, OrderRows

\* Accounts that join a company stay accounts,
LEMMA JoinedType ==
  ASSUME TablesOK, NEW us, NEW c \in Companies \cup {None}, NEW r \in Reps \cup {None}
  PROVE  Joined(us, c, r) \in [Customers -> UserRows]
  <1>1. ASSUME NEW u \in Customers
        PROVE  (IF u \in us THEN [user[u] EXCEPT !.company = c, !.rep = r] ELSE user[u]) \in UserRows
    BY <1>1, TypeRows DEF UserRows
  <1> QED BY <1>1 DEF Joined

\* a company that is founded is one,
LEMMA FoundedType ==
  ASSUME TablesOK, NEW c \in Companies, NEW r \in Reps \cup {None}
  PROVE  Founded(c, r) \in [Companies -> CompanyRows]
  BY TypeRows DEF Founded, CompanyRows

\* orders that move along stay orders,
LEMMA MovedType ==
  ASSUME TablesOK, NEW os, NEW c \in Companies \cup {None}, NEW r \in Reps \cup {None}
  PROVE  Moved(os, c, r) \in [Orders -> OrderRows]
  <1>1. ASSUME NEW o \in Orders
        PROVE  (IF o \in os THEN [order[o] EXCEPT !.company = c, !.rep = r] ELSE order[o]) \in OrderRows
    BY <1>1, TypeRows DEF OrderRows
  <1> QED BY <1>1 DEF Moved

\* and so do orders that get another representative.
LEMMA ReppedType ==
  ASSUME TablesOK, NEW os, NEW r \in Reps \cup {None}
  PROVE  Repped(os, r) \in [Orders -> OrderRows]
  <1>1. ASSUME NEW o \in Orders
        PROVE  (IF o \in os THEN [order[o] EXCEPT !.rep = r] ELSE order[o]) \in OrderRows
    BY <1>1, TypeRows DEF OrderRows
  <1> QED BY <1>1 DEF Repped

\* What a company adopts is a representative, or none.
LEMMA AdoptedType ==
  ASSUME TablesOK, NEW u \in Customers, NEW c \in Companies
  PROVE  Adopted(u, c) \in Reps \cup {None}
  BY TypeRows DEF Adopted, UserRows, CompanyRows

-----------------------------------------------------------------------------
(* Types *)

\* What is done to an account keeps the types.
LEMMA AccountStepType ==
  ASSUME TablesOK, AccountStep
  PROVE  TablesOK'
  <1> USE AccountsAssumption
  <1>u. PICK u \in Customers :
          \/ \E c \in Companies, r \in Reps : CreateCustomer(u, c, r)
          \/ \E c \in Companies : AddTeammate(u, c) \/ JoinCompany(u, c) \/ FoundOnView(u, c)
          \/ RegisterByRingBuilder(u)
          \/ \E r \in Reps \cup {None} : ChangeRep(u, r)
          \/ ViewOrders(u)
          \/ Remove(u)
    BY Zenon DEF AccountStep
  <1> SUFFICES /\ user' \in [Customers -> UserRows]
               /\ company' \in [Companies -> CompanyRows]
               /\ order' \in [Orders -> OrderRows]
    BY DEF TablesOK, UserRows, CompanyRows, OrderRows
  <1>1. CASE \E c \in Companies, r \in Reps : CreateCustomer(u, c, r)
    <2>1. PICK c \in Companies, r \in Reps : CreateCustomer(u, c, r)
      BY <1>1
    <2>2. company' \in [Companies -> CompanyRows]
      BY <2>1, FoundedType DEF CreateCustomer
    <2> QED BY <2>1, <2>2, TypeRows DEF CreateCustomer, UserRows
  <1>2. CASE \E c \in Companies : AddTeammate(u, c)
    <2>1. PICK c \in Companies : AddTeammate(u, c)
      BY <1>2
    <2>2. company[c].rep \in Reps \cup {None}
      BY TypeRows DEF CompanyRows
    <2> QED BY <2>1, <2>2, TypeRows DEF AddTeammate, UserRows
  <1>3. CASE \E c \in Companies : JoinCompany(u, c)
    <2>1. PICK c \in Companies : JoinCompany(u, c)
      BY <1>3
    <2>2. Adopted(u, c) \in Reps \cup {None}
      BY AdoptedType
    <2>3. company' \in [Companies -> CompanyRows]
      BY <2>1, <2>2, TypeRows DEF JoinCompany, CompanyRows
    <2>4. user' \in [Customers -> UserRows]
      BY <2>1, <2>2, JoinedType DEF JoinCompany
    <2>5. order' \in [Orders -> OrderRows]
      BY <2>1, <2>2, MovedType DEF JoinCompany
    <2> QED BY <2>3, <2>4, <2>5
  <1>4. CASE \E c \in Companies : FoundOnView(u, c)
    <2>1. PICK c \in Companies : FoundOnView(u, c)
      BY <1>4
    <2>2. user[u].rep \in Reps \cup {None}
      BY TypeRows DEF UserRows
    <2> QED BY <2>1, <2>2, FoundedType, JoinedType, MovedType DEF FoundOnView
  <1>5. CASE RegisterByRingBuilder(u)
    BY <1>5, TypeRows DEF RegisterByRingBuilder, UserRows
  <1>6. CASE \E r \in Reps \cup {None} : ChangeRep(u, r)
    <2>1. PICK r \in Reps \cup {None} : ChangeRep(u, r)
      BY <1>6
    <2>2. order' \in [Orders -> OrderRows]
      BY <2>1, ReppedType DEF ChangeRep
    <2>3. company' \in [Companies -> CompanyRows]
      BY <2>1, TypeRows DEF ChangeRep, CompanyRows, UserRows
    <2>4. PICK us : user' = [v \in Customers |-> IF v \in us THEN [user[v] EXCEPT !.rep = r] ELSE user[v]]
      BY <2>1 DEF ChangeRep
    <2>5. user' \in [Customers -> UserRows]
      <3>1. ASSUME NEW v \in Customers
            PROVE  (IF v \in us THEN [user[v] EXCEPT !.rep = r] ELSE user[v]) \in UserRows
        BY <3>1, TypeRows DEF UserRows
      <3> QED BY <2>4, <3>1
    <2> QED BY <2>2, <2>3, <2>5
  <1>7. CASE ViewOrders(u)
    <2>1. /\ user[u].company \in Companies \cup {None}
          /\ user[u].company # None
          /\ company[user[u].company].rep \in Reps \cup {None}
      BY <1>7, TypeRows DEF ViewOrders, UserRows, CompanyRows
    <2> QED BY <1>7, <2>1, MovedType, TypeRows DEF ViewOrders
  <1>8. CASE Remove(u)
    BY <1>8, TypeRows DEF Remove, AbsentUser, UserRows
  <1> QED BY <1>u, <1>1, <1>2, <1>3, <1>4, <1>5, <1>6, <1>7, <1>8

\* A placed order, and the company it may found, are well typed.
LEMMA PlaceOrderType ==
  ASSUME TablesOK, NEW o \in Orders, NEW u \in Customers, NEW e \in Customers \cup {None},
         NEW r \in Reps \cup {None}, NEW c \in Companies,
         NEW source \in {"PORTAL", "STAFF", "RING_BUILDER"}, PlaceOrder(o, u, e, r, c, source)
  PROVE  TablesOK'
  <1> USE AccountsAssumption
  <1>1. user[u].rep \in Reps \cup {None} /\ user[u].company \in Companies \cup {None}
    BY TypeRows DEF UserRows
  <1>2. order' \in [Orders -> OrderRows]
    BY <1>1, TypeRows DEF PlaceOrder, OrderRows
  <1>3. CASE user[u].company = None
    <2>1. company' \in [Companies -> CompanyRows]
      BY <1>1, <1>3, FoundedType DEF PlaceOrder
    <2>2. user' \in [Customers -> UserRows]
      BY <1>3, TypeRows DEF PlaceOrder, UserRows
    <2> QED BY <1>2, <2>1, <2>2 DEF TablesOK, UserRows, CompanyRows, OrderRows
  <1>4. CASE user[u].company # None
    BY <1>2, <1>4, TypeRows DEF PlaceOrder, TablesOK, OrderRows
  <1> QED BY <1>3, <1>4

\* What is done to an order keeps the types.
LEMMA OrderStepType ==
  ASSUME TablesOK, OrderStep
  PROVE  TablesOK'
  <1> USE AccountsAssumption
  <1>o. PICK o \in Orders :
          \/ \E u \in Customers, c \in Companies :
               \/ CustomerOrder(o, u, c)
               \/ \E e \in Customers \cup {None}, r \in Reps \cup {None} : StaffOrder(o, u, e, r, c)
          \/ \E r \in Reps \cup {None} : UnlinkedOrder(o, r)
          \/ \E u \in Customers : RingBuilderOrder(o, u) \/ Relink(o, u)
    BY Zenon DEF OrderStep
  <1>1. CASE \E u \in Customers, c \in Companies : CustomerOrder(o, u, c)
    BY <1>1, PlaceOrderType DEF CustomerOrder
  <1>2. CASE \E u \in Customers, c \in Companies : \E e \in Customers \cup {None}, r \in Reps \cup {None} : StaffOrder(o, u, e, r, c)
    BY <1>2, PlaceOrderType DEF StaffOrder
  <1>3. CASE \E r \in Reps \cup {None} : UnlinkedOrder(o, r)
    <2>1. PICK r \in Reps \cup {None} : UnlinkedOrder(o, r)
      BY <1>3
    <2>2. order' \in [Orders -> OrderRows]
      BY <2>1, TypeRows DEF UnlinkedOrder, AbsentOrder, OrderRows
    <2> QED BY <2>1, <2>2 DEF UnlinkedOrder, TablesOK, OrderRows
  <1>4. CASE \E u \in Customers : RingBuilderOrder(o, u)
    <2>1. PICK u \in Customers : RingBuilderOrder(o, u)
      BY <1>4
    <2>2. order' \in [Orders -> OrderRows]
      BY <2>1, TypeRows DEF RingBuilderOrder, OrderRows, UserRows
    <2> QED BY <2>1, <2>2 DEF RingBuilderOrder, TablesOK, OrderRows
  <1>5. CASE \E u \in Customers : Relink(o, u)
    <2>1. PICK u \in Customers : Relink(o, u)
      BY <1>5
    <2> DEFINE r == IF user[u].company = None THEN user[u].rep ELSE company[user[u].company].rep
    <2>2. user[u].company \in Companies \cup {None} /\ r \in Reps \cup {None}
      BY TypeRows DEF UserRows, CompanyRows
    <2>4. order' = [order EXCEPT ![o].customer = u, ![o].company = user[u].company, ![o].rep = r]
      BY <2>1 DEF Relink
    <2> HIDE DEF r
    <2>5. order' = [order EXCEPT ![o] = [order[o] EXCEPT !.customer = u, !.company = user[u].company, !.rep = r]]
      BY <2>4, TypeRows
    <2>6. [order[o] EXCEPT !.customer = u, !.company = user[u].company, !.rep = r] \in OrderRows
      BY <2>2, TypeRows DEF OrderRows
    <2>3. order' \in [Orders -> OrderRows]
      BY <2>5, <2>6, TypeRows
    <2> QED BY <2>1, <2>3 DEF Relink, TablesOK, OrderRows
  <1> QED BY <1>o, <1>1, <1>2, <1>3, <1>4, <1>5

\* Accounts that are put together keep the types.
LEMMA PutTogetherType ==
  ASSUME TablesOK, NEW us, NEW c \in Companies, NEW r \in Reps \cup {None}, PutTogether(us, c, r)
  PROVE  TablesOK'
  BY FoundedType, JoinedType, MovedType DEF PutTogether, TablesOK, UserRows, CompanyRows, OrderRows

\* The representative that three repairs put accounts together under.
LEMMA MergeNamesPuts ==
  ASSUME TablesOK, NEW us \in SUBSET Customers, NEW c \in Companies, MergeNames(us, c)
  PROVE  \E r \in Reps \cup {None} :
           PutTogether(us, c, r) /\ (c \in Firms => r = company[c].rep)
  <1>1. company[c].rep \in Reps \cup {None}
    BY TypeRows DEF CompanyRows
  <1>2. {user[u].rep : u \in us} \ {None} \subseteq Reps
    BY TypeRows DEF UserRows
  <1> DEFINE reps == {user[u].rep : u \in us} \ {None}
  <1>3. reps # {} => (CHOOSE r \in reps : TRUE) \in Reps
    BY <1>2
  <1>4. CASE c \in Firms
    BY <1>1, <1>4, Zenon DEF MergeNames
  <1>5. CASE c \notin Firms
    <2>1. PutTogether(us, c, IF reps = {} THEN None ELSE CHOOSE r \in reps : TRUE)
      BY <1>5, Zenon DEF MergeNames
    <2>2. (IF reps = {} THEN None ELSE CHOOSE r \in reps : TRUE) \in Reps \cup {None}
      BY <1>3
    <2> HIDE DEF reps
    <2> QED BY <1>5, <2>1, <2>2
  <1> QED BY <1>4, <1>5

\* A merge by id puts the accounts under the company's representative, if it has one;
LEMMA MergeAccountsPuts ==
  ASSUME TablesOK, NEW us \in SUBSET Customers, NEW c \in Companies, MergeAccounts(us, c)
  PROVE  \E r \in Reps \cup {None} :
           PutTogether(us, c, r) /\ (c \in Firms => r = company[c].rep \/ company[c].rep = None)
  <1>1. company[c].rep \in Reps \cup {None}
    BY TypeRows DEF CompanyRows
  <1>2. {user[u].rep : u \in us} \ {None} \subseteq Reps
    BY TypeRows DEF UserRows
  <1> QED BY <1>1, <1>2 DEF MergeAccounts

\* a resolution puts them under anybody.
LEMMA ResolveGroupPuts ==
  ASSUME TablesOK, NEW us \in SUBSET Customers, NEW c \in Companies, NEW chosen \in Reps \cup {None},
         ResolveGroup(us, c, chosen)
  PROVE  \E r \in Reps \cup {None} : PutTogether(us, c, r)
  <1>1. company[c].rep \in Reps \cup {None}
    BY TypeRows DEF CompanyRows
  <1> QED BY <1>1 DEF ResolveGroup

RepairStep == MergeStep \/ Resolving

\* Administrators' repairs keep the types.
LEMMA RepairStepType ==
  ASSUME TablesOK, RepairStep
  PROVE  TablesOK'
  <1>1. CASE \E group \in SUBSET Companies, primary \in Companies : MergeCompanies(group, primary)
    <2>1. PICK group \in SUBSET Companies, primary \in Companies : MergeCompanies(group, primary)
      BY <1>1
    <2>2. company[primary].rep \in Reps \cup {None}
      BY TypeRows DEF CompanyRows
    <2>3. user' \in [Customers -> UserRows] /\ order' \in [Orders -> OrderRows]
      BY <2>1, <2>2, JoinedType, MovedType DEF MergeCompanies
    <2>4. company' \in [Companies -> CompanyRows]
      BY <2>1, TypeRows DEF MergeCompanies, AbsentCompany, CompanyRows
    <2> QED BY <2>3, <2>4 DEF TablesOK, UserRows, CompanyRows, OrderRows
  <1>2. CASE \E us \in SUBSET Customers, c \in Companies : MergeNames(us, c)
    <2>1. PICK us \in SUBSET Customers, c \in Companies : MergeNames(us, c)
      BY <1>2
    <2> QED BY <2>1, MergeNamesPuts, PutTogetherType
  <1>3. CASE \E us \in SUBSET Customers, c \in Companies : MergeAccounts(us, c)
    <2>1. PICK us \in SUBSET Customers, c \in Companies : MergeAccounts(us, c)
      BY <1>3
    <2> QED BY <2>1, MergeAccountsPuts, PutTogetherType
  <1>4. CASE \E us \in SUBSET Customers, c \in Companies, r \in Reps \cup {None} : ResolveGroup(us, c, r)
    <2>1. PICK us \in SUBSET Customers, c \in Companies, r \in Reps \cup {None} : ResolveGroup(us, c, r)
      BY <1>4
    <2> QED BY <2>1, ResolveGroupPuts, PutTogetherType
  <1> QED BY <1>1, <1>2, <1>3, <1>4, Zenon DEF RepairStep, MergeStep, Resolving

\* What a step does to the tables.
TableStep == AccountStep \/ OrderStep \/ RepairStep

\* The rest of a step is the history.
LEMMA StepsTables == Next => TableStep
  BY Zenon DEF Next, TableStep, RepairStep, Resolving

\* Every operation keeps the tables' types.
LEMMA TablesCorrect == Spec => []TablesOK
  <1>1. Init => TablesOK
    BY DEF Init, TablesOK, AbsentUser, AbsentCompany, AbsentOrder
  <1>2. TablesOK /\ [Next]_vars => TablesOK'
    <2>1. TablesOK /\ Next => TablesOK'
      BY StepsTables, AccountStepType, OrderStepType, RepairStepType DEF TableStep
    <2>2. TablesOK /\ UNCHANGED vars => TablesOK'
      BY DEF vars, TablesOK
    <2> QED BY <2>1, <2>2
  <1> QED BY <1>1, <1>2, PTL DEF Spec

\* UsersService, OrdersService.create and the Ring Builder intake keep accounts,
\* companies and orders within their columns' types.
THEOREM TypeCorrect == Spec => []TypeOK
  <1>1. Init => resolved \subseteq Companies
    BY DEF Init
  <1>2. resolved \subseteq Companies /\ [Next]_vars => (resolved \subseteq Companies)'
    BY DEF Next, vars
  <1>3. TablesOK /\ resolved \subseteq Companies <=> TypeOK
    BY DEF TypeOK
  <1> QED BY <1>1, <1>2, <1>3, TablesCorrect, PTL DEF Spec

-----------------------------------------------------------------------------
(* Members have a company *)

\* Accounts that are put together are in a company that exists.
LEMMA PutTogetherMembers ==
  ASSUME TablesOK, MembersHaveCompany, NEW us, NEW c \in Companies, NEW r, PutTogether(us, c, r)
  PROVE  MembersHaveCompany'
  BY TypeRows DEF PutTogether, Founded, Joined, MembersHaveCompany, Accounts, Firms, UserRows, CompanyRows

\* The company that an order founds exists.
LEMMA PlaceOrderMembers ==
  ASSUME TablesOK, MembersHaveCompany, NEW o, NEW u \in Customers, NEW e, NEW r, NEW c \in Companies,
         NEW source, PlaceOrder(o, u, e, r, c, source)
  PROVE  MembersHaveCompany'
  <1>1. CASE user[u].company = None
    <2>1. Firms' = Firms \cup {c}
      BY <1>1, TypeRows DEF PlaceOrder, Founded, Firms, CompanyRows
    <2>2. user' = [user EXCEPT ![u].company = c]
      BY <1>1 DEF PlaceOrder
    <2> QED BY <2>1, <2>2, TypeRows DEF MembersHaveCompany, Accounts, UserRows
  <1>2. CASE user[u].company # None
    BY <1>2 DEF PlaceOrder, MembersHaveCompany, Accounts, Firms
  <1> QED BY <1>1, <1>2

\* No step leaves a member in a company that is gone.
LEMMA StepKeepsMembers ==
  ASSUME TablesOK, MembersHaveCompany, TableStep
  PROVE  MembersHaveCompany'
  <1> USE DEF MembersHaveCompany, Accounts, Firms, UserRows, CompanyRows
  <1>1. ASSUME NEW u \in Customers, NEW c \in Companies, NEW r \in Reps, CreateCustomer(u, c, r)
        PROVE  MembersHaveCompany'
    BY <1>1, TypeRows DEF CreateCustomer, Founded
  <1>2. ASSUME NEW u \in Customers, NEW c \in Companies, AddTeammate(u, c)
        PROVE  MembersHaveCompany'
    BY <1>2, TypeRows DEF AddTeammate
  <1>3. ASSUME NEW u \in Customers, NEW c \in Companies, JoinCompany(u, c)
        PROVE  MembersHaveCompany'
    <2>1. PICK us, r : /\ user' = Joined(us, c, r)
                       /\ company' = [company EXCEPT ![c].rep = r]
                       /\ c \in Firms
      BY <1>3 DEF JoinCompany
    <2>2. Firms' = Firms
      BY <2>1, TypeRows
    <2>3. ASSUME NEW v \in Customers, user'[v].state = "ACTIVE"
          PROVE  user'[v].company \in Firms \cup {None}
      BY <2>1, <2>3, TypeRows DEF Joined
    <2> HIDE DEF Firms
    <2> QED BY <2>2, <2>3
  <1>4. ASSUME NEW u \in Customers, NEW c \in Companies, FoundOnView(u, c)
        PROVE  MembersHaveCompany'
    BY <1>4, TypeRows DEF FoundOnView, Founded, Joined
  <1>5. ASSUME NEW u \in Customers, RegisterByRingBuilder(u)
        PROVE  MembersHaveCompany'
    BY <1>5, TypeRows DEF RegisterByRingBuilder
  <1>6. ASSUME NEW u \in Customers, NEW r \in Reps \cup {None}, ChangeRep(u, r)
        PROVE  MembersHaveCompany'
    <2>1. PICK us : user' = [v \in Customers |-> IF v \in us THEN [user[v] EXCEPT !.rep = r] ELSE user[v]]
      BY <1>6 DEF ChangeRep
    <2>2. Firms' = Firms
      BY <1>6, TypeRows DEF ChangeRep
    <2> QED BY <2>1, <2>2, TypeRows
  <1>7. ASSUME NEW u \in Customers, ViewOrders(u)
        PROVE  MembersHaveCompany'
    BY <1>7 DEF ViewOrders
  <1>8. ASSUME NEW u \in Customers, Remove(u)
        PROVE  MembersHaveCompany'
    BY <1>8, TypeRows DEF Remove, AbsentUser
  <1>9. ASSUME OrderStep
        PROVE  MembersHaveCompany'
    BY <1>9, PlaceOrderMembers DEF OrderStep, CustomerOrder, StaffOrder, UnlinkedOrder, RingBuilderOrder, Relink
  <1>10. ASSUME NEW group \in SUBSET Companies, NEW primary \in Companies, MergeCompanies(group, primary)
         PROVE  MembersHaveCompany'
    <2> DEFINE us == UNION {Members(c) : c \in group \ {primary}}
    <2>1. /\ user' = Joined(us, primary, company[primary].rep)
          /\ company' = [c \in Companies |-> IF c \in group \ {primary} THEN AbsentCompany ELSE company[c]]
          /\ group \subseteq Firms /\ primary \in group
      BY <1>10 DEF MergeCompanies
    <2>2. Firms' = Firms \ (group \ {primary})
      BY <2>1, TypeRows DEF AbsentCompany
    <2>3. ASSUME NEW v \in Customers, user'[v].state = "ACTIVE"
          PROVE  user'[v].company \in Firms' \cup {None}
      <3>1. CASE v \in us
        <4>1. user'[v] = [user[v] EXCEPT !.company = primary, !.rep = company[primary].rep]
          BY <2>1, <3>1 DEF Joined
        <4>2. user'[v].company = primary
          BY <4>1, TypeRows
        <4>3. primary \in Firms /\ primary \notin group \ {primary}
          BY <2>1
        <4> HIDE DEF Firms, us
        <4> QED BY <2>2, <4>2, <4>3
      <3>2. CASE v \notin us
        <4>1. user'[v] = user[v]
          BY <2>1, <3>2 DEF Joined
        <4>2. user[v].company \notin group \ {primary}
          BY <2>3, <3>2, <4>1 DEF Members
        <4> QED BY <2>2, <2>3, <4>1, <4>2
      <3> QED BY <3>1, <3>2
    <2> HIDE DEF Firms
    <2> QED BY <2>3
  <1>11. ASSUME NEW us \in SUBSET Customers, NEW c \in Companies,
                MergeNames(us, c) \/ MergeAccounts(us, c) \/ \E r \in Reps \cup {None} : ResolveGroup(us, c, r)
         PROVE  MembersHaveCompany'
    BY <1>11, MergeNamesPuts, MergeAccountsPuts, ResolveGroupPuts, PutTogetherMembers
  <1>12. CASE AccountStep
    BY <1>12, <1>1, <1>2, <1>3, <1>4, <1>5, <1>6, <1>7, <1>8, Zenon DEF AccountStep
  <1>13. CASE RepairStep
    BY <1>13, <1>10, <1>11, Zenon DEF RepairStep, MergeStep, Resolving
  <1> QED BY <1>9, <1>12, <1>13 DEF TableStep

\* Merging companies, joining them and founding them on a view leave no account in a
\* company that does not exist.
THEOREM MembersSafe == Spec => []MembersHaveCompany
  <1>1. Init => MembersHaveCompany
    BY DEF Init, MembersHaveCompany, Accounts, AbsentUser
  <1>2. TablesOK /\ MembersHaveCompany /\ [Next]_vars => MembersHaveCompany'
    <2>1. TablesOK /\ MembersHaveCompany /\ UNCHANGED vars => MembersHaveCompany'
      BY DEF vars, MembersHaveCompany, Accounts, Firms
    <2> QED BY <2>1, StepsTables, StepKeepsMembers
  <1> QED BY <1>1, <1>2, TablesCorrect, PTL DEF Spec

-----------------------------------------------------------------------------
(* Companies do not drift from their members *)

\* A step that gives the accounts us to company c with representative r, and writes no
\* other account and no other company's representative.
LEMMA JoiningKeepsDrift ==
  ASSUME TablesOK, MembersHaveCompany, NEW us, NEW c \in Companies, NEW r,
         user' = Joined(us, c, r), company'[c].rep = r,
         NEW d \in Companies, d # c => company'[d].rep = company[d].rep,
         d = c /\ c \in Firms => r = company[c].rep \/ company[c].rep = None,
         Drifted(d)'
  PROVE  Drifted(d)
  <1>1. PICK u \in Customers : /\ user'[u].state = "ACTIVE" /\ user'[u].company = d
                              /\ user'[u].rep \notin {None, company'[d].rep}
    BY DEF Drifted, Members, Accounts
  <1>2. u \notin us
    <2> SUFFICES ASSUME u \in us PROVE FALSE
      OBVIOUS
    <2>1. user'[u].company = c /\ user'[u].rep = r
      BY TypeRows DEF Joined, UserRows
    <2> QED BY <1>1, <2>1
  <1>3. user'[u] = user[u]
    BY <1>2 DEF Joined
  <1>4. u \in Members(d)
    BY <1>1, <1>3 DEF Members, Accounts
  <1>5. user[u].rep \notin {None, company[d].rep}
    <2>1. CASE d # c
      BY <1>1, <1>3, <2>1
    <2>2. CASE d = c
      <3>1. c \in Firms
        BY <1>4, <2>2, AccountsAssumption DEF MembersHaveCompany, Members
      <3> QED BY <1>1, <1>3, <2>2, <3>1
    <2> QED BY <2>1, <2>2
  <1> QED BY <1>4, <1>5 DEF Drifted

\* Putting accounts together under the company's own representative makes none drift;
\* under another one, no other company.
LEMMA PuttingKeepsDrift ==
  ASSUME TablesOK, MembersHaveCompany, NEW us, NEW c \in Companies, NEW r, PutTogether(us, c, r),
         NEW d \in Companies, Drifted(d)',
         d = c /\ c \in Firms => r = company[c].rep \/ company[c].rep = None
  PROVE  Drifted(d)
  <1>1. company'[c].rep = r /\ (d # c => company'[d].rep = company[d].rep)
    BY TypeRows DEF PutTogether, Founded, CompanyRows
  <1>2. user' = Joined(us, c, r)
    BY DEF PutTogether
  <1> QED BY <1>1, <1>2, JoiningKeepsDrift

\* An account that was none before, or becomes none, and no company's representative.
LEMMA PlacingKeepsDrift ==
  ASSUME TablesOK, MembersHaveCompany, NEW o, NEW u \in Customers, NEW e, NEW r, NEW c \in Companies,
         NEW source, PlaceOrder(o, u, e, r, c, source),
         NEW d \in Companies, Drifted(d)'
  PROVE  Drifted(d)
  <1>1. CASE user[u].company # None
    BY <1>1 DEF PlaceOrder, Drifted, Members, Accounts
  <1>2. CASE user[u].company = None
    <2>1. user' = Joined({u}, c, user[u].rep)
      <3>1. user' = [user EXCEPT ![u].company = c]
        BY <1>2 DEF PlaceOrder
      <3>2. ASSUME NEW v \in Customers
            PROVE  user'[v] = Joined({u}, c, user[u].rep)[v]
        BY <3>1, TypeRows DEF Joined, UserRows
      <3>3. user' = [v \in Customers |-> user'[v]]
        BY <3>1, TypeRows
      <3>4. Joined({u}, c, user[u].rep) = [v \in Customers |-> Joined({u}, c, user[u].rep)[v]]
        BY DEF Joined
      <3> QED BY <3>2, <3>3, <3>4
    <2>2. company' = Founded(c, user[u].rep) /\ c \notin Firms
      BY <1>2 DEF PlaceOrder
    <2>3. company'[c].rep = user[u].rep /\ (d # c => company'[d].rep = company[d].rep)
      BY <2>2, TypeRows DEF Founded, CompanyRows
    <2> QED BY <2>1, <2>2, <2>3, JoiningKeepsDrift
  <1> QED BY <1>1, <1>2

\* Everything but the resolution of a group that an administrator names.
Unresolved == AccountStep \/ OrderStep \/ MergeStep

\* None of these steps makes a company drift.
LEMMA UnresolvedKeepsAgreement ==
  ASSUME TablesOK, MembersHaveCompany, Unresolved, NEW d \in Companies, Drifted(d)'
  PROVE  Drifted(d)
  <1>1. ASSUME NEW u \in Customers, NEW c \in Companies, NEW r \in Reps \cup {None},
               Free(u), user' = [user EXCEPT ![u] = [state |-> "ACTIVE", company |-> c, rep |-> r]],
               company'[c].rep = r,
               d # c => company'[d].rep = company[d].rep,
               c \in Firms => company[c].rep = r
        PROVE  Drifted(d)
    <2>1. PICK v \in Customers : /\ user'[v].state = "ACTIVE" /\ user'[v].company = d
                                /\ user'[v].rep \notin {None, company'[d].rep}
      BY DEF Drifted, Members, Accounts
    <2>2. v # u
      BY <1>1, <2>1, TypeRows
    <2>3. user'[v] = user[v]
      BY <1>1, <2>2, TypeRows
    <2>4. v \in Members(d)
      BY <2>1, <2>3 DEF Members, Accounts
    <2>5. d \in Firms
      BY <2>4, AccountsAssumption DEF MembersHaveCompany, Members
    <2> QED BY <1>1, <2>1, <2>3, <2>4, <2>5 DEF Drifted
  <1>2. ASSUME NEW u \in Customers, NEW c \in Companies, NEW r \in Reps, CreateCustomer(u, c, r)
        PROVE  Drifted(d)
    <2>1. company'[c].rep = r /\ (d # c => company'[d].rep = company[d].rep)
      BY <1>2, TypeRows DEF CreateCustomer, Founded, CompanyRows
    <2> QED BY <1>1, <1>2, <2>1 DEF CreateCustomer
  <1>3. ASSUME NEW u \in Customers, NEW c \in Companies, AddTeammate(u, c)
        PROVE  Drifted(d)
    <2>1. company[c].rep \in Reps \cup {None}
      BY TypeRows DEF CompanyRows
    <2> QED BY <1>1, <1>3, <2>1 DEF AddTeammate
  <1>4. ASSUME NEW u \in Customers, NEW c \in Companies, JoinCompany(u, c)
        PROVE  Drifted(d)
    <2>1. PICK us : /\ user' = Joined(us, c, Adopted(u, c))
                    /\ company' = [company EXCEPT ![c].rep = Adopted(u, c)]
      BY <1>4 DEF JoinCompany
    <2>2. /\ company'[c].rep = Adopted(u, c)
          /\ d # c => company'[d].rep = company[d].rep
      BY <2>1, TypeRows DEF CompanyRows
    <2>3. Adopted(u, c) = company[c].rep \/ company[c].rep = None
      BY DEF Adopted
    <2> QED BY <2>1, <2>2, <2>3, JoiningKeepsDrift
  <1>5. ASSUME NEW u \in Customers, NEW c \in Companies, FoundOnView(u, c)
        PROVE  Drifted(d)
    <2>1. /\ company'[c].rep = user[u].rep
          /\ d # c => company'[d].rep = company[d].rep
      BY <1>5, TypeRows DEF FoundOnView, Founded, CompanyRows
    <2> QED BY <1>5, <2>1, JoiningKeepsDrift DEF FoundOnView
  <1>6. ASSUME NEW u \in Customers, RegisterByRingBuilder(u)
        PROVE  Drifted(d)
    BY <1>6, TypeRows, AccountsAssumption DEF RegisterByRingBuilder, Drifted, Members, Accounts, UserRows
  <1>7. ASSUME NEW u \in Customers, NEW r \in Reps \cup {None}, ChangeRep(u, r)
        PROVE  Drifted(d)
    <2> DEFINE us == IF user[u].company = None THEN {u} ELSE Members(user[u].company)
    <2>1. user' = [v \in Customers |-> IF v \in us THEN [user[v] EXCEPT !.rep = r] ELSE user[v]]
      BY <1>7 DEF ChangeRep
    <2>2. PICK v \in Customers : /\ user'[v].state = "ACTIVE" /\ user'[v].company = d
                                /\ user'[v].rep \notin {None, company'[d].rep}
      BY DEF Drifted, Members, Accounts
    <2>3. user'[v].company = user[v].company /\ user'[v].state = user[v].state
      BY <2>1, TypeRows DEF UserRows
    <2>4. v \in Members(d)
      BY <2>2, <2>3 DEF Members, Accounts
    <2>5. CASE d = user[u].company
      <3>1. v \in us /\ company'[d].rep = r
        BY <1>7, <2>4, <2>5, TypeRows, AccountsAssumption DEF ChangeRep, CompanyRows
      <3>2. user'[v].rep = r
        BY <2>1, <3>1, TypeRows DEF UserRows
      <3> QED BY <2>2, <3>1, <3>2
    <2>6. CASE d # user[u].company
      <3>1. v \notin us
        BY <2>4, <2>6, AccountsAssumption DEF Members
      <3>2. user'[v] = user[v] /\ company'[d] = company[d]
        BY <1>7, <2>1, <2>6, <3>1, TypeRows DEF ChangeRep
      <3> QED BY <2>2, <2>4, <3>2 DEF Drifted
    <2> QED BY <2>5, <2>6
  <1>8. ASSUME NEW u \in Customers, ViewOrders(u)
        PROVE  Drifted(d)
    BY <1>8 DEF ViewOrders, Drifted, Members, Accounts
  <1>9. ASSUME NEW u \in Customers, Remove(u)
        PROVE  Drifted(d)
    BY <1>9, TypeRows DEF Remove, AbsentUser, Drifted, Members, Accounts, UserRows
  <1>10. ASSUME OrderStep
         PROVE  Drifted(d)
    <2>1. CASE UNCHANGED <<user, company>>
      BY <2>1 DEF Drifted, Members, Accounts
    <2> QED BY <1>10, <2>1, PlacingKeepsDrift
            DEF OrderStep, CustomerOrder, StaffOrder, UnlinkedOrder, RingBuilderOrder, Relink
  <1>11. ASSUME NEW group \in SUBSET Companies, NEW primary \in Companies, MergeCompanies(group, primary)
         PROVE  Drifted(d)
    <2> DEFINE us == UNION {Members(c) : c \in group \ {primary}}
    <2>1. /\ user' = Joined(us, primary, company[primary].rep)
          /\ company' = [c \in Companies |-> IF c \in group \ {primary} THEN AbsentCompany ELSE company[c]]
      BY <1>11 DEF MergeCompanies
    <2>2. CASE d \notin group \ {primary}
      <3>1. company'[primary].rep = company[primary].rep /\ company'[d] = company[d]
        BY <2>1, <2>2
      <3> QED BY <2>1, <3>1, JoiningKeepsDrift
    <2>3. CASE d \in group \ {primary}
      <3>1. PICK v \in Customers : user'[v].state = "ACTIVE" /\ user'[v].company = d
        BY DEF Drifted, Members, Accounts
      <3>2. v \notin us
        BY <2>1, <2>3, <3>1, TypeRows DEF Joined, UserRows
      <3>3. user'[v] = user[v]
        BY <2>1, <3>2 DEF Joined
      <3> QED BY <2>3, <3>1, <3>2, <3>3 DEF Members, Accounts
    <2> QED BY <2>2, <2>3
  <1>12. ASSUME NEW us \in SUBSET Customers, NEW c \in Companies, MergeNames(us, c) \/ MergeAccounts(us, c)
         PROVE  Drifted(d)
    BY <1>12, MergeNamesPuts, MergeAccountsPuts, PuttingKeepsDrift
  <1>13. CASE AccountStep
    BY <1>13, <1>2, <1>3, <1>4, <1>5, <1>6, <1>7, <1>8, <1>9, Zenon DEF AccountStep
  <1> QED BY <1>10, <1>11, <1>12, <1>13, Zenon DEF Unresolved, MergeStep

\* Every other step is such a resolution.
LEMMA StepKeepsAgreement ==
  ASSUME TablesOK, MembersHaveCompany, TableStep, NEW d \in Companies, Drifted(d)'
  PROVE  Drifted(d) \/ Resolving
  <1>1. Unresolved \/ Resolving
    BY Zenon DEF TableStep, RepairStep, Unresolved
  <1> QED BY <1>1, UnresolvedKeepsAgreement

\* Only an administrator's resolution of a group sets a company's representative apart
\* from its members', whatever is created, joined, reassigned, merged or viewed.
THEOREM DriftSafe == Spec => OnlyResolutionDrifts
  <1> DEFINE Kept == \A c \in Companies : Drifted(c)' => Drifted(c) \/ Resolving
  <1>1. TablesOK /\ MembersHaveCompany /\ [Next]_vars => [Kept]_vars
    BY StepsTables, StepKeepsAgreement
  <1>2. Spec => [][Kept]_vars
    BY <1>1, TablesCorrect, MembersSafe, PTL DEF Spec
  <1> QED BY <1>2 DEF OnlyResolutionDrifts

-----------------------------------------------------------------------------
(* Orders follow their customers *)

\* Whoever placed an order on the portal has been in a company ever since, or is
\* removed.
PortalCustomersHaveCompany ==
  \A o \in Orders : order[o].exists /\ order[o].source = "PORTAL" =>
    /\ order[o].email \in Customers
    /\ \/ user[order[o].email].state = "REMOVED"
       \/ user[order[o].email].state = "ACTIVE" /\ user[order[o].email].company # None

OrdersInv == TablesOK /\ PortalCustomersHaveCompany /\ OrdersFollowTheirCustomer

\* Accounts us join company c, and their orders with them; orders os of the company
\* may be written too.
LEMMA JoiningMovesOrders ==
  ASSUME OrdersInv, NEW us, NEW os, NEW c \in Companies, NEW r,
         user' = Joined(us, c, r), order' = Moved(os, c, r),
         OrdersOf(us) \subseteq os, os \subseteq OrdersOf(us) \cup OrdersIn(c)
  PROVE  (PortalCustomersHaveCompany /\ OrdersFollowTheirCustomer)'
  <1> USE DEF OrdersInv
  <1>1. ASSUME NEW o \in Orders
        PROVE  /\ order'[o].exists = order[o].exists /\ order'[o].source = order[o].source
               /\ order'[o].customer = order[o].customer /\ order'[o].email = order[o].email
               /\ order'[o].company = IF o \in os THEN c ELSE order[o].company
    BY TypeRows DEF Moved, OrderRows
  <1>2. ASSUME NEW u \in Customers
        PROVE  user'[u].state = user[u].state /\ user'[u].company = IF u \in us THEN c ELSE user[u].company
    BY TypeRows DEF Joined, UserRows
  <1>3. PortalCustomersHaveCompany'
    BY <1>1, <1>2, AccountsAssumption DEF PortalCustomersHaveCompany
  <1>4. ASSUME NEW o \in Orders, NEW u \in Customers, user'[u].state = "ACTIVE",
               order'[o].exists, order'[o].source = "PORTAL", order'[o].customer = u, order'[o].email = u
        PROVE  order'[o].company = user'[u].company
    <2>1. CASE u \in us
      <3>1. o \in os
        BY <1>1, <1>4, <2>1 DEF OrdersOf
      <3> QED BY <1>1, <1>2, <2>1, <3>1
    <2>2. CASE u \notin us
      <3>1. order[o].company = user[u].company
        BY <1>1, <1>2, <1>4 DEF OrdersFollowTheirCustomer, Accounts
      <3>2. o \in os => order[o].company = c
        BY <1>1, <1>4, <2>2 DEF OrdersOf, OrdersIn
      <3> QED BY <1>1, <1>2, <2>2, <3>1, <3>2
    <2> QED BY <2>1, <2>2
  <1>5. OrdersFollowTheirCustomer'
    BY <1>4 DEF OrdersFollowTheirCustomer, Accounts
  <1> QED BY <1>3, <1>5

\* Accounts that are put together take their orders along.
LEMMA PuttingMovesOrders ==
  ASSUME OrdersInv, NEW us, NEW c \in Companies, NEW r, PutTogether(us, c, r)
  PROVE  (PortalCustomersHaveCompany /\ OrdersFollowTheirCustomer)'
  BY JoiningMovesOrders DEF PutTogether

\* A step that writes no order but its representative, and no account but one that is
\* made or removed, and nobody's company.
LEMMA OthersKeepOrders ==
  ASSUME OrdersInv,
         \A o \in Orders : /\ order'[o].exists = order[o].exists /\ order'[o].source = order[o].source
                          /\ order'[o].customer = order[o].customer /\ order'[o].email = order[o].email
                          /\ order'[o].company = order[o].company,
         \A u \in Customers : \/ user'[u].state = user[u].state /\ user'[u].company = user[u].company
                             \/ user[u].state = "FREE"
                             \/ user'[u].state = "REMOVED"
  PROVE  (PortalCustomersHaveCompany /\ OrdersFollowTheirCustomer)'
  <1>1. PortalCustomersHaveCompany'
    BY DEF OrdersInv, PortalCustomersHaveCompany
  <1>2. OrdersFollowTheirCustomer'
    BY DEF OrdersInv, PortalCustomersHaveCompany, OrdersFollowTheirCustomer, Accounts
  <1> QED BY <1>1, <1>2

\* A new order starts with the company of its customer.
LEMMA PlacingKeepsOrders ==
  ASSUME OrdersInv, NEW o \in Orders, NEW u \in Customers, NEW e \in Customers \cup {None}, NEW r,
         NEW c \in Companies, NEW source, source = "PORTAL" => e = u, PlaceOrder(o, u, e, r, c, source)
  PROVE  (PortalCustomersHaveCompany /\ OrdersFollowTheirCustomer)'
  <1> USE DEF OrdersInv
  <1>1. ASSUME NEW v \in Customers
        PROVE  /\ user'[v].state = user[v].state
               /\ v # u => user'[v].company = user[v].company
               /\ user[v].company # None => user'[v].company = user[v].company
    BY TypeRows DEF PlaceOrder, UserRows
  <1>2. user'[u].state = "ACTIVE" /\ user'[u].company = c /\ c # None
    BY <1>1, TypeRows, AccountsAssumption DEF PlaceOrder, UserRows, Accounts
  <1>3. /\ order'[o].customer = u /\ order'[o].email = e /\ order'[o].source = source
        /\ order'[o].company = c
    BY TypeRows DEF PlaceOrder
  <1>4. \A p \in Orders : p # o => order'[p] = order[p]
    BY TypeRows DEF PlaceOrder
  <1>5. PortalCustomersHaveCompany'
    BY <1>1, <1>2, <1>3, <1>4 DEF PortalCustomersHaveCompany
  <1>6. ASSUME NEW p \in Orders, NEW v \in Customers, user'[v].state = "ACTIVE",
               order'[p].exists, order'[p].source = "PORTAL", order'[p].customer = v, order'[p].email = v
        PROVE  order'[p].company = user'[v].company
    <2>1. CASE p = o
      BY <1>2, <1>3, <1>6, <2>1
    <2>2. CASE p # o
      <3>1. order'[p] = order[p]
        BY <1>4, <2>2
      <3>2. user[v].state = "ACTIVE" /\ user[v].company # None
        BY <1>1, <1>6, <3>1 DEF PortalCustomersHaveCompany
      <3> QED BY <1>1, <1>6, <3>1, <3>2 DEF OrdersFollowTheirCustomer, Accounts
    <2> QED BY <2>1, <2>2
  <1>7. OrdersFollowTheirCustomer'
    BY <1>6 DEF OrdersFollowTheirCustomer, Accounts
  <1> QED BY <1>5, <1>7

\* What is done to an account keeps the portal's orders with it.
LEMMA AccountStepKeepsOrders ==
  ASSUME OrdersInv, AccountStep
  PROVE  (PortalCustomersHaveCompany /\ OrdersFollowTheirCustomer)'
  <1> USE DEF OrdersInv
  <1>1. ASSUME NEW u \in Customers, NEW c \in Companies, NEW r \in Reps, CreateCustomer(u, c, r)
        PROVE  (PortalCustomersHaveCompany /\ OrdersFollowTheirCustomer)'
    BY <1>1, OthersKeepOrders, TypeRows DEF CreateCustomer, Free
  <1>2. ASSUME NEW u \in Customers, NEW c \in Companies, AddTeammate(u, c)
        PROVE  (PortalCustomersHaveCompany /\ OrdersFollowTheirCustomer)'
    BY <1>2, OthersKeepOrders, TypeRows DEF AddTeammate, Free
  <1>3. ASSUME NEW u \in Customers, RegisterByRingBuilder(u)
        PROVE  (PortalCustomersHaveCompany /\ OrdersFollowTheirCustomer)'
    BY <1>3, OthersKeepOrders, TypeRows DEF RegisterByRingBuilder, Free
  <1>4. ASSUME NEW u \in Customers, Remove(u)
        PROVE  (PortalCustomersHaveCompany /\ OrdersFollowTheirCustomer)'
    BY <1>4, OthersKeepOrders, TypeRows DEF Remove, AbsentUser
  <1>5. ASSUME NEW u \in Customers, NEW r \in Reps \cup {None}, ChangeRep(u, r)
        PROVE  (PortalCustomersHaveCompany /\ OrdersFollowTheirCustomer)'
    <2>1. PICK us : user' = [v \in Customers |-> IF v \in us THEN [user[v] EXCEPT !.rep = r] ELSE user[v]]
      BY <1>5 DEF ChangeRep
    <2>2. PICK os : order' = Repped(os, r)
      BY <1>5 DEF ChangeRep
    <2>3. ASSUME NEW v \in Customers
          PROVE  user'[v].state = user[v].state /\ user'[v].company = user[v].company
      BY <2>1, TypeRows DEF UserRows
    <2>4. ASSUME NEW o \in Orders
          PROVE  /\ order'[o].exists = order[o].exists /\ order'[o].source = order[o].source
                 /\ order'[o].customer = order[o].customer /\ order'[o].email = order[o].email
                 /\ order'[o].company = order[o].company
      BY <2>2, TypeRows DEF Repped, OrderRows
    <2> QED BY <2>3, <2>4, OthersKeepOrders
  <1>6. ASSUME NEW u \in Customers, NEW c \in Companies, JoinCompany(u, c)
        PROVE  (PortalCustomersHaveCompany /\ OrdersFollowTheirCustomer)'
    <2> DEFINE r == Adopted(u, c)
               backfills == company[c].rep = None /\ r # None
               us == IF backfills THEN Members(c) \cup {u} ELSE {u}
               os == OrdersOf({u}) \cup IF backfills THEN OrdersIn(c) ELSE {}
    <2>1. /\ user' = Joined(us, c, r) /\ order' = Moved(os, c, r)
      BY <1>6 DEF JoinCompany
    <2>2. CASE ~backfills
      BY <2>1, <2>2, JoiningMovesOrders
    <2>3. CASE backfills
      <3>1. ASSUME NEW o \in Orders
            PROVE  /\ order'[o].exists = order[o].exists /\ order'[o].source = order[o].source
                   /\ order'[o].customer = order[o].customer /\ order'[o].email = order[o].email
                   /\ order'[o].company = IF o \in os THEN c ELSE order[o].company
        BY <2>1, TypeRows DEF Moved, OrderRows
      <3>2. ASSUME NEW v \in Customers
            PROVE  /\ user'[v].state = user[v].state
                   /\ user'[v].company = IF v = u THEN c ELSE user[v].company
        BY <2>1, <2>3, TypeRows DEF Joined, Members, UserRows
      <3>3. PortalCustomersHaveCompany'
        BY <3>1, <3>2, AccountsAssumption DEF PortalCustomersHaveCompany
      <3>4. ASSUME NEW o \in Orders, NEW v \in Customers, user'[v].state = "ACTIVE",
                   order'[o].exists, order'[o].source = "PORTAL", order'[o].customer = v, order'[o].email = v
            PROVE  order'[o].company = user'[v].company
        <4>1. CASE v = u
          BY <3>1, <3>2, <3>4, <4>1 DEF OrdersOf
        <4>2. CASE v # u
          <5>1. order[o].company = user[v].company
            BY <3>1, <3>2, <3>4 DEF OrdersFollowTheirCustomer, Accounts
          <5>2. o \in os => order[o].company = c
            BY <3>1, <3>4, <4>2 DEF OrdersOf, OrdersIn
          <5> QED BY <3>1, <3>2, <4>2, <5>1, <5>2
        <4> QED BY <4>1, <4>2
      <3>5. OrdersFollowTheirCustomer'
        BY <3>4 DEF OrdersFollowTheirCustomer, Accounts
      <3> QED BY <3>3, <3>5
    <2> QED BY <2>2, <2>3
  <1>7. ASSUME NEW u \in Customers, NEW c \in Companies, FoundOnView(u, c)
        PROVE  (PortalCustomersHaveCompany /\ OrdersFollowTheirCustomer)'
    BY <1>7, JoiningMovesOrders DEF FoundOnView
  <1>8. ASSUME NEW u \in Customers, ViewOrders(u)
        PROVE  (PortalCustomersHaveCompany /\ OrdersFollowTheirCustomer)'
    <2> DEFINE c == user[u].company
    <2>1. order' = Moved(OrdersOf(Members(c)), c, company[c].rep) /\ user' = user
      BY <1>8 DEF ViewOrders
    <2>4. ASSUME NEW o \in Orders
          PROVE  /\ order'[o].exists = order[o].exists /\ order'[o].source = order[o].source
                 /\ order'[o].customer = order[o].customer /\ order'[o].email = order[o].email
                 /\ order'[o].company = IF o \in OrdersOf(Members(c)) THEN c ELSE order[o].company
      BY <2>1, TypeRows DEF Moved, OrderRows
    <2>5. PortalCustomersHaveCompany'
      BY <2>1, <2>4 DEF PortalCustomersHaveCompany
    <2>6. ASSUME NEW o \in Orders, NEW v \in Customers, user'[v].state = "ACTIVE",
                 order'[o].exists, order'[o].source = "PORTAL", order'[o].customer = v, order'[o].email = v
          PROVE  order'[o].company = user'[v].company
      <3>1. order[o].company = user[v].company
        BY <2>1, <2>4, <2>6 DEF OrdersFollowTheirCustomer, Accounts
      <3>2. o \in OrdersOf(Members(c)) => v \in Members(c)
        BY <2>4, <2>6 DEF OrdersOf
      <3>3. v \in Members(c) => user[v].company = c
        BY DEF Members
      <3> HIDE DEF c
      <3> QED BY <2>1, <2>4, <3>1, <3>2, <3>3
    <2>7. OrdersFollowTheirCustomer'
      BY <2>6 DEF OrdersFollowTheirCustomer, Accounts
    <2> QED BY <2>5, <2>7
  <1> QED BY <1>1, <1>2, <1>3, <1>4, <1>5, <1>6, <1>7, <1>8, Zenon DEF AccountStep

\* So does every other step.
LEMMA StepKeepsOrders ==
  ASSUME OrdersInv, TableStep
  PROVE  (PortalCustomersHaveCompany /\ OrdersFollowTheirCustomer)'
  <1> USE DEF OrdersInv
  <1>1. ASSUME NEW o \in Orders, NEW u \in Customers, NEW c \in Companies, CustomerOrder(o, u, c)
        PROVE  (PortalCustomersHaveCompany /\ OrdersFollowTheirCustomer)'
    BY <1>1, PlacingKeepsOrders DEF CustomerOrder
  <1>2. ASSUME NEW o \in Orders, NEW u \in Customers, NEW c \in Companies,
               NEW e \in Customers \cup {None}, NEW r \in Reps \cup {None}, StaffOrder(o, u, e, r, c)
        PROVE  (PortalCustomersHaveCompany /\ OrdersFollowTheirCustomer)'
    BY <1>2, PlacingKeepsOrders DEF StaffOrder
  <1>3. ASSUME NEW o \in Orders, (\E r \in Reps \cup {None} : UnlinkedOrder(o, r))
                                 \/ \E u \in Customers : RingBuilderOrder(o, u)
        PROVE  (PortalCustomersHaveCompany /\ OrdersFollowTheirCustomer)'
    <2>1. user' = user /\ order'[o].source # "PORTAL" /\ \A p \in Orders : p # o => order'[p] = order[p]
      <3>1. ASSUME NEW r \in Reps \cup {None}, UnlinkedOrder(o, r)
            PROVE  order'[o].source = "STAFF"
        BY <3>1, TypeRows DEF UnlinkedOrder, AbsentOrder
      <3>2. ASSUME NEW u \in Customers, RingBuilderOrder(o, u)
            PROVE  order'[o].source = "RING_BUILDER"
        BY <3>2, TypeRows DEF RingBuilderOrder
      <3>3. user' = user /\ \A p \in Orders : p # o => order'[p] = order[p]
        BY <1>3, TypeRows DEF UnlinkedOrder, RingBuilderOrder
      <3> QED BY <1>3, <3>1, <3>2, <3>3
    <2> QED BY <2>1 DEF PortalCustomersHaveCompany, OrdersFollowTheirCustomer, Accounts
  <1>4. ASSUME NEW o \in Orders, NEW u \in Customers, Relink(o, u)
        PROVE  (PortalCustomersHaveCompany /\ OrdersFollowTheirCustomer)'
    <2>1. /\ user' = user
          /\ order'[o].exists = order[o].exists /\ order'[o].source = order[o].source
          /\ order'[o].customer = u /\ order'[o].email = order[o].email
          /\ order'[o].company = user[u].company
      BY <1>4, TypeRows DEF Relink, OrderRows
    <2>2. \A p \in Orders : p # o => order'[p] = order[p]
      BY <1>4, TypeRows DEF Relink
    <2> QED BY <2>1, <2>2 DEF PortalCustomersHaveCompany, OrdersFollowTheirCustomer, Accounts
  <1>5. ASSUME NEW group \in SUBSET Companies, NEW primary \in Companies, MergeCompanies(group, primary)
        PROVE  (PortalCustomersHaveCompany /\ OrdersFollowTheirCustomer)'
    <2>1. PICK us, r : user' = Joined(us, primary, r) /\ order' = Moved(OrdersOf(us), primary, r)
      BY <1>5 DEF MergeCompanies
    <2> QED BY <2>1, JoiningMovesOrders
  <1>6. ASSUME NEW us \in SUBSET Customers, NEW c \in Companies,
               MergeNames(us, c) \/ MergeAccounts(us, c) \/ \E r \in Reps \cup {None} : ResolveGroup(us, c, r)
        PROVE  (PortalCustomersHaveCompany /\ OrdersFollowTheirCustomer)'
    BY <1>6, MergeNamesPuts, MergeAccountsPuts, ResolveGroupPuts, PuttingMovesOrders
  <1>7. CASE OrderStep
    BY <1>1, <1>2, <1>3, <1>4, <1>7, Zenon DEF OrderStep
  <1>8. CASE RepairStep
    BY <1>5, <1>6, <1>8, Zenon DEF RepairStep, MergeStep, Resolving
  <1> QED BY <1>7, <1>8, AccountStepKeepsOrders DEF TableStep

\* The inductive invariant behind it holds in every reachable state.
LEMMA OrdersInductive == Spec => []OrdersInv
  <1> DEFINE Kept == PortalCustomersHaveCompany /\ OrdersFollowTheirCustomer
  <1>1. Init => Kept
    BY DEF Init, PortalCustomersHaveCompany, OrdersFollowTheirCustomer, AbsentOrder
  <1>2. TablesOK /\ Kept /\ [Next]_vars => Kept'
    <2>1. TablesOK /\ Kept /\ UNCHANGED vars => Kept'
      BY DEF vars, PortalCustomersHaveCompany, OrdersFollowTheirCustomer, Accounts
    <2> QED BY <2>1, StepsTables, StepKeepsOrders DEF OrdersInv
  <1>3. Spec => [](TablesOK /\ Kept)
    BY <1>1, <1>2, TablesCorrect, PTL DEF Spec
  <1>4. TablesOK /\ Kept => OrdersInv
    BY DEF OrdersInv
  <1> QED BY <1>3, <1>4, PTL

\* An order placed on the portal stays with the company its customer is in, through
\* every join, merge, resolution, view and relinking.
THEOREM OrdersSafe == Spec => []OrdersFollowTheirCustomer
  <1>1. OrdersInv => OrdersFollowTheirCustomer
    BY DEF OrdersInv
  <1> QED BY <1>1, OrdersInductive, PTL

-----------------------------------------------------------------------------
(* What representatives find *)

\* Only companies that a group was resolved into may have drifted.
DriftIsResolved == \A c \in Companies : Drifted(c) => c \in resolved

\* Whatever accounts are made, joined, reassigned, merged or viewed: a company nobody
\* resolved a group into has the representative of each of its members who has one.
THEOREM DriftRecorded == Spec => []DriftIsResolved
  <1>1. Init => DriftIsResolved
    BY DEF Init, DriftIsResolved, Drifted, Members, Accounts, AbsentUser
  <1>2. TablesOK /\ MembersHaveCompany /\ DriftIsResolved /\ [Next]_vars => DriftIsResolved'
    <2> SUFFICES ASSUME TablesOK, MembersHaveCompany, DriftIsResolved, [Next]_vars,
                        NEW d \in Companies, Drifted(d)'
                 PROVE  d \in resolved'
      BY DEF DriftIsResolved
    <2>1. CASE Unresolved /\ UNCHANGED resolved
      BY <2>1, UnresolvedKeepsAgreement DEF DriftIsResolved
    <2>2. ASSUME NEW us \in SUBSET Customers, NEW c \in Companies, NEW r \in Reps \cup {None},
                 ResolveGroup(us, c, r), resolved' = resolved \cup {c}
          PROVE  d \in resolved'
      <3>1. PICK q \in Reps \cup {None} : PutTogether(us, c, q)
        BY <2>2, ResolveGroupPuts
      <3>2. d # c => Drifted(d)
        BY <3>1, PuttingKeepsDrift
      <3> QED BY <2>2, <3>2 DEF DriftIsResolved
    <2>3. CASE UNCHANGED vars
      BY <2>3 DEF vars, DriftIsResolved, Drifted, Members, Accounts
    <2>4. CASE Next
      BY <2>1, <2>2, <2>4, Zenon DEF Next, Unresolved
    <2> QED BY <2>3, <2>4
  <1> QED BY <1>1, <1>2, TablesCorrect, MembersSafe, PTL DEF Spec

\* What a representative opens, and what the representative's customers have ordered on
\* the portal, is in the list, however old the order's own copy is, unless a group was
\* resolved into its company by hand.  (Orders from the Ring Builder carry no company:
\* RepSeesEveryOrder.)
THEOREM RepFindsSafe == Spec => []RepFindsOrders
  <1>1. OrdersInv /\ MembersHaveCompany /\ DriftIsResolved => RepFindsOrders
    <2> SUFFICES ASSUME OrdersInv, MembersHaveCompany, DriftIsResolved,
                        NEW o \in Orders, NEW r \in Reps,
                        Opens(o, r) \/ OrderedWith(o, r), order[o].rep # r
                 PROVE  Listed(o, r) \/ order[o].company \in resolved
      BY DEF RepFindsOrders, Listed, Opens, OrderedWith
    <2>1. \E c \in Companies : order[o].company = c /\ \E u \in Members(c) : user[u].rep = r
      <3>1. CASE Opens(o, r)
        BY <3>1 DEF Opens
      <3>2. CASE OrderedWith(o, r)
        <4>1. PICK u \in Accounts : /\ order[o].exists /\ order[o].source = "PORTAL"
                                    /\ order[o].customer = u /\ order[o].email = u
                                    /\ user[u].rep = r
          BY <3>2 DEF OrderedWith
        <4>2. user[u].company # None /\ order[o].company = user[u].company
          BY <4>1 DEF OrdersInv, PortalCustomersHaveCompany, OrdersFollowTheirCustomer, Accounts
        <4>3. user[u].company \in Companies
          BY <4>2 DEF MembersHaveCompany, Firms
        <4> QED BY <4>1, <4>2, <4>3 DEF Members
      <3> QED BY <3>1, <3>2
    <2>c. PICK c \in Companies : order[o].company = c /\ \E u \in Members(c) : user[u].rep = r
      BY <2>1
    <2>2. PICK u \in Members(c) : order[o].company = c /\ user[u].rep = r
      BY <2>c
    <2>3. c \in Firms /\ r # None
      BY <2>2, AccountsAssumption DEF Members, MembersHaveCompany
    <2>4. order[o].exists
      BY DEF Opens, OrderedWith
    <2>5. CASE company[c].rep = r
      BY <2>2, <2>3, <2>4, <2>5 DEF Listed
    <2>6. CASE company[c].rep # r
      <3>1. Drifted(c)
        BY <2>2, <2>3, <2>6 DEF Drifted
      <3> QED BY <2>2, <3>1 DEF DriftIsResolved
    <2> QED BY <2>5, <2>6
  <1> QED BY <1>1, OrdersInductive, MembersSafe, DriftRecorded, PTL

=============================================================================
