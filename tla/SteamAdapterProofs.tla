------------------------- MODULE SteamAdapterProofs -------------------------
(***************************************************************************)
(* HandlesAuthenticated and CurrentContextsUsable hold of SteamAdapter for *)
(* any threads, contexts and bounds.                                       *)
(***************************************************************************)
EXTENDS SteamAdapter, TLAPS

-----------------------------------------------------------------------------
(* Type correctness.                                                       *)

LEMMA EnsureConnectedType ==
  ASSUME TypeOK, EnsureConnected
  PROVE  /\ pipes' \in Nat /\ leaks' \in Nat /\ generation' \in Nat
         /\ lapsed' \in BOOLEAN
         /\ api' \in [client : BOOLEAN, pipe : Nat, user : Nat, result : Result]
         /\ owned' \subseteq 1..pipes'
<1>1. CASE UNCHANGED <<steamVars, adapterVars>>
  BY <1>1 DEF TypeOK, steamVars, adapterVars
<1>2. ASSUME NEW end \in Failure \cup {"done"}
      PROVE  Candidate(end, pipes + 1) \in [client : BOOLEAN, pipe : Nat, user : Nat, result : Result]
  BY DEF Candidate, Failure, TypeOK, Result
<1>3. CASE ConnectToSteam
  <2>1. api' \in [client : BOOLEAN, pipe : Nat, user : Nat, result : Result]
    BY <1>2, <1>3 DEF ConnectToSteam
  <2>2. pipes' \in Nat /\ pipes' >= pipes /\ leaks' \in Nat /\ generation' \in Nat
    BY <1>3 DEF ConnectToSteam, TypeOK
  <2>3. owned' \subseteq 1..pipes'
    <3>1. 1..pipes \cup {pipes + 1} \subseteq 1..(pipes + 1)
      BY DEF TypeOK
    <3>2. CASE owned' = owned \cup {pipes + 1} /\ pipes' = pipes + 1
      BY <3>1, <3>2 DEF TypeOK
    <3>3. CASE owned' = owned
      BY <3>3, <2>2 DEF TypeOK
    <3> QED
      BY <1>3, <3>2, <3>3 DEF ConnectToSteam
  <2>4. lapsed' \in BOOLEAN
    BY <1>3 DEF ConnectToSteam, TypeOK
  <2> QED
    BY <2>1, <2>2, <2>3, <2>4
<1> QED
  BY <1>1, <1>3 DEF EnsureConnected

LEMMA TypeInit == Init => TypeOK
<1> SUFFICES ASSUME Init PROVE TypeOK
  OBVIOUS
<1>1. api \in [client : BOOLEAN, pipe : Nat, user : Nat, result : Result]
  BY DEF Init, Result
<1>2. /\ pc \in [Thread -> Place]
      /\ in \in [Thread -> Context \cup {NoContext}]
      /\ \A t \in Thread : pc[t] \in InContext => in[t] # NoContext
      /\ \A t \in Thread : pc[t] \in Outside => in[t] = NoContext
  BY DEF Init, Place, InContext, Outside
<1>3. /\ gen \in [Thread -> Nat] /\ held \in [Thread -> Nat] /\ asked \in [Thread -> Nat]
      /\ label \in [Context -> Nat]
  BY DEF Init
<1>4. made \in [Thread -> Interface] /\ slot \in [Context -> Interface]
  BY DEF Init, Interface, NoInterface
<1>5. /\ ready \in BOOLEAN /\ lapsed \in BOOLEAN
      /\ pipes \in Nat /\ leaks \in Nat /\ nulls \in Nat /\ generation \in Nat
      /\ owned \subseteq 1..pipes /\ shared \subseteq Context
  BY DEF Init
<1> QED
  BY <1>1, <1>2, <1>3, <1>4, <1>5 DEF TypeOK

\* The steps of a thread that connect.
LEMMA TypeConnecting ==
  ASSUME TypeOK, NEW t \in Thread, ApiInit(t) \/ GetHSteamUser(t) \/ FindOrCreateUserInterface(t)
  PROVE  TypeOK'
<1>1. CASE ApiInit(t)
  BY <1>1, EnsureConnectedType DEF ApiInit, TypeOK, Goto, Place, InContext, Outside, contextVars
<1>2. CASE GetHSteamUser(t)
  BY <1>2, EnsureConnectedType DEF GetHSteamUser, AfterUser, TypeOK, Goto, Place, InContext, Outside, contextVars
<1>3. CASE FindOrCreateUserInterface(t)
  BY <1>3, EnsureConnectedType
  DEF FindOrCreateUserInterface, AfterInterface, TypeOK, Goto, Place, InContext, Outside, contextVars, Interface,
      NoInterface
<1> QED
  BY <1>1, <1>2, <1>3

\* The steps that read or write what is there.
LEMMA TypeLocal ==
  ASSUME TypeOK, NEW t \in Thread,
         \/ ApiInitRefused(t) \/ ApiInitNull(t) \/ ReadUser(t) \/ MakeInterface(t) \/ Return(t)
         \/ LoadGeneration(t) \/ CompareGeneration(t) \/ StoreInterface(t) \/ StoreLabel(t)
  PROVE  TypeOK'
<1> USE DEF TypeOK, Goto, Place, InContext, Outside, steamVars, adapterVars, callVars, contextVars
<1>1. CASE ApiInitRefused(t)
  BY <1>1 DEF ApiInitRefused
<1>2. CASE ApiInitNull(t)
  BY <1>2 DEF ApiInitNull, Result
<1>3. CASE ReadUser(t)
  BY <1>3 DEF ReadUser, AfterUser
<1>4. CASE MakeInterface(t)
  BY <1>4 DEF MakeInterface, AfterInterface, Interface, NoInterface
<1>5. CASE Return(t)
  BY <1>5 DEF Return, Interface, NoInterface
<1>6. CASE LoadGeneration(t)
  BY <1>6, AdapterAssumption DEF LoadGeneration
<1>7. CASE CompareGeneration(t)
  <2>1. pc' \in [Thread -> Place] /\ in' \in [Thread -> Context \cup {NoContext}]
    BY <1>7 DEF CompareGeneration
  <2>2. slot' \in [Context -> Interface] /\ gen' \in [Thread -> Nat]
    BY <1>7 DEF CompareGeneration, Interface, NoInterface
  <2>3. shared' \subseteq Context
    BY <1>7 DEF CompareGeneration
  <2> QED
    BY <1>7, <2>1, <2>2, <2>3 DEF CompareGeneration
<1>8. CASE StoreInterface(t)
  BY <1>8 DEF StoreInterface, Interface, NoInterface
<1>9. CASE StoreLabel(t)
  BY <1>9 DEF StoreLabel
<1> QED
  BY <1>1, <1>2, <1>3, <1>4, <1>5, <1>6, <1>7, <1>8, <1>9

\* Every step is one of these.
LEMMA NextCases ==
  ASSUME Next
  PROVE  \/ SteamChanges
         \/ \E t \in Thread : ApiInit(t) \/ GetHSteamUser(t) \/ FindOrCreateUserInterface(t)
         \/ \E t \in Thread :
              \/ ApiInitRefused(t) \/ ApiInitNull(t) \/ ReadUser(t) \/ MakeInterface(t) \/ Return(t)
              \/ LoadGeneration(t) \/ CompareGeneration(t) \/ StoreInterface(t) \/ StoreLabel(t)
BY DEF Next, Call, Continue

LEMMA TypeStep == TypeOK /\ [Next]_vars => TypeOK'
<1> SUFFICES ASSUME TypeOK, [Next]_vars PROVE TypeOK'
  OBVIOUS
<1>1. CASE UNCHANGED vars
  BY <1>1 DEF TypeOK, vars, steamVars, adapterVars, callVars, contextVars
<1>2. CASE SteamChanges
  BY <1>2 DEF SteamChanges, TypeOK, steamVars, adapterVars, callVars, contextVars
<1> QED
  BY <1>1, <1>2, NextCases, TypeConnecting, TypeLocal

\* Every variable of SteamAdapter keeps its type (the declarations of steam_api_bridge.cpp).
THEOREM Types == Spec => []TypeOK
<1> QED
  BY TypeInit, TypeStep, PTL DEF Spec

-----------------------------------------------------------------------------
(* Every handle belongs to a connection Steam has confirmed.  The invariant *)
(* adds what the connection is between two steps: while no attempt has      *)
(* lapsed and once one has succeeded, the state is that of a successful     *)
(* one, whatever Init without a version list makes of its result; and a     *)
(* thread is past EnsureConnected only after that.                          *)

Confirmed == api.client /\ api.pipe \in owned /\ api.user \in owned

Steady ==
  /\ owned # {} => Confirmed
  /\ \A t \in Thread : pc[t] \in {"user", "make"} => owned # {}

Handled ==
  /\ \A t \in Thread :
       held[t] \in owned \cup {0} /\ asked[t] \in owned \cup {0} /\ Vouched(made[t])
  /\ \A c \in Context : Vouched(slot[c])

HInv ==
  /\ TypeOK
  /\ api.result = "Ok" => Confirmed
  /\ ~lapsed => Steady /\ Handled

\* What a call of EnsureConnected does to the connection.
LEMMA EnsureConnectedConfirms ==
  ASSUME HInv, EnsureConnected
  PROVE  /\ Connected => Confirmed' /\ owned' # {}
         /\ owned \subseteq owned'
         /\ ~lapsed' => ~lapsed /\ (owned' # {} => Confirmed')
<1>1. CASE api.result = "Ok"
  BY <1>1 DEF EnsureConnected, HInv, Steady, Confirmed, Connected, steamVars, adapterVars
<1>2. CASE ready /\ api' = Candidate("done", pipes + 1) /\ owned' = owned \cup {pipes + 1}
            /\ lapsed' = lapsed
  BY <1>2 DEF Candidate, Confirmed
<1>3. ASSUME NEW end \in Failure, api' = Candidate(end, pipes + 1), owned' = owned,
             lapsed' = (lapsed \/ owned # {})
      PROVE  ~Connected /\ (~lapsed' => ~lapsed /\ owned' = {})
  BY <1>3 DEF Candidate, Connected, Failure, HInv, TypeOK
<1> QED
  BY <1>1, <1>2, <1>3 DEF EnsureConnected, ConnectToSteam

LEMMA HandledInit == Init => HInv
<1> SUFFICES ASSUME Init PROVE HInv
  OBVIOUS
<1>1. TypeOK
  BY TypeInit
<1>2. Steady
  BY DEF Init, Steady
<1>3. Handled
  BY DEF Init, Handled, Vouched
<1> QED
  BY <1>1, <1>2, <1>3 DEF HInv, Init

LEMMA HandledConnecting ==
  ASSUME HInv, NEW t \in Thread, ApiInit(t) \/ GetHSteamUser(t) \/ FindOrCreateUserInterface(t)
  PROVE  HInv'
<1>0. TypeOK'
  BY TypeConnecting DEF HInv
<1>1. EnsureConnected
  BY DEF ApiInit, GetHSteamUser, FindOrCreateUserInterface
<1>2. api'.result = "Ok" => Confirmed'
  BY <1>1, EnsureConnectedConfirms DEF Connected
<1>3. ASSUME ~lapsed' PROVE Steady' /\ Handled'
  <2>1. ~lapsed /\ (owned' # {} => Confirmed') /\ owned \subseteq owned'
    BY <1>1, <1>3, EnsureConnectedConfirms
  <2>2. \A u \in Thread : pc'[u] \in {"user", "make"} => owned' # {}
    <3>1. \A u \in Thread \ {t} : pc'[u] = pc[u]
      BY DEF ApiInit, GetHSteamUser, FindOrCreateUserInterface, Goto, HInv, TypeOK
    <3>2. pc'[t] \in {"user", "make"} => Connected
      BY DEF ApiInit, GetHSteamUser, FindOrCreateUserInterface, AfterUser, AfterInterface, Goto,
             HInv, TypeOK
    <3> QED
      BY <1>1, <2>1, <3>1, <3>2, EnsureConnectedConfirms DEF HInv, Steady
  <2>3. \A u \in Thread : held'[u] \in owned \cup {0} /\ asked'[u] \in owned \cup {0}
    BY <2>1 DEF ApiInit, GetHSteamUser, FindOrCreateUserInterface, HInv, Handled, TypeOK
  <2>4. \A u \in Thread : made'[u] = made[u] \/ made'[u] = NoInterface
    BY DEF ApiInit, GetHSteamUser, FindOrCreateUserInterface, HInv, TypeOK
  <2>5. slot' = slot
    BY DEF ApiInit, GetHSteamUser, FindOrCreateUserInterface, contextVars
  <2> QED
    BY <2>1, <2>2, <2>3, <2>4, <2>5 DEF Steady, Handled, Vouched, HInv
<1> QED
  BY <1>0, <1>2, <1>3 DEF HInv

LEMMA HandledLocal ==
  ASSUME HInv, NEW t \in Thread,
         \/ ApiInitRefused(t) \/ ApiInitNull(t) \/ ReadUser(t) \/ MakeInterface(t) \/ Return(t)
         \/ LoadGeneration(t) \/ CompareGeneration(t) \/ StoreInterface(t) \/ StoreLabel(t)
  PROVE  HInv'
<1>0. TypeOK /\ TypeOK'
  BY TypeLocal DEF HInv
<1> USE DEF HInv, Goto, steamVars, adapterVars, callVars, contextVars
<1>1. /\ owned' = owned /\ lapsed' = lapsed
      /\ api'.client = api.client /\ api'.pipe = api.pipe /\ api'.user = api.user
      /\ api'.result = "Ok" => api.result = "Ok"
  BY <1>0 DEF ApiInitRefused, ApiInitNull, ReadUser, MakeInterface, Return, LoadGeneration,
      CompareGeneration, StoreInterface, StoreLabel, TypeOK
<1>2. Confirmed' <=> Confirmed
  BY <1>1 DEF Confirmed
<1>3. ASSUME ~lapsed PROVE Steady'
  <2>1. \A u \in Thread : pc'[u] \in {"user", "make"} => pc[u] \in {"user", "make"}
    BY <1>0 DEF ApiInitRefused, ApiInitNull, ReadUser, MakeInterface, Return, LoadGeneration,
      CompareGeneration, StoreInterface, StoreLabel, AfterUser, AfterInterface, TypeOK
  <2> QED
    BY <1>1, <1>2, <1>3, <2>1 DEF Steady
<1>4. ASSUME ~lapsed PROVE Handled'
  <2>1. CASE ReadUser(t)
    <3>1. api.user \in owned
      BY <1>4, <2>1 DEF ReadUser, Steady, Confirmed
    <3>2. \A u \in Thread : held'[u] \in owned \cup {0}
      BY <1>0, <1>4, <2>1, <3>1 DEF ReadUser, Handled, TypeOK
    <3> QED
      BY <1>1, <1>4, <2>1, <3>2 DEF ReadUser, Handled, Vouched
  <2>2. CASE MakeInterface(t)
    <3>1. api.user \in owned /\ api.pipe \in owned
      BY <1>4, <2>2 DEF MakeInterface, Steady, Confirmed
    <3>2. Vouched([user |-> IF asked[t] = 0 THEN api.user ELSE asked[t], pipe |-> api.pipe])
      BY <1>4, <3>1 DEF Vouched, Handled
    <3>3. Vouched(NoInterface)
      BY DEF Vouched
    <3>4. \A u \in Thread : Vouched(made'[u])
      BY <1>0, <1>4, <2>2, <3>2, <3>3 DEF MakeInterface, Handled, TypeOK
    <3>5. \A u \in Thread : asked'[u] \in owned \cup {0}
      BY <1>0, <1>4, <2>2 DEF MakeInterface, Handled, TypeOK
    <3> QED
      BY <1>1, <1>4, <2>2, <3>4, <3>5 DEF MakeInterface, Handled, Vouched
  <2>3. CASE StoreInterface(t)
    <3>1. \A c \in Context : Vouched(slot'[c])
      BY <1>0, <1>4, <2>3 DEF StoreInterface, Handled, TypeOK
    <3>2. \A u \in Thread : Vouched(made'[u]) /\ held'[u] \in owned \cup {0}
      BY <1>0, <1>4, <2>3 DEF StoreInterface, Handled, Vouched, TypeOK
    <3> QED
      BY <1>1, <1>4, <2>3, <3>1, <3>2 DEF StoreInterface, Handled, Vouched
  <2>4. CASE CompareGeneration(t)
    <3>1. \A c \in Context : Vouched(slot'[c])
      BY <1>0, <1>4, <2>4 DEF CompareGeneration, Handled, Vouched, TypeOK
    <3> QED
      BY <1>1, <1>4, <2>4, <3>1 DEF CompareGeneration, Handled, Vouched
  <2>5. CASE Return(t)
    <3>1. \A u \in Thread : Vouched(made'[u])
      BY <1>0, <1>4, <2>5 DEF Return, Handled, Vouched, TypeOK
    <3> QED
      BY <1>1, <1>4, <2>5, <3>1 DEF Return, Handled, Vouched
  <2>6. CASE ApiInitRefused(t) \/ ApiInitNull(t) \/ LoadGeneration(t) \/ StoreLabel(t)
    BY <1>1, <1>4, <2>6 DEF ApiInitRefused, ApiInitNull, LoadGeneration, StoreLabel, Handled, Vouched
  <2> QED
    BY <2>1, <2>2, <2>3, <2>4, <2>5, <2>6
<1> QED
  BY <1>0, <1>1, <1>2, <1>3, <1>4

LEMMA HandledStep == HInv /\ [Next]_vars => HInv'
<1> SUFFICES ASSUME HInv, [Next]_vars PROVE HInv'
  OBVIOUS
<1>0. TypeOK'
  BY TypeStep DEF HInv
<1>1. CASE UNCHANGED vars
  BY <1>0, <1>1 DEF HInv, Steady, Handled, Vouched, Confirmed, vars, steamVars, adapterVars, callVars,
      contextVars
<1>2. CASE SteamChanges
  BY <1>0, <1>2 DEF HInv, Steady, Handled, Vouched, Confirmed, SteamChanges, steamVars, adapterVars,
      callVars, contextVars
<1> QED
  BY <1>1, <1>2, NextCases, HandledConnecting, HandledLocal

LEMMA HandledImplies == HInv => HandlesAuthenticated
BY DEF HInv, HandlesAuthenticated, Handled, Confirmed

\* "refuses initialization unless the signed-in account reports ownership" (README.md): the
\* adapter hands out only handles of a connection on which Steam confirmed the ownership, as
\* long as no attempt has failed after one that succeeded.
THEOREM Authenticated == Spec => []HandlesAuthenticated
<1> QED
  BY HandledInit, HandledStep, HandledImplies, PTL DEF Spec

-----------------------------------------------------------------------------
(* A context whose label is current holds no interface of another          *)
(* connection.  An attempt that succeeds raises the generation, so a       *)
(* connection that is Ok under a generation has been so for as long as     *)
(* that generation was current.  While a thread initialises a context      *)
(* alone, either its own generation or the label is current only if the    *)
(* user it holds and the interface it has made are of this connection.     *)

Present == [user |-> api.pipe, pipe |-> api.pipe]
Usable(i) == i \in {NoInterface, Present}

\* What t has got so far for the context it initialises.
Fresh(t) ==
  /\ pc[t] = "create" => held[t] \in {0, api.pipe}
  /\ pc[t] = "make" => asked[t] \in {0, api.pipe}
  /\ pc[t] = "store" => Usable(made[t])

Underway(t, c) ==
  /\ gen[t] = generation \/ label[c] = generation => Fresh(t)
  /\ pc[t] = "label" /\ gen[t] = generation => Usable(slot[c])

Bounded ==
  /\ \A t \in Thread : gen[t] <= generation
  /\ \A c \in Context : label[c] <= generation

Alone ==
  \A c \in Context \ shared : \A t, u \in Thread : Initialising(t, c) /\ Initialising(u, c) => t = u

Current ==
  api.result = "Ok" =>
    \A c \in Context \ shared :
      /\ label[c] = generation => Usable(slot[c])
      /\ \A t \in Thread : Initialising(t, c) => Underway(t, c)

UInv ==
  /\ TypeOK
  /\ api.result = "Ok" => api.user = api.pipe
  /\ Bounded
  /\ Alone
  /\ Current

LEMMA UsableInit == Init => UInv
<1> SUFFICES ASSUME Init PROVE UInv
  OBVIOUS
<1>1. TypeOK
  BY TypeInit
<1>2. Bounded /\ Alone /\ Current
  BY DEF Init, Bounded, Alone, Current, Initialising
<1> QED
  BY <1>1, <1>2 DEF UInv, Init

\* What a call of EnsureConnected can do to a connection under its generation.
LEMMA EnsureConnectedGeneration ==
  ASSUME TypeOK, EnsureConnected
  PROVE  \/ UNCHANGED <<api, generation>> /\ api.result = "Ok"
         \/ generation' = generation /\ ~Connected
         \/ generation' = generation + 1 /\ api'.user = api'.pipe
<1>1. CASE ready /\ api' = Candidate("done", pipes + 1) /\ generation' = generation + 1
  BY <1>1 DEF Candidate
<1>2. ASSUME NEW end \in Failure, api' = Candidate(end, pipes + 1), generation' = generation
      PROVE  ~Connected
  BY <1>2 DEF Candidate, Connected, Failure
<1> QED
  BY <1>1, <1>2 DEF EnsureConnected, ConnectToSteam, adapterVars

\* A thread that is not inside ContextInit initialises nothing.
LEMMA OutsideInitialisesNothing ==
  ASSUME TypeOK, NEW t \in Thread, NEW c \in Context, Initialising(t, c)
  PROVE  pc[t] \notin Outside /\ in[t] # NoContext
BY AdapterAssumption DEF TypeOK, Initialising, Outside

LEMMA UsableConnecting ==
  ASSUME UInv, NEW t \in Thread, ApiInit(t) \/ GetHSteamUser(t) \/ FindOrCreateUserInterface(t)
  PROVE  UInv'
<1>0. TypeOK /\ TypeOK'
  BY TypeConnecting DEF UInv
<1>1. EnsureConnected
  BY DEF ApiInit, GetHSteamUser, FindOrCreateUserInterface
<1>2. gen' = gen /\ in' = in /\ label' = label /\ slot' = slot /\ shared' = shared
  BY DEF ApiInit, GetHSteamUser, FindOrCreateUserInterface, contextVars
<1>3. \A u \in Thread \ {t} :
        pc'[u] = pc[u] /\ held'[u] = held[u] /\ asked'[u] = asked[u] /\ made'[u] = made[u]
  BY <1>0 DEF ApiInit, GetHSteamUser, FindOrCreateUserInterface, Goto, TypeOK
<1>4. \A u \in Thread, c \in Context : Initialising(u, c)' => Initialising(u, c)
  <2>1. \A c \in Context : Initialising(t, c)' => Initialising(t, c)
    BY <1>0, <1>2, AdapterAssumption
    DEF Initialising, ApiInit, GetHSteamUser, FindOrCreateUserInterface, UserCall, AfterUser,
        AfterInterface, Goto, TypeOK, Outside, InContext
  <2> QED
    BY <1>2, <1>3, <2>1 DEF Initialising
<1>5. Alone'
  BY <1>2, <1>4 DEF UInv, Alone
<1>6. Bounded'
  BY <1>0, <1>1, <1>2, EnsureConnectedGeneration DEF UInv, Bounded, TypeOK
<1>7. CASE generation' = generation + 1 /\ api'.user = api'.pipe
  <2>1. \A c \in Context : label'[c] # generation'
    BY <1>0, <1>2, <1>7 DEF UInv, Bounded, TypeOK
  <2>2. \A u \in Thread : gen'[u] # generation'
    BY <1>0, <1>2, <1>7 DEF UInv, Bounded, TypeOK
  <2>3. Current'
    BY <2>1, <2>2 DEF Current, Underway
  <2> QED
    BY <1>0, <1>5, <1>6, <1>7, <2>3 DEF UInv
<1>8. CASE ~Connected
  BY <1>0, <1>5, <1>6, <1>8 DEF UInv, Current, Connected
<1>9. CASE UNCHANGED <<api, generation>> /\ api.result = "Ok"
  <2>1. ASSUME NEW c \in Context \ shared', NEW u \in Thread \ {t}, Initialising(u, c)'
        PROVE  Underway(u, c)'
    <3>1. Initialising(u, c) /\ Underway(u, c)
      BY <1>2, <1>4, <1>9, <2>1 DEF UInv, Current
    <3> QED
      BY <1>2, <1>3, <1>9, <3>1 DEF Underway, Fresh, Usable, Present
  <2>2. ASSUME NEW c \in Context \ shared', Initialising(t, c)'
        PROVE  Underway(t, c)'
    <3>1. Initialising(t, c) /\ Underway(t, c)
      BY <1>2, <1>4, <1>9, <2>2 DEF UInv, Current
    <3>2. pc[t] \notin Outside /\ in[t] # NoContext
      BY <1>0, <3>1, OutsideInitialisesNothing
    <3>3. Connected
      BY <1>9 DEF Connected
    <3>4. CASE GetHSteamUser(t)
      BY <1>0, <3>3, <3>4 DEF GetHSteamUser, Goto, Underway, Fresh, TypeOK
    <3>5. CASE FindOrCreateUserInterface(t)
      <4>1. pc[t] = "create" /\ pc'[t] = "make" /\ asked'[t] = held[t]
        BY <1>0, <3>2, <3>3, <3>5 DEF FindOrCreateUserInterface, Goto, TypeOK, Outside
      <4> QED
        BY <1>2, <1>9, <3>1, <4>1 DEF Underway, Fresh
    <3>6. ~ApiInit(t)
      BY <3>2 DEF ApiInit, Outside
    <3> QED
      BY <3>4, <3>5, <3>6
  <2>3. Current'
    BY <1>2, <1>9, <2>1, <2>2 DEF UInv, Current, Usable, Present
  <2> QED
    BY <1>0, <1>5, <1>6, <1>9, <2>3 DEF UInv
<1> QED
  BY <1>0, <1>1, <1>7, <1>8, <1>9, EnsureConnectedGeneration

\* The steps that touch no context and no label.
LEMMA UsableLocal ==
  ASSUME UInv, NEW t \in Thread,
         ApiInitRefused(t) \/ ApiInitNull(t) \/ ReadUser(t) \/ MakeInterface(t) \/ Return(t)
  PROVE  UInv'
<1>0. TypeOK /\ TypeOK'
  BY TypeLocal DEF UInv
<1>1. /\ generation' = generation /\ gen' = gen /\ in' = in
      /\ label' = label /\ slot' = slot /\ shared' = shared
      /\ api'.result = "Ok" => api' = api
  BY <1>0 DEF ApiInitRefused, ApiInitNull, ReadUser, MakeInterface, Return, contextVars, callVars,
      adapterVars, TypeOK
<1>2. \A u \in Thread \ {t} :
        pc'[u] = pc[u] /\ held'[u] = held[u] /\ asked'[u] = asked[u] /\ made'[u] = made[u]
  BY <1>0 DEF ApiInitRefused, ApiInitNull, ReadUser, MakeInterface, Return, Goto, TypeOK, callVars
<1>3. \A u \in Thread, c \in Context : Initialising(u, c)' => Initialising(u, c)
  <2>1. \A c \in Context : Initialising(t, c)' => Initialising(t, c)
    BY <1>0, <1>1, AdapterAssumption
    DEF Initialising, ApiInitRefused, ApiInitNull, ReadUser, MakeInterface, Return, AfterUser,
        AfterInterface, Goto, TypeOK, Outside, callVars
  <2> QED
    BY <1>1, <1>2, <2>1 DEF Initialising
<1>4. Alone' /\ Bounded'
  BY <1>1, <1>3 DEF UInv, Alone, Bounded
<1>5. ASSUME api'.result = "Ok", NEW c \in Context \ shared', NEW u \in Thread, Initialising(u, c)'
      PROVE  Underway(u, c)'
  <2>1. Initialising(u, c) /\ Underway(u, c) /\ api' = api /\ api.user = api.pipe
    BY <1>1, <1>3, <1>5 DEF UInv, Current
  <2>2. pc[u] \notin Outside /\ in[u] # NoContext
    BY <1>0, <2>1, OutsideInitialisesNothing
  <2>3. CASE u # t
    BY <1>1, <1>2, <2>1, <2>3 DEF Underway, Fresh, Usable, Present
  <2>4. CASE u = t /\ ReadUser(t)
    <3>1. pc'[t] = "create" /\ held'[t] = api.pipe
      BY <1>0, <2>1, <2>2, <2>4 DEF ReadUser, AfterUser, Goto, TypeOK
    <3> QED
      BY <2>1, <2>4, <3>1 DEF Underway, Fresh
  <2>5. CASE u = t /\ MakeInterface(t)
    <3>1. pc[t] = "make" /\ pc'[t] = "store"
      BY <1>0, <2>2, <2>5 DEF MakeInterface, AfterInterface, Goto, TypeOK
    <3>2. asked[t] \in {0, api.pipe} => made'[t] \in {NoInterface, Present}
      BY <1>0, <2>1, <2>5 DEF MakeInterface, Present, TypeOK
    <3> QED
      BY <1>1, <2>1, <2>5, <3>1, <3>2 DEF Underway, Fresh, Usable, Present
  <2>6. CASE u = t /\ ApiInitNull(t)
    BY <2>2, <2>6 DEF ApiInitNull, Outside
  <2>7. (~ApiInitRefused(t) /\ ~Return(t)) \/ u # t
    BY <2>2 DEF ApiInitRefused, Return, Outside
  <2> QED
    BY <2>3, <2>4, <2>5, <2>6, <2>7
<1>6. Current'
  BY <1>1, <1>5 DEF UInv, Current, Usable, Present
<1>7. api'.result = "Ok" => api'.user = api'.pipe
  BY <1>1 DEF UInv
<1> QED
  BY <1>0, <1>4, <1>6, <1>7 DEF UInv

LEMMA UsableLoad ==
  ASSUME UInv, NEW t \in Thread, LoadGeneration(t)
  PROVE  UInv'
<1>0. TypeOK /\ TypeOK'
  BY TypeLocal DEF UInv
<1>1. /\ generation' = generation /\ api' = api
      /\ label' = label /\ slot' = slot /\ shared' = shared
      /\ held' = held /\ asked' = asked /\ made' = made
      /\ gen' \in [Thread -> Nat] /\ gen'[t] = generation /\ pc'[t] = "compare"
  BY <1>0 DEF LoadGeneration, Goto, contextVars, adapterVars, TypeOK
<1>2. \A u \in Thread \ {t} : pc'[u] = pc[u] /\ in'[u] = in[u] /\ gen'[u] = gen[u]
  BY <1>0 DEF LoadGeneration, Goto, TypeOK
<1>3. \A u \in Thread, c \in Context : Initialising(u, c)' => u # t /\ Initialising(u, c)
  BY <1>1, <1>2 DEF Initialising
<1>4. Alone'
  BY <1>1, <1>3 DEF UInv, Alone
<1>5. Bounded'
  BY <1>0, <1>1, <1>2 DEF UInv, Bounded, TypeOK
<1>6. Current'
  BY <1>1, <1>2, <1>3 DEF UInv, Current, Underway, Fresh, Usable, Present
<1> QED
  BY <1>0, <1>1, <1>4, <1>5, <1>6 DEF UInv

\* Whoever else initialises the context has shared it; alone, the thread has nothing yet.
LEMMA UsableCompare ==
  ASSUME UInv, NEW t \in Thread, CompareGeneration(t)
  PROVE  UInv'
<1>0. TypeOK /\ TypeOK'
  BY TypeLocal DEF UInv
<1>1. /\ generation' = generation /\ api' = api /\ label' = label /\ shared \subseteq shared'
      /\ held' = held /\ asked' = asked /\ made' = made
      /\ pc'[t] \in {"initialize", "idle"}
      /\ \A c \in Context : slot'[c] \in {slot[c], NoInterface}
  BY <1>0 DEF CompareGeneration, Goto, adapterVars, TypeOK
<1>2. \A u \in Thread \ {t} : pc'[u] = pc[u] /\ in'[u] = in[u] /\ gen'[u] = gen[u]
  BY <1>0 DEF CompareGeneration, Goto, TypeOK
<1>3. \A u \in Thread \ {t}, c \in Context : Initialising(u, c)' <=> Initialising(u, c)
  BY <1>2 DEF Initialising
<1>4. ASSUME NEW c \in Context \ shared', NEW u \in Thread \ {t}, Initialising(u, c)
      PROVE  ~Initialising(t, c)' /\ slot'[c] = slot[c]
  <2>1. CASE Outdated(t, in[t])
    <3>1. c # in[t]
      BY <1>4, <2>1 DEF CompareGeneration
    <3>2. in'[t] = in[t] /\ slot'[c] = slot[c]
      BY <1>0, <2>1, <3>1 DEF CompareGeneration, TypeOK
    <3> QED
      BY <3>1, <3>2 DEF Initialising
  <2>2. CASE ~Outdated(t, in[t])
    BY <1>0, <2>2 DEF CompareGeneration, Initialising, Goto, TypeOK
  <2> QED
    BY <2>1, <2>2
<1>5. Alone'
  <2> SUFFICES ASSUME NEW c \in Context \ shared', NEW u \in Thread, NEW v \in Thread,
                      Initialising(u, c)', Initialising(v, c)'
               PROVE  u = v
    BY DEF Alone
  <2>1. CASE u # t /\ v # t
    BY <1>1, <1>3, <2>1 DEF UInv, Alone
  <2>2. u # t => v # t
    BY <1>3, <1>4
  <2>3. v # t => u # t
    BY <1>3, <1>4
  <2> QED
    BY <2>1, <2>2, <2>3
<1>6. Bounded'
  <2>1. gen'[t] <= generation
    BY <1>0 DEF CompareGeneration, UInv, Bounded, TypeOK
  <2> QED
    BY <1>1, <1>2, <2>1 DEF UInv, Bounded
<1>7. ASSUME api'.result = "Ok", NEW c \in Context \ shared'
      PROVE  /\ label'[c] = generation' => Usable(slot[c])'
             /\ \A u \in Thread : Initialising(u, c)' => Underway(u, c)'
  <2>1. label[c] = generation => Usable(slot[c])
    BY <1>1, <1>7 DEF UInv, Current
  <2>2. label'[c] = generation' => Usable(slot[c])'
    BY <1>1, <2>1 DEF Usable, Present
  <2>3. ASSUME NEW u \in Thread \ {t}, Initialising(u, c)' PROVE Underway(u, c)'
    <3>1. Initialising(u, c) /\ Underway(u, c) /\ slot'[c] = slot[c]
      BY <1>1, <1>3, <1>4, <1>7, <2>3 DEF UInv, Current
    <3> QED
      BY <1>1, <1>2, <3>1 DEF Underway, Fresh, Usable, Present
  <2>4. Underway(t, c)'
    BY <1>1 DEF Underway, Fresh
  <2> QED
    BY <2>2, <2>3, <2>4
<1>8. Current'
  BY <1>7 DEF Current
<1> QED
  BY <1>0, <1>1, <1>5, <1>6, <1>8 DEF UInv

LEMMA UsableStore ==
  ASSUME UInv, NEW t \in Thread, StoreInterface(t)
  PROVE  UInv'
<1>0. TypeOK /\ TypeOK' /\ in[t] \in Context
  BY TypeLocal DEF UInv, StoreInterface, TypeOK, InContext
<1>1. /\ generation' = generation /\ api' = api /\ label' = label /\ shared' = shared
      /\ gen' = gen /\ in' = in /\ asked' = asked
      /\ pc[t] = "store" /\ pc'[t] = "label"
      /\ slot' = [slot EXCEPT ![in[t]] = made[t]]
  BY <1>0 DEF StoreInterface, Goto, adapterVars, TypeOK
<1>2. \A u \in Thread \ {t} : pc'[u] = pc[u] /\ held'[u] = held[u] /\ made'[u] = made[u]
  BY <1>0 DEF StoreInterface, Goto, TypeOK
<1>3. \A u \in Thread, c \in Context : Initialising(u, c)' <=> Initialising(u, c)
  BY <1>1, <1>2 DEF Initialising
<1>4. Alone' /\ Bounded'
  BY <1>1, <1>3 DEF UInv, Alone, Bounded
<1>5. ASSUME api'.result = "Ok", NEW c \in Context \ shared'
      PROVE  /\ label'[c] = generation' => Usable(slot[c])'
             /\ \A u \in Thread : Initialising(u, c)' => Underway(u, c)'
  <2>1. CASE c = in[t]
    <3>1. Initialising(t, c) /\ Underway(t, c) /\ slot'[c] = made[t]
      BY <1>0, <1>1, <1>5, <2>1 DEF UInv, Current, Initialising, TypeOK
    <3>2. gen[t] = generation \/ label[c] = generation => Usable(slot[c])'
      BY <1>1, <3>1 DEF Underway, Fresh, Usable, Present
    <3>3. Underway(t, c)'
      BY <1>1, <3>2 DEF Underway, Fresh
    <3>4. \A u \in Thread : Initialising(u, c)' => u = t
      BY <1>1, <1>3, <1>5, <3>1 DEF UInv, Alone
    <3> QED
      BY <1>1, <3>2, <3>3, <3>4
  <2>2. CASE c # in[t]
    <3>1. slot'[c] = slot[c] /\ ~Initialising(t, c)
      BY <1>0, <1>1, <2>2 DEF Initialising, TypeOK
    <3>2. label'[c] = generation' => Usable(slot[c])'
      BY <1>1, <1>5, <3>1 DEF UInv, Current, Usable, Present
    <3>3. ASSUME NEW u \in Thread, Initialising(u, c)' PROVE Underway(u, c)'
      <4>1. u # t /\ Initialising(u, c) /\ Underway(u, c)
        BY <1>1, <1>3, <1>5, <3>1, <3>3 DEF UInv, Current
      <4> QED
        BY <1>1, <1>2, <3>1, <4>1 DEF Underway, Fresh, Usable, Present
    <3> QED
      BY <3>2, <3>3
  <2> QED
    BY <2>1, <2>2
<1>6. Current'
  BY <1>5 DEF Current
<1> QED
  BY <1>0, <1>1, <1>4, <1>6 DEF UInv

LEMMA UsableLabel ==
  ASSUME UInv, NEW t \in Thread, StoreLabel(t)
  PROVE  UInv'
<1>0. TypeOK /\ TypeOK' /\ in[t] \in Context
  BY TypeLocal DEF UInv, StoreLabel, TypeOK, InContext
<1>1. /\ generation' = generation /\ api' = api /\ slot' = slot /\ shared' = shared
      /\ held' = held /\ asked' = asked /\ made' = made
      /\ pc[t] = "label" /\ pc'[t] = "idle" /\ gen'[t] = 0
      /\ label' = [label EXCEPT ![in[t]] = gen[t]]
  BY <1>0 DEF StoreLabel, Goto, adapterVars, TypeOK
<1>2. \A u \in Thread \ {t} : pc'[u] = pc[u] /\ in'[u] = in[u] /\ gen'[u] = gen[u]
  BY <1>0 DEF StoreLabel, Goto, TypeOK
<1>3. \A u \in Thread, c \in Context : Initialising(u, c)' => u # t /\ Initialising(u, c)
  BY <1>1, <1>2 DEF Initialising
<1>4. Alone'
  BY <1>1, <1>3 DEF UInv, Alone
<1>5. Bounded'
  <2>1. \A u \in Thread : gen'[u] <= generation'
    BY <1>0, <1>1, <1>2 DEF UInv, Bounded, TypeOK
  <2>2. \A c \in Context : label'[c] <= generation'
    BY <1>0, <1>1 DEF UInv, Bounded, TypeOK
  <2> QED
    BY <2>1, <2>2 DEF Bounded
<1>6. ASSUME api'.result = "Ok", NEW c \in Context \ shared'
      PROVE  /\ label'[c] = generation' => Usable(slot[c])'
             /\ \A u \in Thread : Initialising(u, c)' => Underway(u, c)'
  <2>1. CASE c = in[t]
    <3>1. Initialising(t, c) /\ Underway(t, c) /\ label'[c] = gen[t]
      BY <1>0, <1>1, <1>6, <2>1 DEF UInv, Current, Initialising, TypeOK
    <3>2. label'[c] = generation' => Usable(slot[c])'
      BY <1>1, <3>1 DEF Underway, Usable, Present
    <3>3. \A u \in Thread : ~Initialising(u, c)'
      BY <1>1, <1>3, <1>6, <3>1 DEF UInv, Alone
    <3> QED
      BY <3>2, <3>3
  <2>2. CASE c # in[t]
    <3>1. label'[c] = label[c]
      BY <1>0, <1>1, <2>2 DEF TypeOK
    <3>2. label'[c] = generation' => Usable(slot[c])'
      BY <1>1, <1>6, <3>1 DEF UInv, Current, Usable, Present
    <3>3. ASSUME NEW u \in Thread, Initialising(u, c)' PROVE Underway(u, c)'
      <4>1. u # t /\ Initialising(u, c) /\ Underway(u, c)
        BY <1>1, <1>3, <1>6, <3>3 DEF UInv, Current
      <4> QED
        BY <1>1, <1>2, <3>1, <4>1 DEF Underway, Fresh, Usable, Present
    <3> QED
      BY <3>2, <3>3
  <2> QED
    BY <2>1, <2>2
<1>7. Current'
  BY <1>6 DEF Current
<1> QED
  BY <1>0, <1>1, <1>4, <1>5, <1>7 DEF UInv

LEMMA UsableStep == UInv /\ [Next]_vars => UInv'
<1> SUFFICES ASSUME UInv, [Next]_vars PROVE UInv'
  OBVIOUS
<1>0. TypeOK'
  BY TypeStep DEF UInv
<1>1. CASE UNCHANGED <<adapterVars, callVars, contextVars>>
  BY <1>0, <1>1 DEF UInv, Bounded, Alone, Current, Initialising, Underway, Fresh, Usable, Present,
      adapterVars, callVars, contextVars
<1>2. CASE SteamChanges
  BY <1>1, <1>2 DEF SteamChanges
<1>3. CASE UNCHANGED vars
  BY <1>1, <1>3 DEF vars
<1> QED
  BY <1>2, <1>3, NextCases, UsableConnecting, UsableLocal, UsableLoad, UsableCompare, UsableStore,
     UsableLabel

LEMMA UsableImplies == UInv => CurrentContextsUsable
<1> SUFFICES ASSUME UInv, api.result = "Ok", NEW c \in Context \ shared, label[c] = generation
             PROVE  slot[c] \in {NoInterface, [user |-> api.pipe, pipe |-> api.pipe]}
  BY DEF CurrentContextsUsable
<1> QED
  BY DEF UInv, Current, Usable, Present

\* A context one thread at a time initialises, and that ContextInit would hand out as it is,
\* holds no interface of an earlier connection, however calls, failures and calls of Init
\* without a version list interleave.
THEOREM ContextsCurrent == Spec => []CurrentContextsUsable
<1> QED
  BY UsableInit, UsableStep, UsableImplies, PTL DEF Spec
=============================================================================
