---------------------------- MODULE SteamAdapter ----------------------------
(***************************************************************************)
(* The bridge's steam_api64.dll (windows/steam_api_bridge.cpp): the four   *)
(* Steamworks functions the original provider imports, answered through    *)
(* the client library of a running Steam.  The provider's threads call     *)
(* them in any order; the connection is made by the first call that needs  *)
(* it and made again as long as it fails.                                  *)
(*                                                                         *)
(* g_state_lock is held inside a step and never between two: what the code *)
(* does in two locked sections is two steps.  ContextInit takes no lock.   *)
(* The initialiser it is handed is the one of Valve's headers, which is    *)
(* not under src/: FindOrCreateUserInterface(GetHSteamUser()).             *)
(***************************************************************************)
EXTENDS Naturals

CONSTANTS
  Thread,      \* the provider's threads
  Context,     \* the blocks of three slots it hands to ContextInit
  MaxNulls,    \* bound: calls of Init without a version list
  MaxLeaks     \* bound: pipes opened by attempts that then fail

NoContext == "none"

ASSUME AdapterAssumption ==
  /\ NoContext \notin Context
  /\ MaxNulls \in Nat
  /\ MaxLeaks \in Nat

VARIABLES
  \* Steam
  ready,        \* it runs, the user is signed in and owns Standable
  pipes,        \* pipes opened; none is ever released
  leaks,        \* of them, those of attempts that failed
  \* the adapter
  api,          \* g_state
  generation,   \* g_context_generation
  \* the provider's calls
  pc,           \* where the thread is in a call
  in,           \* the context it initialises, NoContext outside ContextInit
  gen,          \* the generation it has loaded
  held,         \* the user GetHSteamUser gave it last
  asked,        \* the user it asks an interface for
  made,         \* the interface FindOrCreateUserInterface gave it last
  label, slot,  \* slots[1] and slots[2] of a context
  \* history
  nulls,        \* calls of Init without a version list
  owned,        \* pipes on which Steam has confirmed the ownership
  lapsed,       \* an attempt has failed after another had succeeded
  shared        \* contexts two threads have initialised at the same time

steamVars == <<pipes, leaks, owned, lapsed>>
adapterVars == <<api, generation>>
callVars == <<pc, in, gen, held, asked, made>>
contextVars == <<label, slot, shared>>
vars == <<ready, steamVars, adapterVars, callVars, contextVars, nulls>>

-----------------------------------------------------------------------------
\* SteamApiInitResult; which of its three failures it is, and the message, are left out.
Result == {"Ok", "Failed"}

\* A user is named by the pipe it was connected through; 0 is none, and a null interface.
NoInterface == [user |-> 0, pipe |-> 0]

\* What an attempt can lack, in the order of the code: the library or its SteamClient, a
\* method or the pipe, the user, the SteamApps or the ownership.
Failure == {"client", "pipe", "user", "ownership"}
\* Those it finds out with its pipe open.
Opened == {"user", "ownership"}

\* The state an attempt with that pipe builds until it ends, for want of something or "done".
Candidate(end, pipe) ==
  [client |-> end # "client",
   pipe   |-> IF end \in {"client", "pipe"} THEN 0 ELSE pipe,
   user   |-> IF end \in {"ownership", "done"} THEN pipe ELSE 0,
   result |-> IF end = "done" THEN "Ok" ELSE "Failed"]

\* The attempt's outcome replaces the state, failed or not.  generation is raised before
\* the state is stored: a thread that sees it early waits for the lock before it goes on.
ConnectToSteam ==
  \/ /\ ready
     /\ api' = Candidate("done", pipes + 1)
     /\ generation' = generation + 1
     /\ pipes' = pipes + 1
     /\ owned' = owned \cup {pipes + 1}
     /\ UNCHANGED <<leaks, lapsed>>
  \/ \E end \in Failure :
       /\ ~ready
       /\ end \in Opened => leaks < MaxLeaks
       /\ api' = Candidate(end, pipes + 1)
       /\ pipes' = pipes + (IF end \in Opened THEN 1 ELSE 0)
       /\ leaks' = leaks + (IF end \in Opened THEN 1 ELSE 0)
       /\ lapsed' = (lapsed \/ owned # {})
       /\ UNCHANGED <<generation, owned>>

EnsureConnected ==
  IF api.result = "Ok" THEN UNCHANGED <<steamVars, adapterVars>> ELSE ConnectToSteam
ConnectedWithUser == api'.user # 0
Connected == api'.result = "Ok"

-----------------------------------------------------------------------------
Goto(t, place) == pc' = [pc EXCEPT ![t] = place]

\* SteamAPI_Init with a version list.  A failure is read in a section of its own.
ApiInit(t) ==
  /\ pc[t] = "idle"
  /\ EnsureConnected
  /\ Goto(t, IF Connected THEN "idle" ELSE "refused")
  /\ UNCHANGED <<ready, in, gen, held, asked, made, contextVars, nulls>>

ApiInitRefused(t) ==
  /\ pc[t] = "refused"
  /\ Goto(t, "idle")
  /\ UNCHANGED <<ready, steamVars, adapterVars, in, gen, held, asked, made, contextVars, nulls>>

\* Without one: only the result is overwritten, the connection stays as it is.
ApiInitNull(t) ==
  /\ pc[t] = "idle"
  /\ nulls < MaxNulls
  /\ nulls' = nulls + 1
  /\ api' = [api EXCEPT !.result = "Failed"]
  /\ UNCHANGED <<ready, steamVars, generation, callVars, contextVars>>

\* Where a thread calls GetHSteamUser, and where it is after the call.
UserCall(t) == pc[t] \in {"idle", "initialize"}
AfterUser(t) == IF in[t] = NoContext THEN "idle" ELSE "create"

GetHSteamUser(t) ==
  /\ UserCall(t)
  /\ EnsureConnected
  /\ held' = [held EXCEPT ![t] = 0]
  /\ Goto(t, IF Connected THEN "user" ELSE AfterUser(t))
  /\ UNCHANGED <<ready, in, gen, asked, made, contextVars, nulls>>

ReadUser(t) ==
  /\ pc[t] = "user"
  /\ held' = [held EXCEPT ![t] = api.user]
  /\ Goto(t, AfterUser(t))
  /\ UNCHANGED <<ready, steamVars, adapterVars, in, gen, asked, made, contextVars, nulls>>

\* Where a thread is after FindOrCreateUserInterface.
AfterInterface(t) == IF in[t] = NoContext THEN "return" ELSE "store"

\* The provider asks for the current user's interface or for that of the user it was given.
FindOrCreateUserInterface(t) ==
  \E user \in {0, held[t]} :
    /\ pc[t] = "idle" \/ (pc[t] = "create" /\ user = held[t])
    /\ EnsureConnected
    /\ asked' = [asked EXCEPT ![t] = user]
    /\ made' = [made EXCEPT ![t] = NoInterface]
    /\ Goto(t, IF Connected THEN "make" ELSE AfterInterface(t))
    /\ UNCHANGED <<ready, in, gen, held, contextVars, nulls>>

\* An interface belongs to the user it is asked for and to the pipe it is asked through.
MakeInterface(t) ==
  /\ pc[t] = "make"
  /\ made' = [made EXCEPT ![t] =
       IF ~api.client THEN NoInterface
       ELSE [user |-> IF asked[t] = 0 THEN api.user ELSE asked[t], pipe |-> api.pipe]]
  /\ asked' = [asked EXCEPT ![t] = 0]
  /\ Goto(t, AfterInterface(t))
  /\ UNCHANGED <<ready, steamVars, adapterVars, in, gen, held, contextVars, nulls>>

Return(t) ==
  /\ pc[t] = "return"
  /\ made' = [made EXCEPT ![t] = NoInterface]
  /\ Goto(t, "idle")
  /\ UNCHANGED <<ready, steamVars, adapterVars, in, gen, held, asked, contextVars, nulls>>

-----------------------------------------------------------------------------
\* ContextInit: the generation is loaded first, the slots are read and written after it.
LoadGeneration(t) ==
  /\ pc[t] = "idle"
  /\ \E c \in Context :
       /\ in' = [in EXCEPT ![t] = c]
       /\ gen' = [gen EXCEPT ![t] = generation]
       /\ Goto(t, "compare")
  /\ UNCHANGED <<ready, steamVars, adapterVars, held, asked, made, contextVars, nulls>>

OutdatedByLabel(t, c) == label[c] # gen[t]
Outdated(t, c) == slot[c] = NoInterface \/ label[c] # gen[t]
Initialising(t, c) == in[t] = c /\ pc[t] \notin {"idle", "compare"}

CompareGeneration(t) ==
  LET c == in[t] IN
  /\ pc[t] = "compare"
  /\ IF Outdated(t, c)
     THEN /\ slot' = [slot EXCEPT ![c] = NoInterface]
          /\ shared' = IF \E u \in Thread \ {t} : Initialising(u, c) THEN shared \cup {c} ELSE shared
          /\ Goto(t, "initialize")
          /\ UNCHANGED <<in, gen>>
     ELSE /\ Goto(t, "idle")
          /\ in' = [in EXCEPT ![t] = NoContext]
          /\ gen' = [gen EXCEPT ![t] = 0]
          /\ UNCHANGED <<slot, shared>>
  /\ UNCHANGED <<ready, steamVars, adapterVars, held, asked, made, label, nulls>>

StoreInterface(t) ==
  /\ pc[t] = "store"
  /\ slot' = [slot EXCEPT ![in[t]] = made[t]]
  /\ made' = [made EXCEPT ![t] = NoInterface]
  /\ held' = [held EXCEPT ![t] = 0]
  /\ Goto(t, "label")
  /\ UNCHANGED <<ready, steamVars, adapterVars, in, gen, asked, label, shared, nulls>>

StoreLabelAfresh(t) ==
  /\ pc[t] = "label"
  /\ label' = [label EXCEPT ![in[t]] = generation]
  /\ in' = [in EXCEPT ![t] = NoContext]
  /\ gen' = [gen EXCEPT ![t] = 0]
  /\ Goto(t, "idle")
  /\ UNCHANGED <<ready, steamVars, adapterVars, held, asked, made, slot, shared, nulls>>
StoreLabel(t) ==
  /\ pc[t] = "label"
  /\ label' = [label EXCEPT ![in[t]] = gen[t]]
  /\ in' = [in EXCEPT ![t] = NoContext]
  /\ gen' = [gen EXCEPT ![t] = 0]
  /\ Goto(t, "idle")
  /\ UNCHANGED <<ready, steamVars, adapterVars, held, asked, made, slot, shared, nulls>>

-----------------------------------------------------------------------------
\* Steam starts, signs the user in, goes away again.
SteamChanges ==
  /\ ready' = ~ready
  /\ UNCHANGED <<steamVars, adapterVars, callVars, contextVars, nulls>>

Init ==
  /\ ready \in BOOLEAN
  /\ pipes = 0 /\ leaks = 0
  /\ api = [client |-> FALSE, pipe |-> 0, user |-> 0, result |-> "Failed"]
  /\ generation = 1
  /\ pc = [t \in Thread |-> "idle"]
  /\ in = [t \in Thread |-> NoContext]
  /\ gen = [t \in Thread |-> 0]
  /\ held = [t \in Thread |-> 0]
  /\ asked = [t \in Thread |-> 0]
  /\ made = [t \in Thread |-> NoInterface]
  /\ label = [c \in Context |-> 0]
  /\ slot = [c \in Context |-> NoInterface]
  /\ nulls = 0 /\ owned = {} /\ lapsed = FALSE /\ shared = {}

\* The steps that go on with a call.
Continue(t) ==
  \/ ApiInitRefused(t)
  \/ pc[t] # "idle" /\ (GetHSteamUser(t) \/ FindOrCreateUserInterface(t))
  \/ ReadUser(t) \/ MakeInterface(t) \/ Return(t)
  \/ CompareGeneration(t) \/ StoreInterface(t) \/ StoreLabel(t)
Call(t) ==
  \/ ApiInit(t) \/ ApiInitNull(t) \/ LoadGeneration(t)
  \/ pc[t] = "idle" /\ (GetHSteamUser(t) \/ FindOrCreateUserInterface(t))
Next == SteamChanges \/ \E t \in Thread : Call(t) \/ Continue(t)

Spec == Init /\ [][Next]_vars
\* A call that has begun comes to its end; none has to be made.
FairSpec == Spec /\ \A t \in Thread : WF_vars(Continue(t))

-----------------------------------------------------------------------------
\* Every variable has its type; a pipe or a user is one of an attempt that was made.
InContext == {"compare", "initialize", "create", "store", "label"}
Outside == {"idle", "refused", "return"}
Place == InContext \cup Outside \cup {"user", "make"}
Interface == [user : Nat, pipe : Nat]
TypeOK ==
  /\ ready \in BOOLEAN /\ lapsed \in BOOLEAN
  /\ pipes \in Nat /\ leaks \in Nat /\ nulls \in Nat /\ generation \in Nat
  /\ api \in [client : BOOLEAN, pipe : Nat, user : Nat, result : Result]
  /\ owned \subseteq 1..pipes /\ shared \subseteq Context
  /\ pc \in [Thread -> Place]
  /\ in \in [Thread -> Context \cup {NoContext}]
  /\ \A t \in Thread : pc[t] \in InContext => in[t] # NoContext
  /\ \A t \in Thread : pc[t] \in Outside => in[t] = NoContext
  /\ gen \in [Thread -> Nat] /\ held \in [Thread -> Nat] /\ asked \in [Thread -> Nat]
  /\ made \in [Thread -> Interface]
  /\ label \in [Context -> Nat] /\ slot \in [Context -> Interface]

\* "refuses initialization unless the signed-in account reports ownership" (README.md): Init
\* returns Ok only after Steam has confirmed the ownership on some pipe, and, as long as no
\* attempt has failed after one that succeeded, every user and every interface the provider is
\* given, by a call or in a context, is one of such a pipe: a half-made connection of another
\* thread never shows.
Vouched(i) == i = NoInterface \/ (i.user \in owned /\ i.pipe \in owned)
HandlesAuthenticated ==
  /\ api.result = "Ok" => api.pipe \in owned
  /\ ~lapsed =>
       /\ \A t \in Thread : held[t] \in owned \cup {0} /\ Vouched(made[t])
       /\ \A c \in Context : Vouched(slot[c])

\* A context that one thread at a time initialises and whose label is the current generation,
\* so that ContextInit would hand it out as it is, holds no interface of an earlier
\* connection, and none made for the user of one pipe through another.
CurrentContextsUsable ==
  api.result = "Ok" =>
    \A c \in Context \ shared :
      label[c] = generation => slot[c] \in {NoInterface, [user |-> api.pipe, pipe |-> api.pipe]}

\* A provider started before Steam recovers without a restart: once Steam is ready for good, a
\* context that keeps being handed to ContextInit comes to hold an interface and keeps it.
ContextsServed ==
  \A c \in Context :
    (<>[]ready /\ []<>(\E t \in Thread : pc[t] = "compare" /\ in[t] = c))
      => <>[](slot[c] # NoInterface)
=============================================================================
