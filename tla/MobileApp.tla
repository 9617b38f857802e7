------------------------------ MODULE MobileApp ------------------------------
(***************************************************************************)
(* The Android app: screens and their back stack, the view model of the    *)
(* ceremony screen, the coroutines AuthRepository runs on the IO           *)
(* dispatcher, and the session SessionManager keeps in preferences that    *)
(* are written to disk some time after they changed.                       *)
(*                                                                         *)
(* The main thread and each coroutine are processes.  A coroutine can be   *)
(* cancelled where it suspends (a call, the passkey prompt) and nowhere    *)
(* else.  displayName and isRegistered are written beside userId and never *)
(* read, so userId stands for them.                                        *)
(*                                                                         *)
(* An operator named for a mistake, just before the one it resembles, is   *)
(* that operator with the mistake made.                                    *)
(***************************************************************************)
EXTENDS Naturals, Sequences

CONSTANTS
    User,  \* names typed in; a token is named after the user it is for
    Task,  \* slots for coroutines
    None

ASSUME NoneIsNoUser == None \notin User

VARIABLES
    stack,    \* the fragments of the nav graph, the top last; <<>>: no activity
    started,  \* is the activity between onStart and onStop
    vm,       \* the LiveData of the ceremony screen: its value, and whether
              \*   the view's observer has been given it
    enabled,  \* btnLogin.isEnabled, btnRegister.isEnabled
    home,     \* what HomeViewModel holds
    prefs,    \* secure_session as the process sees it
    disk,     \* secure_session as it is on disk
    task,     \* the coroutine in each slot
    keys,     \* users of whom the device has a passkey the server knows
    tainted,  \* history: a cancelled coroutine wrote, or the process died with
              \*   writes under way
    revoked   \* history: users who pressed Revoke and registered no more since

vars == <<stack, started, vm, enabled, home, prefs, disk, task, keys, tainted, revoked>>

----------------------------------------------------------------------------
NoUser == [token |-> None, userId |-> None]
NoState == [value |-> "none", shown |-> TRUE]
NoTask == [pc |-> "idle", op |-> "login", user |-> None,
           writes |-> <<>>, result |-> "error", live |-> FALSE]

Session == [token: User \cup {None}, userId: User \cup {None}]
Stacks == {<<>>, <<"welcome">>, <<"welcome", "login">>, <<"welcome", "register">>,
           <<"home">>}

TypeOK ==
    /\ stack \in Stacks
    /\ started \in BOOLEAN
    /\ vm \in [value: {"none", "loading", "success", "error"}, shown: BOOLEAN]
    /\ enabled \in BOOLEAN
    /\ home \in Session
    /\ prefs \in Session
    /\ disk \in Session
    /\ task \in [Task -> [pc: {"idle", "begin", "prompt", "finish", "store", "post"},
                          op: {"login", "register"},
                          user: User \cup {None},
                          writes: {<<>>, <<"userId">>, <<"token", "userId">>},
                          result: {"success", "error"},
                          live: BOOLEAN]]
    /\ keys \subseteq User
    /\ tainted \in BOOLEAN
    /\ revoked \subseteq User

Init ==
    /\ stack = <<>>
    /\ started = FALSE
    /\ vm = NoState
    /\ enabled = TRUE
    /\ home = NoUser
    /\ prefs = NoUser
    /\ disk = NoUser
    /\ task = [t \in Task |-> NoTask]
    /\ keys = {}
    /\ tainted = FALSE
    /\ revoked = {}

----------------------------------------------------------------------------
Top == IF stack = <<>> THEN "none" ELSE stack[Len(stack)]
OnCeremony == Top \in {"login", "register"}

\* The main thread runs an observer in the turn that sets the value, so the user
\* finds it run.
Ready == started /\ vm.shown

NoRedirect(s, session) == s
\* WelcomeFragment.onViewCreated goes on to Home at once if a token is stored.
Redirect(s, session) ==
    IF s = <<"welcome">> /\ session.token # None THEN <<"home">> ELSE s

\* HomeViewModel.loadSession; the view model goes with its screen.
LoadSession(s, session) == home' = IF s = <<"home">> THEN session ELSE NoUser

ShowFromDisk(s, session) ==
    LET landed == Redirect(s, session)
    IN  stack' = landed /\ LoadSession(landed, disk)

\* The top of s is created, over the stored session: Home reads it.
Show(s, session) ==
    LET landed == Redirect(s, session)
    IN  stack' = landed /\ LoadSession(landed, session)

TasksKept == UNCHANGED task
\* viewModelScope is cancelled when the fragment leaves the stack for good.
CancelTasks == task' = [t \in Task |-> [task[t] EXCEPT !.live = FALSE]]

ClearViewModel ==
    /\ vm' = NoState
    /\ enabled' = TRUE
    /\ CancelTasks

(* ------------------------- what the user does -------------------------- *)

\* btnRegister and btnLogin of the welcome screen.
OpenCeremony ==
    /\ Ready
    /\ Top = "welcome"
    /\ \E screen \in {"login", "register"} : stack' = <<"welcome", screen>>
    /\ vm' = NoState
    /\ enabled' = TRUE
    /\ UNCHANGED <<started, home, prefs, disk, task, keys, tainted, revoked>>

\* LoginViewModel.login and RegisterViewModel.register: a blank field is an error;
\* else Loading is shown and the repository is launched.
TapCeremony ==
    /\ Ready
    /\ OnCeremony
    /\ enabled
    /\ \/ /\ vm' = [value |-> "error", shown |-> FALSE]
          /\ UNCHANGED task
       \/ \E u \in User, t \in Task :
            /\ task[t].pc = "idle"
            /\ task' = [task EXCEPT ![t] = [NoTask EXCEPT !.pc = "begin",
                                                          !.op = Top,
                                                          !.user = u,
                                                          !.live = TRUE]]
            /\ vm' = [value |-> "loading", shown |-> FALSE]
    /\ UNCHANGED <<stack, started, enabled, home, prefs, disk, keys, tainted, revoked>>

\* Back leaves a ceremony for Welcome, whose view is created again, and finishes
\* the activity from Welcome or Home.
Back ==
    /\ Ready
    /\ stack # <<>>
    /\ \/ OnCeremony /\ Show(<<"welcome">>, prefs) /\ UNCHANGED <<started, disk>>
       \/ /\ ~OnCeremony
          /\ stack' = <<>>
          /\ home' = NoUser
          /\ started' = FALSE
          /\ disk' = prefs
    /\ ClearViewModel
    /\ UNCHANGED <<prefs, keys, tainted, revoked>>

ClearSession(session) == [session EXCEPT !.token = None]

\* btnLogout: SessionManager.clearSession, then Welcome.
Logout ==
    /\ Ready
    /\ Top = "home"
    /\ prefs' = ClearSession(prefs)
    /\ Show(<<"welcome">>, prefs')
    /\ UNCHANGED <<started, vm, enabled, disk, task, keys, tainted, revoked>>

\* btnRevoke: SessionManager.clearAll, then Welcome.  The server is not told and
\* the passkey stays on the device.
Revoke ==
    /\ Ready
    /\ Top = "home"
    /\ prefs' = NoUser
    /\ revoked' = revoked \cup ({prefs.userId} \ {None})
    /\ Show(<<"welcome">>, prefs')
    /\ UNCHANGED <<started, vm, enabled, disk, task, keys, tainted>>

(* ---------------------------- view and process -------------------------- *)

LoadingIgnored ==
    /\ started
    /\ ~vm.shown
    /\ vm.value # "success"
    /\ vm' = [vm EXCEPT !.shown = TRUE]
    /\ enabled' = TRUE
    /\ UNCHANGED <<stack, started, home, prefs, disk, task, keys, tainted, revoked>>

\* The observers of loginState and registerState: Loading disables the button,
\* Error enables it.
ObserveState ==
    /\ started
    /\ ~vm.shown
    /\ vm.value # "success"
    /\ vm' = [vm EXCEPT !.shown = TRUE]
    /\ enabled' = (vm.value # "loading")
    /\ UNCHANGED <<stack, started, home, prefs, disk, task, keys, tainted, revoked>>

ObserveSuccessPushes ==
    /\ started
    /\ ~vm.shown
    /\ vm.value = "success"
    /\ stack' = Append(stack, "home")
    /\ home' = prefs
    /\ ClearViewModel
    /\ UNCHANGED <<started, prefs, disk, keys, tainted, revoked>>

\* Success goes to Home and takes Welcome and the ceremony off the stack.
ObserveSuccess ==
    /\ started
    /\ ~vm.shown
    /\ vm.value = "success"
    /\ Show(<<"home">>, prefs)
    /\ ClearViewModel
    /\ UNCHANGED <<started, prefs, disk, keys, tainted, revoked>>

\* Views are made anew and view models stay: the observer of the new view is given
\* the value again.
Rotate ==
    /\ Ready
    /\ stack # <<>>
    /\ Show(stack, prefs)
    /\ vm' = [vm EXCEPT !.shown = (vm.value = "none")]
    /\ enabled' = TRUE
    /\ UNCHANGED <<started, prefs, disk, task, keys, tainted, revoked>>

\* Android waits for pending preferences to be written when an activity stops.
Stop ==
    /\ Ready
    /\ stack # <<>>
    /\ started' = FALSE
    /\ disk' = prefs
    /\ UNCHANGED <<stack, vm, enabled, home, prefs, task, keys, tainted, revoked>>

Start ==
    /\ ~started
    /\ stack # <<>>
    /\ started' = TRUE
    /\ UNCHANGED <<stack, vm, enabled, home, prefs, disk, task, keys, tainted, revoked>>

Launch ==
    /\ stack = <<>>
    /\ started' = TRUE
    /\ Show(<<"welcome">>, prefs)
    /\ UNCHANGED <<vm, enabled, prefs, disk, task, keys, tainted, revoked>>

\* The process dies; what had not reached the disk is lost.
Die ==
    /\ prefs' = disk
    /\ vm' = NoState
    /\ enabled' = TRUE
    /\ task' = [t \in Task |-> NoTask]
    /\ tainted' = (tainted \/ disk # prefs \/ \E t \in Task : task[t].pc = "store")
    /\ UNCHANGED <<disk, keys, revoked>>

\* In the background: the user comes back to the screen that was left.
KillAndReturn ==
    /\ ~started
    /\ stack # <<>>
    /\ Die
    /\ started' = TRUE
    /\ Show(stack, disk)

\* In the foreground, or with the activity finished: the next launch is a new one.
Crash ==
    /\ started \/ stack = <<>>
    /\ Die
    /\ started' = FALSE
    /\ stack' = <<>>
    /\ home' = NoUser

\* SharedPreferences.apply gets to the disk.
Persist ==
    /\ disk # prefs
    /\ disk' = prefs
    /\ UNCHANGED <<stack, started, vm, enabled, home, prefs, task, keys, tainted, revoked>>

----------------------------------------------------------------------------
(* AuthRepository.login and AuthRepository.register. *)

Suspended(t) == task[t].pc \in {"begin", "prompt", "finish"}

Ends(t, outcome) ==
    task' = [task EXCEPT ![t].pc = "post", ![t].result = outcome]

\* The call, the passkey prompt or the server may always fail; each failure is
\* caught and becomes the result.
Fails(t) ==
    /\ Suspended(t)
    /\ task[t].live
    /\ Ends(t, "error")
    /\ UNCHANGED <<stack, started, vm, enabled, home, prefs, disk, keys, tainted, revoked>>

Begin(t) ==
    /\ task[t].pc = "begin"
    /\ task[t].live
    /\ task' = [task EXCEPT ![t].pc = "prompt"]
    /\ UNCHANGED <<stack, started, vm, enabled, home, prefs, disk, keys, tainted, revoked>>

\* createCredential puts a new passkey in the place of the user's old one;
\* getCredential offers every passkey there is, its allowCredentials removed.
Prompt(t) ==
    /\ task[t].pc = "prompt"
    /\ task[t].live
    /\ keys' = IF task[t].op = "register" THEN keys \ {task[t].user} ELSE keys
    /\ task' = [task EXCEPT ![t].pc = "finish"]
    /\ UNCHANGED <<stack, started, vm, enabled, home, prefs, disk, tainted, revoked>>

\* The server serves the finish request: it gets to know a new passkey; a login
\* needs a passkey of the user it knows.
Serve(t) ==
    IF task[t].op = "register"
    THEN /\ keys' = keys \cup {task[t].user}
         /\ revoked' = revoked \ {task[t].user}
    ELSE /\ task[t].user \in keys
         /\ UNCHANGED <<keys, revoked>>

WritesUser(op) == <<"userId">>
\* What a ceremony stores when it succeeds, in that order.
Writes(op) == IF op = "login" THEN <<"token", "userId">> ELSE <<"userId">>

\* The answer arrives, or it is lost.
Finish(t) ==
    /\ task[t].pc = "finish"
    /\ task[t].live
    /\ Serve(t)
    /\ \/ task' = [task EXCEPT ![t].pc = "store", ![t].writes = Writes(task[t].op)]
       \/ Ends(t, "error")
    /\ UNCHANGED <<stack, started, vm, enabled, home, prefs, disk, tainted>>

\* A cancelled call or prompt throws; the request may have been served.
Cancelled(t) ==
    /\ Suspended(t)
    /\ ~task[t].live
    /\ \/ task[t].pc = "finish" /\ Serve(t)
       \/ UNCHANGED <<keys, revoked>>
    /\ task' = [task EXCEPT ![t] = NoTask]
    /\ UNCHANGED <<stack, started, vm, enabled, home, prefs, disk, tainted>>

\* sessionManager.sessionToken = ..., then sessionManager.userId = ...: no
\* suspension in between, so a cancelled coroutine writes all of it as well.
Store(t) ==
    /\ task[t].pc = "store"
    /\ prefs' = [prefs EXCEPT ![Head(task[t].writes)] = task[t].user]
    /\ IF Len(task[t].writes) = 1
       THEN task' = [task EXCEPT ![t].pc = "post", ![t].result = "success",
                                 ![t].writes = <<>>]
       ELSE task' = [task EXCEPT ![t].writes = Tail(task[t].writes)]
    /\ tainted' = (tainted \/ ~task[t].live)
    /\ UNCHANGED <<stack, started, vm, enabled, home, disk, keys, revoked>>

PostSuccessOnly(t) ==
    /\ task[t].pc = "post"
    /\ vm' = IF task[t].live /\ task[t].result = "success"
             THEN [value |-> task[t].result, shown |-> FALSE] ELSE vm
    /\ task' = [task EXCEPT ![t] = NoTask]
    /\ UNCHANGED <<stack, started, enabled, home, prefs, disk, keys, tainted, revoked>>

\* withContext returns to the main thread, which posts the value - unless the
\* scope has been cancelled.
Post(t) ==
    /\ task[t].pc = "post"
    /\ vm' = IF task[t].live THEN [value |-> task[t].result, shown |-> FALSE] ELSE vm
    /\ task' = [task EXCEPT ![t] = NoTask]
    /\ UNCHANGED <<stack, started, enabled, home, prefs, disk, keys, tainted, revoked>>

----------------------------------------------------------------------------
UserActs == OpenCeremony \/ TapCeremony \/ Back \/ Logout \/ Revoke
Observe == ObserveState \/ ObserveSuccess
Lifecycle == Rotate \/ Stop \/ Start \/ Launch \/ KillAndReturn \/ Crash
Run(t) == Fails(t) \/ Begin(t) \/ Prompt(t) \/ Finish(t) \/ Cancelled(t) \/ Store(t) \/ Post(t)

Next ==
    \/ UserActs
    \/ Observe
    \/ Lifecycle
    \/ Persist
    \/ \E t \in Task : Run(t)

Spec == Init /\ [][Next]_vars

\* Calls time out (10 s to connect, 30 s to read), the passkey prompt ends at the
\* timeout the server gave it, and the threads are scheduled.
FairSpec == Spec /\ WF_vars(Observe) /\ \A t \in Task : WF_vars(Run(t))
=============================================================================
