-------------------------- MODULE MobileApp_proofs --------------------------
(***************************************************************************)
(* The session the app keeps and shows, for any number of users and        *)
(* coroutines.  That the token is the stored user's hangs on the screens:  *)
(* a live coroutine belongs to the ceremony screen on top, and a phone     *)
(* that is signed in is not on the registration screen.                    *)
(***************************************************************************)
EXTENDS MobileAppProperties, TLAPS

\* A coroutine that has stored the token, or everything.
Signed(t) ==
    \/ task[t].pc = "store" /\ task[t].writes = <<"userId">>
    \/ task[t].pc = "post" /\ task[t].result = "success"

\* What a coroutine has left to write, and whose screen it is for; a login that is
\* not cancelled finds the token it has stored untouched.
TaskOK(t) ==
    /\ task[t].pc = "idle" => ~task[t].live
    /\ task[t].pc # "store" => task[t].writes = <<>>
    /\ task[t].pc = "store" => task[t].writes # <<>>
    /\ task[t].pc # "idle" => task[t].user \in User
    /\ task[t].op = "register" => task[t].writes # <<"token", "userId">>
    /\ task[t].live => Top = task[t].op
    /\ task[t].live /\ task[t].op = "login" /\ Signed(t) /\ ~tainted
       => prefs.token = task[t].user

\* At most one coroutine is live, and while one is, the screen shows Loading and the
\* button is disabled, or will be before the user can reach it.
LiveOK ==
    /\ \A t1, t2 \in Task : task[t1].live /\ task[t2].live => t1 = t2
    /\ \A t \in Task : task[t].live => vm.value = "loading" /\ (vm.shown => ~enabled)

\* A phone that is signed in shows neither Welcome nor the registration, and a login
\* has succeeded only with a token.
ScreenOK ==
    /\ vm.value # "none" => OnCeremony
    /\ Top \in {"welcome", "register"} /\ ~tainted => prefs.token = None
    /\ Top = "login" /\ vm.value = "success" /\ ~tainted => prefs.token # None

AppInv ==
    /\ \A t \in Task : TaskOK(t)
    /\ LiveOK
    /\ ScreenOK
    /\ TokenMatchesUser
    /\ HomeShowsSession

----------------------------------------------------------------------------
(* Screens. *)

\* The screen on top of a back stack tells which one it is.
Topmost(s) == IF s = <<>> THEN "none" ELSE s[Len(s)]

LEMMA StackOfTop ==
    ASSUME NEW s \in Stacks
    PROVE  /\ Topmost(s) \in {"none", "welcome", "login", "register", "home"}
           /\ Topmost(s) = "none" <=> s = <<>>
           /\ Topmost(s) = "welcome" <=> s = <<"welcome">>
           /\ Topmost(s) = "login" <=> s = <<"welcome", "login">>
           /\ Topmost(s) = "register" <=> s = <<"welcome", "register">>
           /\ Topmost(s) = "home" <=> s = <<"home">>
<1>1. CASE s = <<>>
  BY <1>1 DEF Topmost
<1>2. CASE s = <<"welcome">>
  BY <1>2 DEF Topmost
<1>3. CASE s = <<"welcome", "login">>
  BY <1>3 DEF Topmost
<1>4. CASE s = <<"welcome", "register">>
  BY <1>4 DEF Topmost
<1>5. CASE s = <<"home">>
  BY <1>5 DEF Topmost
<1> QED BY <1>1, <1>2, <1>3, <1>4, <1>5 DEF Stacks

LEMMA TopIsTopmost == Top = Topmost(stack) /\ Top' = Topmost(stack')
  BY DEF Top, Topmost

\* Showing a screen: Welcome goes on to Home if there is a token, Home has what is
\* stored, and no other screen changes.
LEMMA ShowStep ==
    ASSUME NEW s \in Stacks, NEW v, Show(s, v)
    PROVE  /\ stack' \in Stacks
           /\ Topmost(s) = "welcome" /\ v.token = None => Top' = "welcome"
           /\ Topmost(s) = "welcome" /\ v.token # None => Top' = "home"
           /\ Topmost(s) # "welcome" => Top' = Topmost(s)
           /\ home' = IF Top' = "home" THEN v ELSE NoUser
<1>1. <<"home">> \in Stacks
  BY DEF Stacks
<1>2. stack' = Redirect(s, v) /\ home' = IF stack' = <<"home">> THEN v ELSE NoUser
  BY DEF Show, LoadSession
<1>3. Topmost(s) = "welcome" /\ v.token # None => stack' = <<"home">>
  BY <1>2, StackOfTop DEF Redirect
<1>4. ~(Topmost(s) = "welcome" /\ v.token # None) => stack' = s
  BY <1>2, StackOfTop DEF Redirect
<1>5. stack' \in Stacks
  BY <1>1, <1>3, <1>4
<1>6. Top' = "home" <=> stack' = <<"home">>
  BY <1>5, StackOfTop, TopIsTopmost
<1> QED BY <1>2, <1>3, <1>4, <1>5, <1>6, TopIsTopmost

----------------------------------------------------------------------------
(* Types. *)

TaskState ==
    [pc: {"idle", "begin", "prompt", "finish", "store", "post"},
     op: {"login", "register"},
     user: User \cup {None},
     writes: {<<>>, <<"userId">>, <<"token", "userId">>},
     result: {"success", "error"},
     live: BOOLEAN]

LEMMA EmptyTypes ==
    /\ NoUser \in Session
    /\ NoTask \in TaskState
    /\ NoState \in [value: {"none", "loading", "success", "error"}, shown: BOOLEAN]
    /\ <<"welcome">> \in Stacks /\ <<"home">> \in Stacks /\ <<>> \in Stacks
<1>1. NoUser \in Session
  BY DEF NoUser, Session
<1>2. NoTask \in TaskState
  BY DEF NoTask, TaskState
<1>3. NoState \in [value: {"none", "loading", "success", "error"}, shown: BOOLEAN]
  BY DEF NoState
<1> QED BY <1>1, <1>2, <1>3 DEF Stacks

LEMMA TaskTypes == TypeOK => task \in [Task -> TaskState]
  BY DEF TypeOK, TaskState

\* What the user and the phone do.
LEMMA ScreenTypes ==
    ASSUME TypeOK, \/ UserActs \/ Observe \/ Lifecycle \/ Persist
    PROVE  TypeOK'
<1> USE EmptyTypes
<1>0. task \in [Task -> TaskState] /\ prefs \in Session /\ disk \in Session
  BY TaskTypes DEF TypeOK
<1>1. ASSUME NEW s \in Stacks, NEW v \in Session, Show(s, v)
      PROVE  stack' \in Stacks /\ home' \in Session
  BY <1>1, ShowStep
<1>2. ClearViewModel => /\ vm' \in [value: {"none", "loading", "success", "error"},
                                    shown: BOOLEAN]
                        /\ enabled' \in BOOLEAN
                        /\ task' \in [Task -> TaskState]
  <2>1. \A t \in Task : [task[t] EXCEPT !.live = FALSE] \in TaskState
    <3>1. TAKE t \in Task
    <3>2. task[t] \in TaskState
      BY <1>0
    <3> QED BY <3>2 DEF TaskState
  <2>2. CancelTasks => task' \in [Task -> TaskState]
    BY <2>1 DEF CancelTasks
  <2> QED BY <2>2 DEF ClearViewModel
<1>3. CASE OpenCeremony
  BY <1>3 DEF OpenCeremony, TypeOK, Stacks
<1>4. CASE TapCeremony
  <2>1. ASSUME NEW u \in User, NEW t \in Task,
               task' = [task EXCEPT ![t] = [NoTask EXCEPT !.pc = "begin",
                                                          !.op = Top,
                                                          !.user = u,
                                                          !.live = TRUE]]
        PROVE  task' \in [Task -> TaskState]
    <3>1. Top \in {"login", "register"}
      BY <1>4 DEF TapCeremony, OnCeremony
    <3>2. [NoTask EXCEPT !.pc = "begin", !.op = Top, !.user = u, !.live = TRUE]
          \in TaskState
      BY <3>1 DEF TaskState
    <3> QED BY <1>0, <2>1, <3>2
  <2>2. task' \in [Task -> TaskState]
    <3>1. CASE UNCHANGED task
      BY <1>0, <3>1
    <3>2. CASE ~UNCHANGED task
      <4>1. PICK u \in User, t \in Task :
                task' = [task EXCEPT ![t] = [NoTask EXCEPT !.pc = "begin",
                                                           !.op = Top,
                                                           !.user = u,
                                                           !.live = TRUE]]
        BY <1>4, <3>2, Zenon DEF TapCeremony
      <4> QED BY <2>1, <4>1
    <3> QED BY <3>1, <3>2
  <2>3. vm' \in [value: {"none", "loading", "success", "error"}, shown: BOOLEAN]
    <3>1. \/ vm' = [value |-> "error", shown |-> FALSE]
          \/ vm' = [value |-> "loading", shown |-> FALSE]
      BY <1>4, Zenon DEF TapCeremony
    <3>2. [value |-> "error", shown |-> FALSE]
          \in [value: {"none", "loading", "success", "error"}, shown: BOOLEAN]
      OBVIOUS
    <3>3. [value |-> "loading", shown |-> FALSE]
          \in [value: {"none", "loading", "success", "error"}, shown: BOOLEAN]
      OBVIOUS
    <3> QED BY <3>1, <3>2, <3>3
  <2>4. UNCHANGED <<stack, started, enabled, home, prefs, disk, keys, tainted, revoked>>
    BY <1>4 DEF TapCeremony
  <2> QED BY <2>2, <2>3, <2>4 DEF TypeOK, TaskState
<1>5. CASE Back
  BY <1>0, <1>1, <1>2, <1>5 DEF Back, TypeOK, TaskState
<1>6. CASE Logout \/ Revoke
  <2>1. ClearSession(prefs) \in Session
    BY <1>0 DEF ClearSession, Session
  <2>2. prefs.userId \in User \cup {None}
    BY <1>0 DEF Session
  <2>3. CASE Logout
    BY <1>1, <2>1, <2>3 DEF Logout, TypeOK
  <2>4. CASE Revoke
    BY <1>1, <2>2, <2>4 DEF Revoke, TypeOK
  <2> QED BY <1>6, <2>3, <2>4
<1>7. CASE ObserveState
  BY <1>7 DEF ObserveState, TypeOK
<1>8. CASE ObserveSuccess
  BY <1>0, <1>1, <1>2, <1>8 DEF ObserveSuccess, TypeOK, TaskState
<1>9. CASE Rotate
  <2>1. [vm EXCEPT !.shown = (vm.value = "none")]
        \in [value: {"none", "loading", "success", "error"}, shown: BOOLEAN]
    BY DEF TypeOK
  <2> QED BY <1>0, <1>1, <1>9, <2>1 DEF Rotate, TypeOK
<1>10. CASE Stop \/ Start \/ Persist
  BY <1>10 DEF Stop, Start, Persist, TypeOK
<1>11. CASE Launch
  BY <1>0, <1>1, <1>11 DEF Launch, TypeOK
<1>12. CASE KillAndReturn \/ Crash
  <2>1. stack' \in Stacks /\ home' \in Session /\ started' \in BOOLEAN
    BY <1>0, <1>1, <1>12 DEF KillAndReturn, Crash, TypeOK
  <2>2. task' \in [Task -> TaskState]
    BY <1>12 DEF KillAndReturn, Crash, Die
  <2>3. tainted' \in BOOLEAN
    BY <1>12 DEF KillAndReturn, Crash, Die
  <2>4. /\ prefs' = disk /\ vm' = NoState /\ enabled' = TRUE
        /\ UNCHANGED <<disk, keys, revoked>>
    BY <1>12 DEF KillAndReturn, Crash, Die
  <2> QED BY <2>1, <2>2, <2>3, <2>4 DEF TypeOK, TaskState
<1> QED BY <1>3, <1>4, <1>5, <1>6, <1>7, <1>8, <1>9, <1>10, <1>11, <1>12
        DEF UserActs, Observe, Lifecycle

\* A coroutine with something to write has one or two preferences left.
LEMMA WritesLeft ==
    ASSUME TypeOK, NEW t \in Task, TaskOK(t), task[t].pc = "store"
    PROVE  \/ task[t].writes = <<"userId">>
           \/ task[t].writes = <<"token", "userId">> /\ task[t].op = "login"
<1>1. task[t] \in TaskState
  BY TaskTypes
<1> QED BY <1>1 DEF TaskOK, TaskState

\* What a coroutine does.
LEMMA RunTypes ==
    ASSUME TypeOK, NEW t \in Task, TaskOK(t), Run(t) PROVE TypeOK'
<1> USE EmptyTypes
<1>0. /\ task \in [Task -> TaskState] /\ task[t] \in TaskState
      /\ prefs \in Session
      /\ vm \in [value: {"none", "loading", "success", "error"}, shown: BOOLEAN]
  BY TaskTypes DEF TypeOK
<1>1. ASSUME NEW outcome \in {"success", "error"}, Ends(t, outcome)
      PROVE  task' \in [Task -> TaskState]
  BY <1>0, <1>1 DEF Ends, TaskState
<1>2. CASE Fails(t)
  BY <1>1, <1>2 DEF Fails, TypeOK, TaskState
<1>3. CASE Begin(t)
  BY <1>0, <1>3 DEF Begin, TypeOK, TaskState
<1>4. CASE Prompt(t)
  <2>1. task' \in [Task -> TaskState]
    BY <1>0, <1>4 DEF Prompt, TaskState
  <2> QED BY <1>4, <2>1 DEF Prompt, TypeOK, TaskState
<1>5. Serve(t) /\ task[t].pc # "idle" => keys' \subseteq User /\ revoked' \subseteq User
  BY DEF Serve, TypeOK, TaskOK
<1>6. CASE Finish(t)
  <2>1. Writes(task[t].op) \in {<<>>, <<"userId">>, <<"token", "userId">>}
    BY DEF Writes
  <2>2. task' \in [Task -> TaskState]
    <3>1. CASE task' = [task EXCEPT ![t].pc = "store", ![t].writes = Writes(task[t].op)]
      BY <1>0, <2>1, <3>1 DEF TaskState
    <3> QED BY <1>1, <1>6, <3>1 DEF Finish
  <2> QED BY <1>5, <1>6, <2>2 DEF Finish, TypeOK, TaskState
<1>7. CASE Cancelled(t)
  <2>1. task' \in [Task -> TaskState]
    BY <1>0, <1>7 DEF Cancelled
  <2>2. keys' \subseteq User /\ revoked' \subseteq User
    BY <1>5, <1>7 DEF Cancelled, TypeOK
  <2> QED BY <1>7, <2>1, <2>2 DEF Cancelled, TypeOK, TaskState
<1>8. CASE Store(t)
  <2>0. task[t].pc = "store" /\ task[t].user \in User \cup {None}
    BY <1>0, <1>8 DEF Store, TaskState
  <2>1. CASE task[t].writes = <<"userId">>
    <3>1. prefs' = [prefs EXCEPT !["userId"] = task[t].user]
      BY <1>8, <2>1 DEF Store
    <3>2. prefs' \in Session
      BY <1>0, <2>0, <3>1 DEF Session
    <3>3. task' = [task EXCEPT ![t].pc = "post", ![t].result = "success",
                               ![t].writes = <<>>]
      BY <1>8, <2>1 DEF Store
    <3>4. task' \in [Task -> TaskState]
      BY <1>0, <3>3 DEF TaskState
    <3> QED BY <1>8, <3>2, <3>4 DEF Store, TypeOK, TaskState
  <2>2. CASE task[t].writes = <<"token", "userId">>
    <3>1. prefs' = [prefs EXCEPT !["token"] = task[t].user]
      BY <1>8, <2>2 DEF Store
    <3>2. prefs' \in Session
      BY <1>0, <2>0, <3>1 DEF Session
    <3>3. task' = [task EXCEPT ![t].writes = <<"userId">>]
      BY <1>8, <2>2 DEF Store
    <3>4. task' \in [Task -> TaskState]
      BY <1>0, <3>3 DEF TaskState
    <3> QED BY <1>8, <3>2, <3>4 DEF Store, TypeOK, TaskState
  <2> QED BY <2>0, <2>1, <2>2, WritesLeft
<1>9. CASE Post(t)
  <2>1. task' \in [Task -> TaskState]
    BY <1>0, <1>9 DEF Post
  <2>2. vm' \in [value: {"none", "loading", "success", "error"}, shown: BOOLEAN]
    <3>1. task[t].result \in {"success", "error"}
      BY <1>0 DEF TaskState
    <3> QED BY <1>0, <1>9, <3>1 DEF Post
  <2> QED BY <1>9, <2>1, <2>2 DEF Post, TypeOK, TaskState
<1> QED BY <1>2, <1>3, <1>4, <1>6, <1>7, <1>8, <1>9 DEF Run

LEMMA TypeNext ==
    ASSUME TypeOK, \A t \in Task : TaskOK(t), [Next]_vars PROVE TypeOK'
<1>1. CASE UserActs \/ Observe \/ Lifecycle \/ Persist
  BY <1>1, ScreenTypes
<1>2. CASE \E t \in Task : Run(t)
  BY <1>2, RunTypes
<1>3. CASE UNCHANGED vars
  BY <1>3 DEF vars, TypeOK
<1> QED BY <1>1, <1>2, <1>3 DEF Next

----------------------------------------------------------------------------
(* The invariant through what the user and the phone do.  Such a step leaves the *)
(* coroutines alone, cancels all of them, or starts one from a ceremony screen   *)
(* whose button is enabled.                                                      *)

\* Off the ceremony screens no coroutine is live.
LEMMA NoneLive ==
    ASSUME TypeOK, AppInv, ~OnCeremony
    PROVE  \A t \in Task : ~task[t].live
<1>1. \A t \in Task : task[t].op \in {"login", "register"}
  BY TaskTypes DEF TaskState
<1> QED BY <1>1 DEF AppInv, TaskOK, OnCeremony

\* What a coroutine still has to write, without regard to the screen.
SameWork(t) ==
    /\ task'[t].pc = task[t].pc
    /\ task'[t].op = task[t].op
    /\ task'[t].user = task[t].user
    /\ task'[t].writes = task[t].writes
    /\ task'[t].result = task[t].result

\* Coroutines that are cancelled keep the invariant, whatever the screen.
LEMMA CancelledTasks ==
    ASSUME AppInv, NEW t \in Task, SameWork(t), ~task'[t].live
    PROVE  TaskOK(t)'
  BY DEF AppInv, SameWork, TaskOK

\* A step that leaves no coroutine live: all of them stay, or are forgotten.
Unwatched ==
    \/ \A t \in Task : SameWork(t) /\ ~task'[t].live
    \/ task' = [t \in Task |-> NoTask]

LEMMA UnwatchedKeeps ==
    ASSUME AppInv, Unwatched
    PROVE  (\A t \in Task : TaskOK(t))' /\ LiveOK' /\ \A t \in Task : ~task'[t].live
<1>1. ASSUME NEW t \in Task PROVE TaskOK(t)' /\ ~task'[t].live
  <2>1. CASE SameWork(t) /\ ~task'[t].live
    BY <1>1, <2>1, CancelledTasks
  <2>2. CASE task' = [x \in Task |-> NoTask]
    <3>1. task'[t] = NoTask
      BY <1>1, <2>2
    <3> QED BY <3>1 DEF TaskOK, NoTask
  <2> QED BY <1>1, <2>1, <2>2 DEF Unwatched
<1> QED BY <1>1 DEF LiveOK

LEMMA UnwatchedSteps ==
    ASSUME TypeOK, AppInv
    PROVE  /\ UNCHANGED task /\ ~OnCeremony => Unwatched
           /\ CancelTasks => Unwatched
           /\ Die => Unwatched
<1>0. task \in [Task -> TaskState]
  BY TaskTypes
<1>1. ASSUME UNCHANGED task, ~OnCeremony PROVE Unwatched
  BY <1>1, NoneLive DEF Unwatched, SameWork
<1>2. ASSUME CancelTasks PROVE Unwatched
  <2>1. ASSUME NEW t \in Task PROVE SameWork(t) /\ ~task'[t].live
    <3>1. task'[t] = [task[t] EXCEPT !.live = FALSE] /\ task[t] \in TaskState
      BY <1>0, <1>2, <2>1 DEF CancelTasks
    <3>2. SameWork(t)
      BY <3>1 DEF SameWork, TaskState
    <3>3. task'[t].live = FALSE
      BY <3>1 DEF TaskState
    <3> QED BY <3>2, <3>3
  <2> QED BY <2>1 DEF Unwatched
<1>3. Die => Unwatched
  BY DEF Die, Unwatched
<1> QED BY <1>1, <1>2, <1>3

\* The lists of what is left to write tell each other apart.
LEMMA Lists ==
    /\ <<>> # <<"userId">>
    /\ <<>> # <<"token", "userId">>
    /\ <<"userId">> # <<"token", "userId">>
<1>1. Len(<<>>) = 0 /\ Len(<<"userId">>) = 1 /\ Len(<<"token", "userId">>) = 2
  OBVIOUS
<1> QED BY <1>1

\* A coroutine midway is still so after a step that leaves its work alone.
LEMMA StillMidway ==
    ASSUME \A t \in Task : SameWork(t)
    PROVE  Midway' = Midway
  BY DEF SameWork, Midway

\* A screen shown over the stored session, by a view model that has said nothing.
LEMMA ShownScreen ==
    ASSUME NEW s \in Stacks, NEW v, Show(s, v), prefs' = v, vm'.value = "none",
           Topmost(s) = "register" /\ ~tainted' => v.token = None
    PROVE  ScreenOK' /\ HomeShowsSession'
<1>1. /\ Topmost(s) = "welcome" /\ v.token # None => Top' = "home"
      /\ Topmost(s) # "welcome" => Top' = Topmost(s)
      /\ Top' = "home" => home' = v
  BY ShowStep
<1>2. Top' = "welcome" => Topmost(s) = "welcome" /\ v.token = None
  BY <1>1
<1>3. Top' = "register" => Topmost(s) = "register" \/ Topmost(s) = "welcome"
  BY <1>1
<1>4. Topmost(s) = "welcome" => Top' \in {"welcome", "home"}
  BY ShowStep
<1>5. Top' = "register" /\ ~tainted' => v.token = None
  BY <1>3, <1>4
<1>6. ScreenOK'
  BY <1>2, <1>5 DEF ScreenOK
<1> QED BY <1>1, <1>6 DEF HomeShowsSession

\* No activity: nothing is shown.
LEMMA NoScreen ==
    ASSUME stack' = <<>>, vm'.value = "none" PROVE ScreenOK' /\ HomeShowsSession'
  BY DEF Top, ScreenOK, HomeShowsSession

\* Preferences, screen and coroutines' work are left alone.
LEMMA SessionKept ==
    ASSUME AppInv, UNCHANGED <<prefs, tainted>>, \A t \in Task : SameWork(t)
    PROVE  TokenMatchesUser'
<1>1. Midway' = Midway
  BY StillMidway
<1>2. TokenMatchesUser
  BY DEF AppInv
<1> QED BY <1>1, <1>2 DEF TokenMatchesUser

\* Each way a screen step treats the coroutines' work.
LEMMA WorkKept ==
    ASSUME TypeOK
    PROVE  /\ UNCHANGED task => \A t \in Task : SameWork(t)
           /\ CancelTasks => \A t \in Task : SameWork(t)
<1>0. task \in [Task -> TaskState]
  BY TaskTypes
<1>1. ASSUME NEW t \in Task, CancelTasks PROVE SameWork(t)
  <2>1. task'[t] = [task[t] EXCEPT !.live = FALSE] /\ task[t] \in TaskState
    BY <1>0, <1>1 DEF CancelTasks
  <2> QED BY <2>1 DEF SameWork, TaskState
<1> QED BY <1>1 DEF SameWork

\* Off the ceremony screens the view model has said nothing.
LEMMA Silent ==
    AppInv /\ ~OnCeremony => vm.value = "none"
  BY DEF AppInv, ScreenOK

LEMMA TopOf ==
    ASSUME TypeOK
    PROVE  /\ stack \in Stacks /\ Top = Topmost(stack)
           /\ Top \in {"none", "welcome", "login", "register", "home"}
           /\ stack = <<>> <=> Top = "none"
           /\ <<"welcome">> \in Stacks /\ Topmost(<<"welcome">>) = "welcome"
           /\ <<"home">> \in Stacks /\ Topmost(<<"home">>) = "home"
  BY StackOfTop, TopIsTopmost, EmptyTypes DEF TypeOK

\* Leaving a ceremony or the activity.
LEMMA BackKeeps ==
    ASSUME TypeOK, AppInv, Back PROVE AppInv'
<1>1. CancelTasks /\ vm'.value = "none" /\ UNCHANGED <<prefs, tainted>>
  BY DEF Back, ClearViewModel, NoState
<1>2. (\A t \in Task : TaskOK(t))' /\ LiveOK'
  BY <1>1, UnwatchedSteps, UnwatchedKeeps
<1>3. TokenMatchesUser'
  BY <1>1, WorkKept, SessionKept
<1>4. ScreenOK' /\ HomeShowsSession'
  <2>1. CASE Show(<<"welcome">>, prefs)
    BY <1>1, <2>1, TopOf, ShownScreen
  <2>2. CASE stack' = <<>>
    BY <1>1, <2>2, NoScreen
  <2> QED BY <2>1, <2>2 DEF Back
<1> QED BY <1>2, <1>3, <1>4 DEF AppInv

\* Signing out, and forgetting the user.
LEMMA LeaveHomeKeeps ==
    ASSUME TypeOK, AppInv, Logout \/ Revoke PROVE AppInv'
<1>1. ~OnCeremony /\ UNCHANGED <<task, vm, tainted>>
  BY DEF Logout, Revoke, OnCeremony
<1>2. (\A t \in Task : TaskOK(t))' /\ LiveOK'
  BY <1>1, UnwatchedSteps, UnwatchedKeeps
<1>3. prefs'.token = None
  <2>1. prefs \in Session
    BY DEF TypeOK
  <2> QED BY <2>1 DEF Logout, Revoke, ClearSession, NoUser, Session
<1>4. TokenMatchesUser'
  BY <1>3 DEF TokenMatchesUser
<1>5. Show(<<"welcome">>, prefs') /\ vm'.value = "none"
  BY <1>1, Silent DEF Logout, Revoke
<1>6. ScreenOK' /\ HomeShowsSession'
  BY <1>5, TopOf, ShownScreen
<1> QED BY <1>2, <1>4, <1>6 DEF AppInv

\* Home after a success; Welcome at a launch.
LEMMA EnterKeeps ==
    ASSUME TypeOK, AppInv, ObserveSuccess \/ Launch PROVE AppInv'
<1>1. UNCHANGED <<prefs, tainted>> /\ vm'.value = "none"
      /\ \/ CancelTasks
         \/ UNCHANGED task /\ ~OnCeremony
  <2>1. CASE ObserveSuccess
    BY <2>1 DEF ObserveSuccess, ClearViewModel, NoState
  <2>2. CASE Launch
    <3>1. ~OnCeremony
      BY <2>2, TopOf DEF Launch, OnCeremony
    <3> QED BY <2>2, <3>1, Silent DEF Launch
  <2> QED BY <2>1, <2>2
<1>2. (\A t \in Task : TaskOK(t))' /\ LiveOK'
  BY <1>1, UnwatchedSteps, UnwatchedKeeps
<1>3. TokenMatchesUser'
  BY <1>1, WorkKept, SessionKept
<1>4. Show(<<"home">>, prefs) \/ Show(<<"welcome">>, prefs)
  BY DEF ObserveSuccess, Launch
<1>5. ScreenOK' /\ HomeShowsSession'
  BY <1>1, <1>4, TopOf, ShownScreen
<1> QED BY <1>2, <1>3, <1>5 DEF AppInv

\* The process dies: a history that is not tainted has lost nothing.
LEMMA DeathKeeps ==
    ASSUME TypeOK, AppInv, KillAndReturn \/ Crash PROVE AppInv'
<1>1. Die
  BY DEF KillAndReturn, Crash
<1>2. (\A t \in Task : TaskOK(t))' /\ LiveOK'
  BY <1>1, UnwatchedSteps, UnwatchedKeeps
<1>3. /\ prefs' = disk /\ vm'.value = "none"
      /\ tainted' = (tainted \/ disk # prefs \/ \E t \in Task : task[t].pc = "store")
  BY <1>1 DEF Die, NoState
<1>4. ~tainted' => ~tainted /\ prefs' = prefs /\ \A t \in Task : task[t].pc # "store"
  BY <1>3
<1>5. TokenMatchesUser'
  <2>1. SUFFICES ASSUME ~tainted' PROVE TokenMatchesUser'
    BY DEF TokenMatchesUser
  <2>2. \A t \in Task : task[t].writes = <<>>
    BY <1>4, <2>1 DEF AppInv, TaskOK
  <2>3. ~Midway
    BY <2>2, Lists DEF Midway
  <2> QED BY <1>4, <2>1, <2>3 DEF AppInv, TokenMatchesUser
<1>6. ScreenOK' /\ HomeShowsSession'
  <2>1. CASE KillAndReturn
    <3>1. Show(stack, disk)
      BY <2>1 DEF KillAndReturn
    <3>2. Topmost(stack) = "register" /\ ~tainted' => disk.token = None
      BY <1>3, <1>4, TopOf DEF AppInv, ScreenOK
    <3> QED BY <1>3, <3>1, <3>2, TopOf, ShownScreen
  <2>2. CASE Crash
    BY <1>3, <2>2, NoScreen DEF Crash
  <2> QED BY <2>1, <2>2
<1> QED BY <1>2, <1>5, <1>6 DEF AppInv

\* A ceremony is opened from Welcome, where no token is stored.
LEMMA OpenKeeps ==
    ASSUME TypeOK, AppInv, OpenCeremony PROVE AppInv'
<1>1. /\ Top = "welcome" /\ ~OnCeremony
      /\ UNCHANGED <<task, prefs, tainted>> /\ vm'.value = "none"
  BY DEF OpenCeremony, OnCeremony, NoState
<1>2. (\A t \in Task : TaskOK(t))' /\ LiveOK'
  BY <1>1, UnwatchedSteps, UnwatchedKeeps
<1>3. TokenMatchesUser'
  BY <1>1, WorkKept, SessionKept
<1>4. Top' \in {"login", "register"}
  <2>1. PICK screen \in {"login", "register"} : stack' = <<"welcome", screen>>
    BY DEF OpenCeremony
  <2>2. stack' = <<"welcome", "login">> \/ stack' = <<"welcome", "register">>
    BY <2>1
  <2> QED BY <2>2, StackOfTop, TopIsTopmost DEF Stacks
<1>5. ~tainted' => prefs'.token = None
  BY <1>1 DEF AppInv, ScreenOK
<1>6. ScreenOK' /\ HomeShowsSession'
  BY <1>1, <1>4, <1>5 DEF ScreenOK, HomeShowsSession, OnCeremony
<1> QED BY <1>2, <1>3, <1>6 DEF AppInv

\* The button is enabled only while no coroutine is live, so the new one is alone.
LEMMA TapKeeps ==
    ASSUME TypeOK, AppInv, TapCeremony PROVE AppInv'
<1>0. task \in [Task -> TaskState] /\ Top' = Top
  BY TaskTypes DEF TapCeremony, Top
<1>1. /\ vm.shown /\ enabled /\ OnCeremony
      /\ UNCHANGED <<stack, enabled, home, prefs, tainted>>
  BY DEF TapCeremony, Ready
<1>2. \A t \in Task : ~task[t].live
  BY <1>1 DEF AppInv, LiveOK
<1>3. vm'.value \in {"error", "loading"} /\ vm'.shown = FALSE
  <2>1. \/ vm' = [value |-> "error", shown |-> FALSE]
        \/ vm' = [value |-> "loading", shown |-> FALSE]
    BY Zenon DEF TapCeremony
  <2> QED BY <2>1
<1>4. ScreenOK' /\ HomeShowsSession'
  BY <1>0, <1>1, <1>3 DEF AppInv, ScreenOK, HomeShowsSession, OnCeremony
<1>5. CASE UNCHANGED task
  <2>1. TokenMatchesUser'
    BY <1>1, <1>5, WorkKept, SessionKept
  <2>2. (\A t \in Task : TaskOK(t))' /\ LiveOK'
    BY <1>2, <1>5, UnwatchedKeeps DEF Unwatched, SameWork
  <2> QED BY <1>4, <2>1, <2>2 DEF AppInv
<1>6. ASSUME NEW u \in User, NEW t \in Task, task[t].pc = "idle",
             task' = [task EXCEPT ![t] = [NoTask EXCEPT !.pc = "begin", !.op = Top,
                                                        !.user = u, !.live = TRUE]],
             vm' = [value |-> "loading", shown |-> FALSE]
      PROVE  AppInv'
  <2>1. /\ task'[t].pc = "begin" /\ task'[t].op = Top /\ task'[t].user = u
        /\ task'[t].writes = <<>> /\ task'[t].live = TRUE
    <3>1. task'[t] = [NoTask EXCEPT !.pc = "begin", !.op = Top, !.user = u, !.live = TRUE]
      BY <1>0, <1>6
    <3> QED BY <3>1 DEF NoTask
  <2>2. \A x \in Task : x # t => task'[x] = task[x]
    BY <1>0, <1>6
  <2>3. ASSUME NEW x \in Task PROVE TaskOK(x)'
    <3>1. CASE x = t
      BY <1>0, <2>1, <3>1, Lists DEF TaskOK, Signed
    <3>2. CASE x # t
      <4>1. task'[x] = task[x] /\ ~task'[x].live /\ SameWork(x)
        BY <1>2, <2>2, <2>3, <3>2 DEF SameWork
      <4> QED BY <2>3, <4>1, CancelledTasks
    <3> QED BY <3>1, <3>2
  <2>4. \A x \in Task : task'[x].live => x = t
    BY <1>2, <2>2
  <2>5. LiveOK'
    BY <1>6, <2>4 DEF LiveOK
  <2>6. task[t].writes = <<>>
    BY <1>6 DEF AppInv, TaskOK
  <2>7. Midway' <=> Midway
    <3>1. \A x \in Task : task'[x].writes = <<"userId">> => x # t
      BY <2>1, Lists
    <3>2. \A x \in Task : task[x].writes = <<"userId">> => x # t
      BY <2>6, Lists
    <3> QED BY <2>2, <3>1, <3>2 DEF Midway
  <2>8. TokenMatchesUser'
    BY <1>1, <2>7 DEF AppInv, TokenMatchesUser
  <2> QED BY <1>4, <2>3, <2>5, <2>8 DEF AppInv
<1> QED BY <1>5, <1>6, Zenon DEF TapCeremony

\* The view and the preferences' file: screen, session and coroutines stay, and a
\* button is enabled again only when the value is not Loading, or comes back with
\* the value still to be observed.
LEMMA ViewKeeps ==
    ASSUME TypeOK, AppInv, ObserveState \/ Stop \/ Start \/ Persist PROVE AppInv'
<1>1. UNCHANGED <<stack, home, prefs, task, tainted>> /\ Top' = Top
  BY DEF ObserveState, Stop, Start, Persist, Top
<1>2. vm \in [value: {"none", "loading", "success", "error"}, shown: BOOLEAN]
  BY DEF TypeOK
<1>3. vm'.value = vm.value
  BY <1>2 DEF ObserveState, Stop, Start, Persist
<1>4. vm.value = "loading" /\ (vm.shown => ~enabled) => (vm'.shown => ~enabled')
  BY <1>2 DEF ObserveState, Stop, Start, Persist
<1>5. LiveOK'
  BY <1>1, <1>3, <1>4 DEF AppInv, LiveOK
<1>6. (\A t \in Task : TaskOK(t))'
  BY <1>1 DEF AppInv, TaskOK, Signed
<1>7. ScreenOK' /\ HomeShowsSession'
  BY <1>1, <1>3 DEF AppInv, ScreenOK, HomeShowsSession, OnCeremony
<1>8. TokenMatchesUser'
  BY <1>1, WorkKept, SessionKept
<1> QED BY <1>5, <1>6, <1>7, <1>8 DEF AppInv

\* The screen is made again.  Only Welcome over a token would go on to Home, and
\* it has no coroutine.
LEMMA RotateKeeps ==
    ASSUME TypeOK, AppInv, Rotate PROVE AppInv'
<1>1. UNCHANGED <<prefs, task, tainted>> /\ Show(stack, prefs)
  BY DEF Rotate
<1>2. vm \in [value: {"none", "loading", "success", "error"}, shown: BOOLEAN]
  BY DEF TypeOK
<1>3. vm'.value = vm.value /\ vm'.shown = (vm.value = "none")
  BY <1>2 DEF Rotate
<1>4. TokenMatchesUser'
  BY <1>1, WorkKept, SessionKept
<1>5. CASE OnCeremony
  <2>1. Top' = Top
    BY <1>1, <1>5, ShowStep, TopOf DEF OnCeremony
  <2>2. LiveOK'
    BY <1>1, <1>3 DEF AppInv, LiveOK
  <2>3. (\A t \in Task : TaskOK(t))'
    BY <1>1, <2>1 DEF AppInv, TaskOK, Signed
  <2>4. ScreenOK' /\ HomeShowsSession'
    BY <1>1, <1>3, <1>5, <2>1 DEF AppInv, ScreenOK, HomeShowsSession, OnCeremony
  <2> QED BY <1>4, <2>2, <2>3, <2>4 DEF AppInv
<1>6. CASE ~OnCeremony
  <2>1. (\A t \in Task : TaskOK(t))' /\ LiveOK'
    BY <1>1, <1>6, UnwatchedSteps, UnwatchedKeeps
  <2>2. vm'.value = "none" /\ Topmost(stack) # "register"
    BY <1>3, <1>6, Silent, TopOf DEF OnCeremony
  <2>3. ScreenOK' /\ HomeShowsSession'
    BY <1>1, <2>2, TopOf, ShownScreen
  <2> QED BY <1>4, <2>1, <2>3 DEF AppInv
<1> QED BY <1>5, <1>6

LEMMA ScreenKeeps ==
    ASSUME TypeOK, AppInv, UserActs \/ Observe \/ Lifecycle \/ Persist PROVE AppInv'
  BY OpenKeeps, TapKeeps, BackKeeps, LeaveHomeKeeps, EnterKeeps, DeathKeeps, ViewKeeps,
     RotateKeeps DEF UserActs, Observe, Lifecycle

----------------------------------------------------------------------------
(* The invariant through a step of a coroutine. *)

\* A coroutine's step is its own: the other coroutines and the screen stay.
LEMMA OwnStep ==
    ASSUME TypeOK, NEW t \in Task, Run(t)
    PROVE  /\ \A x \in Task : x # t => task'[x] = task[x]
           /\ UNCHANGED <<stack, enabled, home>> /\ Top' = Top
           /\ Post(t) \/ UNCHANGED vm
           /\ Store(t) \/ UNCHANGED <<prefs, tainted>>
<1>0. task \in [Task -> TaskState]
  BY TaskTypes
<1>1. UNCHANGED <<stack, enabled, home>> /\ Top' = Top
  BY DEF Run, Fails, Begin, Prompt, Finish, Cancelled, Store, Post, Top
<1>2. Post(t) \/ UNCHANGED vm
  BY DEF Run, Fails, Begin, Prompt, Finish, Cancelled, Store
<1>3. Store(t) \/ UNCHANGED <<prefs, tainted>>
  BY DEF Run, Fails, Begin, Prompt, Finish, Cancelled, Post
<1>4. ASSUME NEW x \in Task, x # t PROVE task'[x] = task[x]
  <2>1. CASE Fails(t)
    BY <1>0, <1>4, <2>1 DEF Fails, Ends
  <2>2. CASE Begin(t)
    BY <1>0, <1>4, <2>2 DEF Begin
  <2>3. CASE Prompt(t)
    BY <1>0, <1>4, <2>3 DEF Prompt
  <2>4. CASE Finish(t)
    BY <1>0, <1>4, <2>4 DEF Finish, Ends
  <2>5. CASE Cancelled(t)
    BY <1>0, <1>4, <2>5 DEF Cancelled
  <2>6. CASE Store(t)
    BY <1>0, <1>4, <2>6 DEF Store
  <2>7. CASE Post(t)
    BY <1>0, <1>4, <2>7 DEF Post
  <2> QED BY <2>1, <2>2, <2>3, <2>4, <2>5, <2>6, <2>7 DEF Run
<1> QED BY <1>1, <1>2, <1>3, <1>4

\* What a step makes of its own coroutine, up to the writes: it stays for the same
\* user and ceremony, ends, or has found nothing to write before.
LEMMA OwnWork ==
    ASSUME TypeOK, AppInv, NEW t \in Task, Run(t), ~Store(t)
    PROVE  /\ TaskOK(t)'
           /\ task'[t].live => task[t].live
           /\ task[t].writes = <<>>
           /\ ~(task'[t].writes = <<"userId">> /\ task'[t].op = "login")
<1>0. task \in [Task -> TaskState] /\ task[t] \in TaskState
  BY TaskTypes
<1>1. UNCHANGED <<prefs, tainted>> /\ Top' = Top
  BY OwnStep
<1>2. TaskOK(t)
  BY DEF AppInv
<1>3. task[t].writes = <<>> /\ task[t].pc # "store"
  BY <1>2 DEF Run, Fails, Begin, Prompt, Finish, Cancelled, Post, Suspended, TaskOK
<1>4. ASSUME NEW pc \in {"prompt", "finish", "post", "store"}, task[t].pc # "idle",
             task'[t].pc = pc, task'[t].op = task[t].op, task'[t].user = task[t].user,
             task'[t].live = task[t].live,
             IF pc = "store" THEN task'[t].writes = Writes(task[t].op)
                             ELSE task'[t].writes = task[t].writes,
             pc = "post" => task'[t].result = "error"
      PROVE  /\ TaskOK(t)'
             /\ task'[t].live => task[t].live
             /\ ~(task'[t].writes = <<"userId">> /\ task'[t].op = "login")
  <2>1. task[t].op \in {"login", "register"}
    BY <1>0 DEF TaskState
  <2>2. /\ task'[t].pc # "store" => task'[t].writes = <<>>
        /\ task'[t].pc = "store" /\ task'[t].op = "login"
           => task'[t].writes = <<"token", "userId">>
        /\ task'[t].pc = "store" /\ task'[t].op = "register"
           => task'[t].writes = <<"userId">>
    BY <1>3, <1>4, <2>1 DEF Writes
  <2>3. ~(task'[t].writes = <<"userId">> /\ task'[t].op = "login")
    BY <1>4, <2>1, <2>2, Lists
  <2>4. ~(task'[t].op = "login" /\ Signed(t)')
    BY <1>4, <2>2, <2>3 DEF Signed
  <2>5. task[t].user \in User /\ (task[t].live => Top = task[t].op)
    BY <1>2, <1>4 DEF TaskOK
  <2>6. TaskOK(t)'
    <3>1. /\ task'[t].pc = "store" => task'[t].writes # <<>>
          /\ task'[t].op = "register" => task'[t].writes # <<"token", "userId">>
      BY <1>4, <2>1, <2>2, Lists
    <3> QED BY <1>1, <1>4, <2>2, <2>4, <2>5, <3>1 DEF TaskOK
  <2> QED BY <1>4, <2>3, <2>6
<1>5. ASSUME task' = [task EXCEPT ![t] = NoTask]
      PROVE  /\ TaskOK(t)'
             /\ task'[t].live => task[t].live
             /\ ~(task'[t].writes = <<"userId">> /\ task'[t].op = "login")
  <2>1. task'[t] = NoTask
    BY <1>0, <1>5
  <2> QED BY <2>1, Lists DEF TaskOK, NoTask
<1>6. ASSUME NEW outcome \in {"success", "error"}, outcome = "error", Ends(t, outcome),
             Suspended(t)
      PROVE  /\ TaskOK(t)'
             /\ task'[t].live => task[t].live
             /\ ~(task'[t].writes = <<"userId">> /\ task'[t].op = "login")
  <2>1. task'[t] = [task[t] EXCEPT !.pc = "post", !.result = outcome]
    BY <1>0, <1>6 DEF Ends
  <2>2. /\ task'[t].pc = "post" /\ task'[t].op = task[t].op
        /\ task'[t].user = task[t].user /\ task'[t].writes = task[t].writes
        /\ task'[t].result = "error"
    BY <1>0, <1>6, <2>1 DEF TaskState
  <2>3. task'[t].live = task[t].live
    BY <1>0, <2>1 DEF TaskState
  <2> QED BY <1>4, <1>6, <2>2, <2>3 DEF Suspended
<1>7. CASE Fails(t)
  BY <1>3, <1>6, <1>7 DEF Fails
<1>8. CASE Begin(t) \/ Prompt(t)
  <2>1. PICK pc \in {"prompt", "finish"} : task' = [task EXCEPT ![t].pc = pc]
    BY <1>8 DEF Begin, Prompt
  <2>2. task'[t] = [task[t] EXCEPT !.pc = pc]
    BY <1>0, <2>1
  <2>3. /\ task'[t].pc = pc /\ task'[t].op = task[t].op
        /\ task'[t].user = task[t].user /\ task'[t].writes = task[t].writes
    BY <1>0, <2>2 DEF TaskState
  <2>4. task'[t].live = task[t].live
    BY <1>0, <2>2 DEF TaskState
  <2>5. task[t].pc # "idle"
    BY <1>8 DEF Begin, Prompt
  <2> QED BY <1>3, <1>4, <2>1, <2>3, <2>4, <2>5
<1>9. CASE Finish(t)
  <2>1. Suspended(t)
    BY <1>9 DEF Finish, Suspended
  <2>2. CASE task' = [task EXCEPT ![t].pc = "store", ![t].writes = Writes(task[t].op)]
    <3>1. task'[t] = [task[t] EXCEPT !.pc = "store", !.writes = Writes(task[t].op)]
      BY <1>0, <2>2
    <3>2. /\ task'[t].pc = "store" /\ task'[t].op = task[t].op
          /\ task'[t].user = task[t].user /\ task'[t].writes = Writes(task[t].op)
      BY <1>0, <3>1 DEF TaskState
    <3>3. task'[t].live = task[t].live
      BY <1>0, <3>1 DEF TaskState
    <3> QED BY <1>3, <1>4, <2>1, <3>2, <3>3 DEF Suspended
  <2> QED BY <1>3, <1>6, <1>9, <2>1, <2>2 DEF Finish
<1>10. CASE Cancelled(t) \/ Post(t)
  BY <1>3, <1>5, <1>10 DEF Cancelled, Post
<1> QED BY <1>7, <1>8, <1>9, <1>10 DEF Run

\* A value is posted by the coroutine of the screen on top, or not at all.
LEMMA QuietKeeps ==
    ASSUME TypeOK, AppInv, NEW t \in Task, Run(t), ~Store(t) PROVE AppInv'
<1>1. /\ \A x \in Task : x # t => task'[x] = task[x]
      /\ UNCHANGED <<stack, enabled, home, prefs, tainted>> /\ Top' = Top
  BY OwnStep
<1>2. /\ TaskOK(t)'
      /\ task'[t].live => task[t].live
      /\ task[t].writes = <<>>
      /\ ~(task'[t].writes = <<"userId">> /\ task'[t].op = "login")
  BY OwnWork
<1>3. \A x \in Task : task'[x].live => task[x].live
  BY <1>1, <1>2
<1>4. (\A x \in Task : TaskOK(x))'
  <2>1. ASSUME NEW x \in Task, x # t PROVE TaskOK(x)'
    BY <1>1, <2>1 DEF AppInv, TaskOK, Signed
  <2> QED BY <1>2, <2>1
<1>5. Midway' <=> Midway
  BY <1>1, <1>2, Lists DEF Midway
<1>6. TokenMatchesUser' /\ HomeShowsSession'
  BY <1>1, <1>5 DEF AppInv, TokenMatchesUser, HomeShowsSession
<1>7. CASE UNCHANGED vm
  <2>1. LiveOK' /\ ScreenOK'
    BY <1>1, <1>3, <1>7 DEF AppInv, LiveOK, ScreenOK, OnCeremony
  <2> QED BY <1>4, <1>6, <2>1 DEF AppInv
<1>8. CASE Post(t) /\ ~UNCHANGED vm
  <2>1. /\ task[t].live /\ task[t].pc = "post"
        /\ vm' = [value |-> task[t].result, shown |-> FALSE]
        /\ task' = [task EXCEPT ![t] = NoTask]
    BY <1>8 DEF Post
  <2>2. \A x \in Task : ~task'[x].live
    <3>1. task'[t] = NoTask
      BY <2>1, TaskTypes
    <3>2. ~task'[t].live
      BY <3>1 DEF NoTask
    <3> QED BY <1>1, <2>1, <3>2 DEF AppInv, LiveOK
  <2>3. LiveOK'
    BY <2>2 DEF LiveOK
  <2>4. Top = task[t].op /\ task[t].op \in {"login", "register"} /\ task[t].user # None
    BY <2>1, TaskTypes, NoneIsNoUser DEF AppInv, TaskOK, TaskState
  <2>5. task[t].op = "login" /\ task[t].result = "success" /\ ~tainted
        => prefs.token = task[t].user
    BY <2>1 DEF AppInv, TaskOK, Signed
  <2>6. vm'.value = task[t].result
    BY <2>1
  <2>7. ScreenOK'
    BY <1>1, <2>4, <2>5, <2>6 DEF AppInv, ScreenOK, OnCeremony
  <2> QED BY <1>4, <1>6, <2>3, <2>7 DEF AppInv
<1> QED BY <1>7, <1>8, OwnStep

\* A coroutine that stores is the live one of the screen on top, or taints the
\* history.  The login's two writes leave the token and the user it belongs to; a
\* registration writes its user where there is no token.
LEMMA StoreKeeps ==
    ASSUME TypeOK, AppInv, NEW t \in Task, Store(t) PROVE AppInv'
<1>0. /\ task \in [Task -> TaskState] /\ task[t] \in TaskState
      /\ prefs \in Session /\ task[t].pc = "store"
  BY TaskTypes DEF TypeOK, Store
<1>1. /\ \A x \in Task : x # t => task'[x] = task[x]
      /\ UNCHANGED <<stack, enabled, home, vm>> /\ Top' = Top
  BY OwnStep DEF Run, Store
<1>2. TaskOK(t) /\ TokenMatchesUser /\ task[t].user \in User
  BY <1>0 DEF AppInv, TaskOK
<1>3. ~tainted' => ~tainted /\ task[t].live /\ Top = task[t].op /\ vm.value = "loading"
  BY <1>2 DEF Store, AppInv, LiveOK, TaskOK
<1>4. ~tainted' => \A x \in Task : x # t => ~task[x].live
  BY <1>3 DEF AppInv, LiveOK
<1>5. /\ task'[t].op = task[t].op /\ task'[t].user = task[t].user
      /\ task[t].writes = <<"userId">> =>
            task'[t].pc = "post" /\ task'[t].result = "success" /\ task'[t].writes = <<>>
      /\ task[t].writes # <<"userId">> =>
            task'[t].pc = "store" /\ task'[t].writes = <<"userId">>
  <2>1. CASE task[t].writes = <<"userId">>
    <3>1. task' = [task EXCEPT ![t].pc = "post", ![t].result = "success",
                               ![t].writes = <<>>]
      BY <2>1 DEF Store
    <3>2. task'[t] = [task[t] EXCEPT !.pc = "post", !.result = "success", !.writes = <<>>]
      BY <1>0, <3>1
    <3> QED BY <1>0, <2>1, <3>2 DEF TaskState
  <2>2. CASE task[t].writes = <<"token", "userId">>
    <3>1. task' = [task EXCEPT ![t].writes = <<"userId">>]
      BY <2>2 DEF Store
    <3>2. task'[t] = [task[t] EXCEPT !.writes = <<"userId">>]
      BY <1>0, <3>1
    <3> QED BY <1>0, <2>2, <3>2, Lists DEF TaskState
  <2> QED BY <1>0, <1>2, <2>1, <2>2, WritesLeft
<1>6. task'[t].live = task[t].live
  <2>1. CASE task' = [task EXCEPT ![t].pc = "post", ![t].result = "success",
                                  ![t].writes = <<>>]
    <3>1. task'[t] = [task[t] EXCEPT !.pc = "post", !.result = "success", !.writes = <<>>]
      BY <1>0, <2>1
    <3> QED BY <1>0, <3>1 DEF TaskState
  <2>2. CASE task' = [task EXCEPT ![t].writes = Tail(task[t].writes)]
    <3>1. task'[t] = [task[t] EXCEPT !.writes = Tail(task[t].writes)]
      BY <1>0, <2>2
    <3> QED BY <1>0, <3>1 DEF TaskState
  <2> QED BY <2>1, <2>2 DEF Store
<1>7. /\ task[t].writes = <<"userId">> =>
            prefs'.userId = task[t].user /\ prefs'.token = prefs.token
      /\ task[t].writes # <<"userId">> =>
            task[t].op = "login" /\ prefs'.token = task[t].user
  <2>1. CASE task[t].writes = <<"userId">>
    <3>1. prefs' = [prefs EXCEPT !["userId"] = task[t].user]
      BY <2>1 DEF Store
    <3> QED BY <1>0, <2>1, <3>1 DEF Session
  <2>2. CASE task[t].writes = <<"token", "userId">> /\ task[t].op = "login"
    <3>1. prefs' = [prefs EXCEPT !["token"] = task[t].user]
      BY <2>2 DEF Store
    <3> QED BY <1>0, <2>2, <3>1, Lists DEF Session
  <2> QED BY <1>0, <1>2, <2>1, <2>2, WritesLeft
<1>8. task[t].op = "login" /\ task[t].writes = <<"userId">> /\ ~tainted'
      => prefs.token = task[t].user
  BY <1>0, <1>2, <1>3 DEF TaskOK, Signed
<1>9. task[t].op = "login" /\ ~tainted' => prefs'.token = task[t].user
  BY <1>7, <1>8
<1>10. task[t].op \in {"login", "register"}
  BY <1>0 DEF TaskState
<1>11. task[t].op = "register" => task[t].writes = <<"userId">>
  BY <1>7
<1>12. (\A x \in Task : TaskOK(x))'
  <2>1. TaskOK(t)'
    BY <1>1, <1>2, <1>5, <1>6, <1>9, <1>11, Lists DEF TaskOK
  <2>2. ASSUME NEW x \in Task, x # t PROVE TaskOK(x)'
    <3>1. TaskOK(x) /\ task'[x] = task[x]
      BY <1>1, <2>2 DEF AppInv
    <3>2. ~tainted' => ~task'[x].live
      BY <1>4, <2>2, <3>1
    <3> QED BY <1>1, <3>1, <3>2 DEF TaskOK
  <2> QED BY <2>1, <2>2
<1>13. LiveOK'
  BY <1>1, <1>6 DEF AppInv, LiveOK
<1>14. Top = "register" /\ ~tainted => prefs.token = None
  BY DEF AppInv, ScreenOK
<1>15. ScreenOK'
  <2>1. Top = "register" /\ ~tainted' => prefs'.token = None
    BY <1>3, <1>7, <1>11, <1>14
  <2>2. ~tainted' => Top # "welcome" /\ vm'.value # "success"
    BY <1>1, <1>3, <1>10
  <2> QED BY <1>1, <2>1, <2>2 DEF AppInv, ScreenOK, OnCeremony
<1>16. HomeShowsSession'
  BY <1>1, <1>3, <1>10 DEF HomeShowsSession
<1>17. TokenMatchesUser'
  <2>1. SUFFICES ASSUME ~tainted', ~Midway', prefs'.token # None
                 PROVE  prefs'.token = prefs'.userId
    BY DEF TokenMatchesUser
  <2>2. task[t].writes = <<"userId">>
    BY <1>5, <1>7, <2>1 DEF Midway
  <2>3. task[t].op = "login"
    BY <1>3, <1>7, <1>10, <1>14, <2>1, <2>2
  <2> QED BY <1>7, <1>8, <2>1, <2>2, <2>3
<1> QED BY <1>12, <1>13, <1>15, <1>16, <1>17 DEF AppInv

LEMMA AppNext ==
    ASSUME TypeOK, AppInv, [Next]_vars PROVE AppInv'
<1>1. CASE UserActs \/ Observe \/ Lifecycle \/ Persist
  BY <1>1, ScreenKeeps
<1>2. CASE \E t \in Task : Run(t)
  BY <1>2, StoreKeeps, QuietKeeps
<1>3. CASE UNCHANGED vars
  <2>1. UNCHANGED <<stack, vm, enabled, home, prefs, task, tainted>> /\ Top' = Top
    BY <1>3 DEF vars, Top
  <2>2. (\A t \in Task : TaskOK(t))'
    BY <2>1 DEF AppInv, TaskOK, Signed
  <2>3. LiveOK' /\ ScreenOK' /\ HomeShowsSession'
    BY <2>1 DEF AppInv, LiveOK, ScreenOK, HomeShowsSession, OnCeremony
  <2>4. TokenMatchesUser'
    BY <2>1, WorkKept, SessionKept
  <2> QED BY <2>2, <2>3, <2>4 DEF AppInv
<1> QED BY <1>1, <1>2, <1>3 DEF Next

LEMMA AppInit == Init => TypeOK /\ AppInv
<1> SUFFICES ASSUME Init PROVE TypeOK /\ AppInv
  OBVIOUS
<1>1. /\ NoTask.pc = "idle" /\ NoTask.writes = <<>> /\ NoTask.live = FALSE
      /\ NoUser.token = None /\ NoState.value = "none"
  BY DEF NoTask, NoUser, NoState
<1>2. \A t \in Task : task[t] = NoTask
  BY DEF Init
<1>3. TypeOK
  BY EmptyTypes DEF Init, TypeOK, TaskState
<1>4. (\A t \in Task : TaskOK(t)) /\ LiveOK
  BY <1>1, <1>2, Lists DEF TaskOK, LiveOK
<1>5. ScreenOK /\ TokenMatchesUser /\ HomeShowsSession
  BY <1>1 DEF Init, Top, ScreenOK, TokenMatchesUser, HomeShowsSession
<1> QED BY <1>3, <1>4, <1>5 DEF AppInv

----------------------------------------------------------------------------
(* Theorems. *)

\* Every variable of the app has its type, and the invariant holds, whatever the
\* user, the phone and the coroutines do.
THEOREM AppInvariance == Spec => [](TypeOK /\ AppInv)
<1>1. TypeOK /\ AppInv /\ [Next]_vars => (TypeOK /\ AppInv)'
  BY TypeNext, AppNext DEF AppInv
<1> QED BY <1>1, AppInit, PTL DEF Spec

\* Types, as MCMobileApp checks them.
THEOREM AppTypes == Spec => []TypeOK
  BY AppInvariance, PTL

\* The stored token is the stored user's, but between a login's two writes, unless
\* a cancelled coroutine wrote or the process died with writes under way.
THEOREM TokenIsTheUsers == Spec => []TokenMatchesUser
<1>1. AppInv => TokenMatchesUser
  BY DEF AppInv
<1> QED BY <1>1, AppInvariance, PTL

\* Home shows what is stored: nothing is written while Home is on top.
THEOREM HomeIsCurrent == Spec => []HomeShowsSession
<1>1. AppInv => HomeShowsSession
  BY DEF AppInv
<1> QED BY <1>1, AppInvariance, PTL

\* At most one coroutine may still end on the screen, however many there are.
THEOREM CeremoniesAreAlone == Spec => []OneCeremony
<1>1. AppInv => OneCeremony
  BY DEF AppInv, LiveOK, OneCeremony
<1> QED BY <1>1, AppInvariance, PTL

\* A screen that shows Home because a token is stored shows that token.
LEMMA HomeWithToken ==
    ASSUME NEW s \in Stacks, NEW v, Show(s, v), Topmost(s) # "home", Top' = "home"
    PROVE  home'.token # None
<1>1. Topmost(s) = "welcome" /\ v.token # None /\ home' = v
  BY ShowStep
<1> QED BY <1>1

\* Home is entered signed out only after a registration that succeeded: Welcome goes
\* on to Home only with a token, and a login has stored its token before it succeeds.
THEOREM HomeOnlyAfterRegistering == Spec => HomeIsEarned
<1>1. ASSUME TypeOK, AppInv, Next, Top' = "home", Top # "home", home'.token = None, ~tainted
      PROVE  Top = "register" /\ vm.value = "success"
  <2>1. CASE OpenCeremony
    <3>1. PICK screen \in {"login", "register"} : stack' = <<"welcome", screen>>
      BY <2>1 DEF OpenCeremony
    <3>2. stack' = <<"welcome", "login">> \/ stack' = <<"welcome", "register">>
      BY <3>1
    <3> QED BY <1>1, <3>2, StackOfTop, TopIsTopmost DEF Stacks
  <2>2. CASE TapCeremony \/ ObserveState \/ Stop \/ Start \/ Persist
    BY <1>1, <2>2 DEF TapCeremony, ObserveState, Stop, Start, Persist, Top
  <2>3. CASE \E t \in Task : Run(t)
    BY <1>1, <2>3, OwnStep
  <2>4. CASE Logout \/ Revoke
    BY <1>1, <2>4 DEF Logout, Revoke
  <2>5. CASE Back \/ Crash
    <3>1. CASE stack' = <<>>
      BY <1>1, <3>1 DEF Top
    <3>2. CASE Show(<<"welcome">>, prefs)
      BY <1>1, <3>2, TopOf, HomeWithToken
    <3> QED BY <2>5, <3>1, <3>2 DEF Back, Crash
  <2>6. CASE ObserveSuccess
    <3>1. vm.value = "success" /\ Show(<<"home">>, prefs)
      BY <2>6 DEF ObserveSuccess
    <3>2. home' = prefs
      BY <1>1, <3>1, TopOf, ShowStep
    <3>3. Top \in {"login", "register"}
      BY <1>1, <3>1 DEF AppInv, ScreenOK, OnCeremony
    <3>4. Top # "login"
      BY <1>1, <3>1, <3>2 DEF AppInv, ScreenOK
    <3> QED BY <3>1, <3>3, <3>4
  <2>7. CASE Rotate \/ KillAndReturn
    <3>1. Show(stack, prefs) \/ Show(stack, disk)
      BY <2>7 DEF Rotate, KillAndReturn
    <3> QED BY <1>1, <3>1, TopOf, HomeWithToken
  <2>8. CASE Launch
    <3>1. Show(<<"welcome">>, prefs)
      BY <2>8 DEF Launch
    <3> QED BY <1>1, <3>1, TopOf, HomeWithToken
  <2> QED BY <1>1, <2>1, <2>2, <2>3, <2>4, <2>5, <2>6, <2>7, <2>8
          DEF Next, UserActs, Observe, Lifecycle
<1>2. UNCHANGED vars => Top' = Top
  BY DEF vars, Top
<1>3. TypeOK /\ AppInv /\ [Next]_vars
      => [Top' = "home" /\ Top # "home" /\ home'.token = None /\ ~tainted
          => Top = "register" /\ vm.value = "success"]_vars
  BY <1>1, <1>2
<1> QED BY <1>3, AppInvariance, PTL DEF Spec, HomeIsEarned
=============================================================================
