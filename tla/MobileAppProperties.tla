------------------------- MODULE MobileAppProperties -------------------------
(***************************************************************************)
(* What the app promises about the session it keeps and shows.             *)
(***************************************************************************)
EXTENDS MobileApp

\* A coroutine that has stored the token and not yet the user it belongs to.
Midway == \E t \in Task : task[t].writes = <<"userId">> /\ task[t].op = "login"

\* The stored token is the stored user's, although they are two preferences
\* written one after the other, a registration writes the user alone, and nothing
\* in AuthRepository removes an old token: only the way the screens lead keeps a
\* registration from a signed-in phone.  A cancelled coroutine that still writes,
\* or a crash before both writes are on disk, breaks it.
TokenMatchesUser ==
    prefs.token # None /\ ~Midway /\ ~tainted => prefs.token = prefs.userId

\* Home shows the session that is stored, not one read before it changed.
HomeShowsSession == Top = "home" /\ ~tainted => home = prefs

\* One ceremony at a time: a disabled button, a view model that outlives its view
\* and a scope that dies with the screen together leave no two coroutines that
\* may both end on the same screen.
OneCeremony ==
    \A t1, t2 \in Task :
        task[t1].pc # "idle" /\ task[t1].live /\ task[t2].pc # "idle" /\ task[t2].live
        => t1 = t2

\* Home is entered signed out only from a registration that succeeded: a
\* registration stores no token, and every other way to Home needs one.
HomeIsEarned ==
    [][Top' = "home" /\ Top # "home" /\ home'.token = None /\ ~tainted
       => Top = "register" /\ vm.value = "success"]_vars

\* The button comes back: whatever becomes of the call and the prompt, and whatever
\* the phone does to the screen meanwhile, Loading does not stay for good on a
\* screen the user keeps coming back to.
LoadingEnds ==
    []<>started => ((OnCeremony /\ ~enabled) ~> (~OnCeremony \/ (enabled /\ vm.shown)))

\* HomeFragment.kt:52 - revoking removes the passkey from the device, and the user
\* has to register again: no login of the user gets through before that.
RevokedMustRegister ==
    \A t \in Task : task[t].pc = "store" /\ task[t].op = "login"
                    => task[t].user \notin revoked
=============================================================================
