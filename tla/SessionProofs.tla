--------------------------- MODULE SessionProofs ---------------------------
(***************************************************************************)
(* What a tab shows of who is signed in, for any number of tabs, calls,     *)
(* names and acts of the user.                                              *)
(***************************************************************************)
EXTENDS Session, TLAPS

TabStates == [page : Pages, past : Seq(Pages), user : Names \cup {None}, loading : BOOLEAN,
              due : BOOLEAN, doubt : BOOLEAN]
CallStates == [Ids -> Calls \cup {None}]

SessionTyped ==
    /\ complete \in BOOLEAN /\ jar \in BOOLEAN
    /\ profile \in Names \cup {None}
    /\ tab \in [Tabs -> TabStates]
    /\ calls \in CallStates

Served(c) == c.res # "asked"

\* A token is given out when the setup is complete, and then the administrator has a name.
SetUp == (jar => complete) /\ (complete => profile \in Names)

\* What a call that nothing overtook knows: while a question with a token is under way the
\* cookie stays, and an answer names who the administrator is now.
CallTrue(c, cookie) ==
    /\ c.kind \in {"setup", "profile"} => c.arg \in Names
    /\ c.token => complete
    /\ c.kind \in {"login", "setup"} /\ Served(c) => complete
    /\ c.kind \in {"me", "refresh"} =>
        /\ Served(c) => c.token
        /\ c.token /\ c.fresh => cookie
    /\ c.kind \in {"me", "refresh", "login"} /\ Served(c) =>
        /\ c.res \in Names
        /\ c.fresh => c.res = profile
    /\ c.kind = "profile" /\ Served(c) /\ c.fresh => c.arg = profile
CallsTrue(cs, cookie) == \A i \in Ids : cs[i] # None => CallTrue(cs[i], cookie)

\* Tab t is about to be told a name that it asked to store, and that is stored.
HasSaved(t, cs) ==
    \E i \in Ids : /\ cs[i] # None /\ cs[i].tab = t
                   /\ cs[i].kind = "profile" /\ Served(cs[i])
TabTrue(T, t, cookie, cs) ==
    T.user # None /\ ~T.doubt => cookie /\ (T.user = profile \/ HasSaved(t, cs))
TabsTrue == \A t \in Tabs : TabTrue(tab[t], t, jar, calls)

\* ShownIsTrue is not inductive: it says nothing of the answers under way.
SessionInv == SessionTyped /\ SetUp /\ CallsTrue(calls, jar) /\ TabsTrue

-----------------------------------------------------------------------------
(* Rendering, asking, and an answer that comes back.                        *)

\* Rendering decides on the effect of the home page and on nothing else.
LEMMA RenderedTab ==
    ASSUME NEW old, NEW T \in TabStates
    PROVE  /\ Rendered(old, T) \in TabStates
           /\ Rendered(old, T).user = T.user /\ Rendered(old, T).doubt = T.doubt
  <1>1. (T.page = "home" /\ (T.due \/ LooksAgain(old, T))) \in BOOLEAN
    OBVIOUS
  <1> QED
    BY <1>1 DEF Rendered, TabStates

\* Two calls that differ in whether the component that asked is mounted, at most.
Similar(c, d) ==
    /\ c = None <=> d = None
    /\ c # None => /\ c.tab = d.tab /\ c.kind = d.kind /\ c.arg = d.arg
                   /\ c.token = d.token /\ c.res = d.res /\ c.fresh = d.fresh

\* A page that is left takes its forms along, and no call changes otherwise.
LEMMA UnmountedCalls ==
    ASSUME NEW cs \in CallStates, NEW old, NEW T, NEW t
    PROVE  /\ Unmounted(old, T, t, cs) \in CallStates
           /\ \A i \in Ids : Similar(Unmounted(old, T, t, cs)[i], cs[i])
  <1>1. \A c \in Calls : [c EXCEPT !.here = FALSE] \in Calls
    BY DEF Calls
  <1>2. None \notin Calls
    BY SessionAssumption
  <1> DEFINE U == Unmounted(old, T, t, cs)
  <1>3. \A j \in Ids : \/ U[j] = cs[j]
                       \/ cs[j] # None /\ U[j] = [cs[j] EXCEPT !.here = FALSE]
    BY DEF Unmounted
  <1>4. U = [j \in Ids |-> U[j]]
    BY DEF Unmounted
  <1>5. \A j \in Ids : U[j] \in Calls \cup {None}
    BY <1>1, <1>3 DEF CallStates
  <1>6. U \in CallStates
    BY <1>4, <1>5 DEF CallStates
  <1>7. ASSUME NEW i \in Ids PROVE Similar(U[i], cs[i])
    <2>1. CASE U[i] = cs[i]
      BY <2>1 DEF Similar
    <2>2. CASE cs[i] # None /\ U[i] = [cs[i] EXCEPT !.here = FALSE]
      <3>1. cs[i] \in Calls
        BY <2>2 DEF CallStates
      <3> QED
        BY <1>1, <1>2, <2>2, <3>1 DEF Calls, Similar
    <2> QED
      BY <1>3, <2>1, <2>2
  <1> QED
    BY <1>6, <1>7

\* The pages that are left change nothing that the invariant is about.
LEMMA UnmountedKeeps ==
    ASSUME NEW cs \in CallStates, NEW old, NEW T, NEW t
    PROVE  /\ \A cookie : CallsTrue(cs, cookie) => CallsTrue(Unmounted(old, T, t, cs), cookie)
           /\ \A u : HasSaved(u, cs) => HasSaved(u, Unmounted(old, T, t, cs))
  <1> DEFINE U == Unmounted(old, T, t, cs)
  <1>1. \A i \in Ids : Similar(U[i], cs[i])
    BY UnmountedCalls
  <1> HIDE DEF U
  <1>2. ASSUME NEW cookie, CallsTrue(cs, cookie) PROVE CallsTrue(U, cookie)
    BY <1>1, <1>2 DEF CallsTrue, CallTrue, Served, Similar
  <1>3. ASSUME NEW u, HasSaved(u, cs) PROVE HasSaved(u, U)
    BY <1>1, <1>3 DEF HasSaved, Served, Similar
  <1> QED
    BY <1>2, <1>3 DEF U

\* A tab renders, the cookie and the administrator are as they were.
LEMMA RendersInv ==
    ASSUME SessionInv, UNCHANGED <<complete, profile, jar>>,
           NEW t \in Tabs, NEW T \in TabStates, NEW cs \in CallStates, Renders(t, T, cs),
           CallsTrue(cs, jar), TabTrue(T, t, jar, cs),
           \A u \in Tabs \ {t} : HasSaved(u, calls) => HasSaved(u, cs)
    PROVE  SessionInv'
  <1>1. calls' \in CallStates /\ CallsTrue(calls', jar)
        /\ \A u : HasSaved(u, cs) => HasSaved(u, calls')
    BY UnmountedCalls, UnmountedKeeps DEF Renders
  <1>2. tab \in [Tabs -> TabStates]
    BY DEF SessionInv, SessionTyped
  <1>3. /\ tab' \in [Tabs -> TabStates]
        /\ tab'[t].user = T.user /\ tab'[t].doubt = T.doubt
        /\ \A u \in Tabs \ {t} : tab'[u] = tab[u]
    BY <1>2, RenderedTab DEF Renders
  <1>4. SessionTyped'
    BY <1>1, <1>3 DEF SessionInv, SessionTyped, CallStates, Calls, Ids
  <1>5. CallsTrue(calls, jar)'
    BY <1>1 DEF CallsTrue, CallTrue, Served
  <1>6. TabTrue(tab[t], t, jar, calls)'
    BY <1>1, <1>3 DEF TabTrue, HasSaved, Served
  <1>7. ASSUME NEW u \in Tabs \ {t} PROVE TabTrue(tab[u], u, jar, calls)'
    <2>1. TabTrue(tab[u], u, jar, calls)
      BY DEF SessionInv, TabsTrue
    <2>2. HasSaved(u, calls) => HasSaved(u, calls')
      BY <1>1
    <2> QED
      BY <1>3, <2>1, <2>2 DEF TabTrue, HasSaved, Served
  <1>8. SetUp'
    BY DEF SessionInv, SetUp
  <1> QED
    BY <1>4, <1>5, <1>6, <1>7, <1>8 DEF SessionInv, TabsTrue

\* A new call knows nothing yet.
LEMMA NewCall ==
    ASSUME SessionInv, NEW t \in Tabs, NEW arg \in Names \cup {None},
           NEW kind \in Forms \cup {"me", "status", "logout"},
           kind \in {"setup", "profile"} => arg \in Names
    PROVE  /\ Call(t, kind, arg) \in Calls
           /\ Call(t, kind, arg) # None
           /\ CallTrue(Call(t, kind, arg), jar)
  <1>1. Call(t, kind, arg) \in Calls
    BY DEF Call, Calls, SessionInv, SessionTyped
  <1>2. CallTrue(Call(t, kind, arg), jar)
    BY DEF Call, CallTrue, Served, SessionInv, SetUp
  <1> QED
    BY <1>1, <1>2, SessionAssumption

\* A call is written where there was none, or where what it overwrites matters to nobody else.
LEMMA Written ==
    ASSUME SessionInv, NEW cs \in CallStates, CallsTrue(cs, jar), NEW i \in Ids, cs[i] = None,
           NEW c \in Calls, c # None, CallTrue(c, jar)
    PROVE  /\ [cs EXCEPT ![i] = c] \in CallStates
           /\ CallsTrue([cs EXCEPT ![i] = c], jar)
           /\ \A u : HasSaved(u, cs) => HasSaved(u, [cs EXCEPT ![i] = c])
  BY DEF CallStates, CallsTrue, HasSaved

\* A tab asks, and shows whom it showed.
LEMMA AskingInv ==
    ASSUME SessionInv, UNCHANGED <<complete, profile, jar>>,
           NEW t \in Tabs, NEW T \in TabStates, NEW arg \in Names \cup {None},
           NEW kind \in Forms \cup {"me", "status", "logout"},
           kind \in {"setup", "profile"} => arg \in Names, Free # {},
           T.user = tab[t].user, T.doubt = tab[t].doubt,
           Renders(t, T, Asking(Call(t, kind, arg)))
    PROVE  SessionInv'
  <1>1. FreeSlot \in Ids /\ calls[FreeSlot] = None
    BY DEF FreeSlot, Free, Outstanding
  <1>2. calls \in CallStates /\ CallsTrue(calls, jar)
    BY DEF SessionInv, SessionTyped, CallStates
  <1> DEFINE cs == Asking(Call(t, kind, arg))
  <1>3. /\ cs \in CallStates /\ CallsTrue(cs, jar)
        /\ \A u : HasSaved(u, calls) => HasSaved(u, cs)
    <2> DEFINE c == Call(t, kind, arg)
    <2>1. c \in Calls /\ c # None /\ CallTrue(c, jar)
      BY NewCall
    <2>2. cs = [calls EXCEPT ![FreeSlot] = c]
      BY DEF Asking
    <2> HIDE DEF c, cs
    <2> QED
      BY <1>1, <1>2, <2>1, <2>2, Written
  <1> HIDE DEF cs
  <1>4. TabTrue(T, t, jar, cs)
    BY <1>3 DEF SessionInv, TabsTrue, TabTrue
  <1> QED
    BY <1>3, <1>4, RendersInv DEF cs

\* A tab renders something else, and shows whom it showed.
LEMMA MovingInv ==
    ASSUME SessionInv, UNCHANGED <<complete, profile, jar>>,
           NEW t \in Tabs, NEW T \in TabStates,
           T.user = tab[t].user, T.doubt = tab[t].doubt, Renders(t, T, calls)
    PROVE  SessionInv'
  <1>1. calls \in CallStates /\ CallsTrue(calls, jar)
    BY DEF SessionInv, SessionTyped, CallStates
  <1>2. TabTrue(T, t, jar, calls)
    BY DEF SessionInv, TabsTrue, TabTrue
  <1> QED
    BY <1>1, <1>2, RendersInv

-----------------------------------------------------------------------------
(* The user and the effects.                                                *)

\* Where a tab goes changes nothing but where it is and was.
LEMMA Moves ==
    ASSUME NEW T \in TabStates, NEW p \in Pages
    PROVE  /\ Replace(T, p) \in TabStates /\ Push(T, p) \in TabStates
           /\ Replace(T, p).user = T.user /\ Push(T, p).user = T.user
           /\ Replace(T, p).doubt = T.doubt /\ Push(T, p).doubt = T.doubt
  <1>1. Append(T.past, T.page) \in Seq(Pages)
    BY DEF TabStates
  <1> QED
    BY <1>1 DEF Replace, Push, TabStates

\* A tab is a tab.
LEMMA TabTyped == ASSUME SessionInv, NEW t \in Tabs PROVE tab[t] \in TabStates
  BY DEF SessionInv, SessionTyped

\* A form is submitted.
LEMMA SubmitsInv ==
    ASSUME SessionInv, NEW t \in Tabs, NEW kind \in Forms, NEW arg \in Names \cup {None},
           kind \in {"setup", "profile"} => arg \in Names, Submits(t, kind, arg)
    PROVE  SessionInv'
  BY TabTyped, AskingInv DEF Submits, Act

\* What was in the tab is gone with its calls, and nobody is shown until an answer.
LEMMA OpenInv == ASSUME SessionInv, NEW t \in Tabs, NEW p \in Pages, Open(t, p) PROVE SessionInv'
  <1> DEFINE kept == [i \in Ids |-> IF i \in Of(t) THEN None ELSE calls[i]]
             i == CHOOSE j \in Ids : kept[j] = None
             c == Call(t, "me", None)
  <1>1. i \in Ids /\ kept[i] = None
    BY DEF Open
  <1>2. c \in Calls /\ c # None /\ CallTrue(c, jar)
    BY NewCall
  <1>3. calls \in CallStates /\ CallsTrue(calls, jar)
    BY DEF SessionInv, SessionTyped, CallStates
  <1>4. kept \in CallStates /\ CallsTrue(kept, jar)
    BY <1>3 DEF CallStates, CallsTrue
  <1>5. \A u \in Tabs \ {t} : HasSaved(u, calls) => HasSaved(u, kept)
    BY DEF HasSaved, Of, Outstanding
  <1>6. /\ calls' = [kept EXCEPT ![i] = c] /\ tab' = [tab EXCEPT ![t] = Loaded(p)]
        /\ UNCHANGED <<complete, profile, jar>>
    BY DEF Open, Act
  <1>7. Loaded(p) \in TabStates /\ Loaded(p).user = None
    <2>1. <<>> \in Seq(Pages) /\ (p = "home") \in BOOLEAN
      OBVIOUS
    <2> QED
      BY <2>1 DEF Loaded, TabStates
  <1> HIDE DEF kept, i, c
  <1>8. /\ calls' \in CallStates /\ CallsTrue(calls', jar)
        /\ \A u \in Tabs \ {t} : HasSaved(u, calls) => HasSaved(u, calls')
    BY <1>1, <1>2, <1>4, <1>5, <1>6, Written
  <1>9. SessionTyped'
    BY <1>6, <1>7, <1>8 DEF SessionInv, SessionTyped, CallStates
  <1>10. CallsTrue(calls, jar)'
    BY <1>6, <1>8 DEF CallsTrue, CallTrue, Served
  <1>11. TabsTrue'
    BY <1>6, <1>7, <1>8 DEF SessionInv, SessionTyped, TabsTrue, TabTrue, HasSaved, Served
  <1> QED
    BY <1>6, <1>9, <1>10, <1>11 DEF SessionInv, SetUp

\* Whatever the user does keeps the invariant.
LEMMA UserInv == ASSUME SessionInv, NEW t \in Tabs, UserActs(t) PROVE SessionInv'
  <1> USE TabTyped
  <1>1. CASE LoginSubmit(t)
    BY <1>1, SubmitsInv DEF LoginSubmit, Forms
  <1>2. ASSUME NEW name \in Names, SetupSubmit(t, name) PROVE SessionInv'
    BY <1>2, SubmitsInv DEF SetupSubmit, Forms
  <1>3. ASSUME NEW name \in Names, HandleProfileSave(t, name) PROVE SessionInv'
    BY <1>3, SubmitsInv DEF HandleProfileSave, Forms
  <1>4. CASE SignOut(t)
    <2>1. "login" \in Pages
      BY DEF Pages
    <2> DEFINE T == Replace(tab[t], "login")
    <2>2. T \in TabStates /\ T.user = tab[t].user /\ T.doubt = tab[t].doubt
      BY <2>1, Moves
    <2>3. Free # {} /\ Renders(t, T, Asking(Call(t, "logout", None)))
          /\ UNCHANGED <<complete, profile, jar>>
      BY <1>4 DEF SignOut, Act
    <2> HIDE DEF T
    <2> QED
      BY <2>2, <2>3, AskingInv
  <1>5. ASSUME NEW p \in Dashboard, Link(t, p) PROVE SessionInv'
    BY <1>5, Moves, MovingInv DEF Link, Act, Pages
  <1>6. CASE Back(t)
    <2> DEFINE past == tab[t].past
               T == [tab[t] EXCEPT !.page = Last(past), !.past = Front(past)]
    <2>1. past \in Seq(Pages) /\ past # <<>>
      BY <1>6 DEF Back, TabStates
    <2>2. Last(past) \in Pages /\ Front(past) \in Seq(Pages)
      BY <2>1 DEF Last, Front
    <2>3. T \in TabStates /\ T.user = tab[t].user /\ T.doubt = tab[t].doubt
      BY <2>2 DEF TabStates
    <2> QED
      BY <1>6, <2>3, MovingInv DEF Back, Act
  <1>7. ASSUME NEW p \in Pages, Open(t, p) PROVE SessionInv'
    BY <1>7, OpenInv
  <1> QED
    BY <1>1, <1>2, <1>3, <1>4, <1>5, <1>6, <1>7 DEF UserActs

\* The redirects of the layout and the home page show nobody else.
LEMMA EffectsInv == ASSUME SessionInv, Effects PROVE SessionInv'
  <1> USE TabTyped
  <1>1. ASSUME NEW t \in Tabs, LayoutEffect(t) PROVE SessionInv'
    <2>1. "login" \in Pages
      BY DEF Pages
    <2> QED
      BY <1>1, <2>1, Moves, MovingInv DEF LayoutEffect
  <1>2. ASSUME NEW t \in Tabs, HomeEffect(t) PROVE SessionInv'
    <2>1. FreeSlot \in Ids /\ calls[FreeSlot] = None
      BY <1>2 DEF HomeEffect, FreeSlot, Free, Outstanding
    <2> DEFINE c == Call(t, "status", tab[t].user)
    <2>2. c \in Calls /\ c # None /\ CallTrue(c, jar)
      BY NewCall DEF TabStates
    <2>3. calls \in CallStates /\ CallsTrue(calls, jar)
      BY DEF SessionInv, SessionTyped, CallStates
    <2>4. calls' = [calls EXCEPT ![FreeSlot] = c]
      BY <1>2 DEF HomeEffect, Asking
    <2> HIDE DEF c
    <2>5. /\ calls' \in CallStates /\ CallsTrue(calls', jar)
          /\ \A u : HasSaved(u, calls) => HasSaved(u, calls')
      BY <2>1, <2>2, <2>3, <2>4, Written
    <2>6. /\ tab' \in [Tabs -> TabStates]
          /\ \A u \in Tabs : tab'[u].user = tab[u].user /\ tab'[u].doubt = tab[u].doubt
      BY <1>2 DEF HomeEffect, SessionInv, SessionTyped, TabStates
    <2>7. UNCHANGED <<complete, profile, jar>>
      BY <1>2 DEF HomeEffect
    <2>8. SessionTyped'
      BY <2>5, <2>6, <2>7 DEF SessionInv, SessionTyped, CallStates
    <2>9. CallsTrue(calls, jar)'
      BY <2>5, <2>7 DEF CallsTrue, CallTrue, Served
    <2>10. ASSUME NEW u \in Tabs PROVE TabTrue(tab[u], u, jar, calls)'
      <3>1. TabTrue(tab[u], u, jar, calls)
        BY DEF SessionInv, TabsTrue
      <3>2. HasSaved(u, calls) => HasSaved(u, calls')
        BY <2>5
      <3> QED
        BY <2>6, <2>7, <3>1, <3>2 DEF TabTrue, HasSaved, Served
    <2> QED
      BY <2>7, <2>8, <2>9, <2>10 DEF SessionInv, SetUp, TabsTrue
  <1> QED
    BY <1>1, <1>2 DEF Effects

-----------------------------------------------------------------------------
(* The backend.                                                             *)

\* A call that is given an answer the invariant allows.
LEMMA GivesInv ==
    ASSUME SessionInv, NEW i \in Outstanding, calls[i].res = "asked",
           NEW res \in Names \cup {"done", "complete", "incomplete"},
           calls[i].kind # "profile", UNCHANGED <<complete, profile, jar, tab>>, Gives(i, res),
           CallTrue([calls[i] EXCEPT !.res = res], jar)
    PROVE  SessionInv'
  <1> DEFINE c == [calls[i] EXCEPT !.res = res]
  <1>1. i \in Ids /\ calls[i] # None /\ calls[i] \in Calls /\ calls \in CallStates
    BY DEF Outstanding, SessionInv, SessionTyped, CallStates
  <1>2. c \in Calls /\ c # None
    BY <1>1, SessionAssumption DEF Calls
  <1>3. calls' = [calls EXCEPT ![i] = c] /\ CallTrue(c, jar)
    BY DEF Gives
  <1> HIDE DEF c
  <1>4. calls' \in CallStates
    BY <1>1, <1>2, <1>3 DEF CallStates
  <1>5. CallsTrue(calls, jar)'
    BY <1>1, <1>3 DEF SessionInv, CallsTrue, CallTrue, Served, CallStates
  <1>6. \A u : HasSaved(u, calls) => HasSaved(u, calls')
    BY <1>1, <1>3 DEF HasSaved, Served, CallStates
  <1>7. TabsTrue'
    <2>1. ASSUME NEW u \in Tabs PROVE TabTrue(tab[u], u, jar, calls)'
      <3>1. TabTrue(tab[u], u, jar, calls) /\ (HasSaved(u, calls) => HasSaved(u, calls'))
        BY <1>6 DEF SessionInv, TabsTrue
      <3> QED
        BY <3>1 DEF TabTrue, HasSaved, Served
    <2> QED
      BY <2>1 DEF TabsTrue
  <1> QED
    BY <1>4, <1>5, <1>7 DEF SessionInv, SessionTyped, SetUp, CallStates

\* Doubt adds to doubt.
LEMMA DoubtedTabs ==
    ASSUME NEW tabs \in [Tabs -> TabStates], NEW t
    PROVE  /\ Doubted(tabs, t) \in [Tabs -> TabStates]
           /\ \A u \in Tabs :
                /\ Doubted(tabs, t)[u].user = tabs[u].user
                /\ Doubted(tabs, t)[u].doubt = (tabs[u].doubt \/ (u # t /\ tabs[u].user # None))
  <1>1. ASSUME NEW u \in Tabs
        PROVE  (tabs[u].doubt \/ (u # t /\ tabs[u].user # None)) \in BOOLEAN
    BY DEF TabStates
  <1>2. ASSUME NEW u \in Tabs, NEW b \in BOOLEAN
        PROVE  LET T == [tabs[u] EXCEPT !.doubt = b] IN
               T \in TabStates /\ T.user = tabs[u].user /\ T.doubt = b
    BY DEF TabStates
  <1>3. ASSUME NEW u \in Tabs
        PROVE  LET D == Doubted(tabs, t)[u] IN
               /\ D \in TabStates /\ D.user = tabs[u].user
               /\ D.doubt = (tabs[u].doubt \/ (u # t /\ tabs[u].user # None))
    <2> DEFINE b == tabs[u].doubt \/ (u # t /\ tabs[u].user # None)
    <2>1. Doubted(tabs, t)[u] = [tabs[u] EXCEPT !.doubt = b]
      BY DEF Doubted
    <2>2. b \in BOOLEAN
      BY <1>1
    <2> HIDE DEF b
    <2>3. Doubted(tabs, t)[u] \in TabStates /\ Doubted(tabs, t)[u].user = tabs[u].user
          /\ Doubted(tabs, t)[u].doubt = b
      BY <1>2, <2>1, <2>2
    <2> QED
      BY <2>3 DEF b
  <1>4. Doubted(tabs, t) \in [Tabs -> TabStates]
    <2>1. Doubted(tabs, t) = [u \in Tabs |-> Doubted(tabs, t)[u]]
      BY DEF Doubted
    <2> QED
      BY <1>3, <2>1
  <1> QED
    BY <1>3, <1>4

\* A name is stored.  The tab that asked for it is about to be told; the others that show
\* somebody have their doubts.  When it is the setup's, nobody held a cookie.
LEMMA StoresInv ==
    ASSUME SessionInv, NEW i \in Outstanding, calls[i].res = "asked",
           complete' = TRUE, jar' = jar, calls[i].kind \in {"setup", "profile"},
           calls[i].kind = "setup" => ~complete, Stores(i, calls[i].arg)
    PROVE  SessionInv'
  <1> DEFINE t == calls[i].tab
             c == [calls[i] EXCEPT !.res = "done"]
  <1>1. i \in Ids /\ calls[i] # None /\ calls[i] \in Calls /\ calls \in CallStates
    BY DEF Outstanding, SessionInv, SessionTyped, CallStates
  <1>2. /\ c \in Calls /\ c # None /\ c.tab = t /\ c.kind = calls[i].kind
        /\ c.arg = calls[i].arg /\ c.res = "done" /\ c.token = calls[i].token
    BY <1>1, SessionAssumption DEF Calls
  <1>3. profile' = calls[i].arg /\ profile' \in Names
    BY <1>1 DEF Stores, SessionInv, CallsTrue, CallTrue
  <1>4. calls'[i] = c
    BY <1>1 DEF Stores
  <1>5. ASSUME NEW j \in Ids, j # i
        PROVE  /\ calls'[j] \in Calls \cup {None}
               /\ calls[j] = None => calls'[j] = None
               /\ calls[j] # None =>
                    /\ calls'[j] # None /\ calls'[j].tab = calls[j].tab
                    /\ calls'[j].kind = calls[j].kind /\ calls'[j].arg = calls[j].arg
                    /\ calls'[j].token = calls[j].token /\ calls'[j].res = calls[j].res
                    /\ calls'[j].fresh => calls[j].fresh
                    /\ calls[j].kind \in Telling /\ Served(calls[j]) => ~calls'[j].fresh
    <2>1. CASE calls[j] # None /\ calls[j].kind \in Telling /\ Served(calls[j])
      <3>1. calls'[j] = [calls[j] EXCEPT !.fresh = FALSE]
        BY <1>5, <2>1 DEF Stores, Served
      <3>2. calls[j] \in Calls
        BY <1>1, <2>1 DEF CallStates
      <3>3. [calls[j] EXCEPT !.fresh = FALSE] \in Calls
        BY <3>2 DEF Calls
      <3> QED
        BY ZenonT(60), <2>1, <3>1, <3>2, <3>3, SessionAssumption DEF Calls
    <2>2. CASE ~(calls[j] # None /\ calls[j].kind \in Telling /\ Served(calls[j]))
      <3>1. calls'[j] = calls[j]
        BY <1>5, <2>2 DEF Stores, Served
      <3> QED
        BY <1>1, <2>2, <3>1 DEF CallStates
    <2> QED
      BY <2>1, <2>2
  <1>6. calls' \in CallStates
    <2>1. calls' = [j \in Ids |-> calls'[j]]
      BY DEF Stores
    <2>2. \A j \in Ids : calls'[j] \in Calls \cup {None}
      BY <1>2, <1>4, <1>5
    <2> QED
      BY <2>1, <2>2 DEF CallStates
  <1>7. tab \in [Tabs -> TabStates] /\ tab' = Doubted(tab, t)
    BY DEF Stores, SessionInv, SessionTyped
  <1> HIDE DEF c
  <1>8. /\ tab' \in [Tabs -> TabStates]
        /\ \A u \in Tabs : /\ tab'[u].user = tab[u].user
                           /\ tab'[u].doubt = (tab[u].doubt \/ (u # t /\ tab[u].user # None))
    BY <1>7, DoubtedTabs
  <1>9. SessionTyped'
    BY <1>3, <1>6, <1>8 DEF SessionInv, SessionTyped, CallStates
  <1>10. CallsTrue(calls, jar)'
    <2>1. CallTrue(calls[i], jar)'
      BY <1>2, <1>3, <1>4 DEF CallTrue
    <2>2. ASSUME NEW j \in Ids, j # i, calls'[j] # None PROVE CallTrue(calls[j], jar)'
      <3>1. CallTrue(calls[j], jar)
        BY <1>5, <2>2 DEF SessionInv, CallsTrue
      <3> QED
        BY <1>5, <2>2, <3>1 DEF CallTrue, Served, Telling
    <2> QED
      BY <2>1, <2>2 DEF CallsTrue
  <1>11. ASSUME NEW u \in Tabs, tab'[u].user # None, ~tab'[u].doubt
         PROVE  jar /\ HasSaved(u, calls)'
    <2>1. u = t /\ tab[u].user # None /\ ~tab[u].doubt
      BY <1>8, <1>11
    <2>2. jar /\ complete
      BY <2>1 DEF SessionInv, SetUp, TabsTrue, TabTrue
    <2> QED
      BY <1>1, <1>2, <1>4, <2>1, <2>2 DEF HasSaved, Served
  <1> QED
    BY <1>3, <1>9, <1>10, <1>11 DEF SessionInv, SetUp, TabsTrue, TabTrue

\* Every endpoint keeps the invariant.
LEMMA ServeInv == ASSUME SessionInv, NEW i \in Ids, Serve(i) PROVE SessionInv'
  <1> USE DEF Serves
  <1>1. i \in Outstanding /\ calls[i].res = "asked" /\ calls[i] \in Calls /\ calls[i] # None
        /\ CallTrue(calls[i], jar)
    BY DEF Serve, GetMe, GetSetupStatus, LoginAdmin, LogoutAdmin, SetupAdmin, UpdateProfile,
           SessionInv, SessionTyped, CallStates, Outstanding, CallsTrue
  <1>2. CASE GetMe(i)
    <2>1. complete /\ profile \in Names /\ (calls[i].fresh => jar)
      BY <1>1, <1>2 DEF GetMe, CallTrue, SessionInv, SetUp
    <2>2. CallTrue([calls[i] EXCEPT !.res = profile], jar)
      BY <1>1, <1>2, <2>1 DEF GetMe, CallTrue, Served, Calls
    <2> QED
      BY <1>1, <1>2, <2>1, <2>2, GivesInv DEF GetMe
  <1>3. CASE GetSetupStatus(i)
    <2> DEFINE res == IF complete THEN "complete" ELSE "incomplete"
    <2>1. CallTrue([calls[i] EXCEPT !.res = res], jar)
      BY <1>1, <1>3 DEF GetSetupStatus, CallTrue, Calls
    <2> QED
      BY <1>1, <1>3, <2>1, GivesInv DEF GetSetupStatus
  <1>4. CASE LoginAdmin(i)
    <2>1. profile \in Names
      BY <1>4 DEF LoginAdmin, SessionInv, SetUp
    <2>2. CallTrue([calls[i] EXCEPT !.res = profile], jar)
      BY <1>1, <1>4, <2>1 DEF LoginAdmin, CallTrue, Served, Calls
    <2> QED
      BY <1>1, <1>4, <2>1, <2>2, GivesInv DEF LoginAdmin
  <1>5. CASE LogoutAdmin(i)
    <2>1. CallTrue([calls[i] EXCEPT !.res = "done"], jar)
      BY <1>1, <1>5 DEF LogoutAdmin, CallTrue, Calls
    <2> QED
      BY <1>1, <1>5, <2>1, GivesInv DEF LogoutAdmin
  <1>6. CASE SetupAdmin(i)
    BY <1>1, <1>6, StoresInv DEF SetupAdmin
  <1>7. CASE UpdateProfile(i)
    <2>1. complete' = TRUE
      BY <1>1, <1>7 DEF UpdateProfile, CallTrue, SessionInv, SessionTyped
    <2> QED
      BY <1>1, <1>7, <2>1, StoresInv DEF UpdateProfile
  <1> QED
    BY <1>2, <1>3, <1>4, <1>5, <1>6, <1>7 DEF Serve

-----------------------------------------------------------------------------
(* The answers.                                                             *)

\* When the cookie is gone, the questions who a tab is are overtaken, and nothing else changes.
LEMMA StaleCalls ==
    ASSUME SessionInv, NEW cs \in CallStates, NEW was, CallsTrue(cs, was)
    PROVE  /\ Stale(cs) \in CallStates
           /\ CallsTrue(Stale(cs), FALSE)
           /\ \A u : HasSaved(u, cs) => HasSaved(u, Stale(cs))
  <1>1. ASSUME NEW j \in Ids
        PROVE  /\ Stale(cs)[j] \in Calls \cup {None}
               /\ cs[j] = None => Stale(cs)[j] = None
               /\ cs[j] # None =>
                    LET c == Stale(cs)[j] IN
                    /\ c # None /\ c.tab = cs[j].tab /\ c.kind = cs[j].kind /\ c.arg = cs[j].arg
                    /\ c.token = cs[j].token /\ c.res = cs[j].res
                    /\ c.fresh => cs[j].fresh
                    /\ cs[j].kind \in {"me", "refresh"} => ~c.fresh
    <2>1. CASE cs[j] # None /\ cs[j].kind \in {"me", "refresh"}
      <3>1. Stale(cs)[j] = [cs[j] EXCEPT !.fresh = FALSE] /\ cs[j] \in Calls
        BY <2>1 DEF Stale, CallStates
      <3>2. [cs[j] EXCEPT !.fresh = FALSE] \in Calls
        BY <3>1 DEF Calls
      <3> QED
        BY <2>1, <3>1, <3>2, SessionAssumption DEF Calls
    <2>2. CASE ~(cs[j] # None /\ cs[j].kind \in {"me", "refresh"})
      BY <2>2 DEF Stale, CallStates
    <2> QED
      BY <2>1, <2>2
  <1>2. Stale(cs) = [j \in Ids |-> Stale(cs)[j]]
    BY DEF Stale
  <1>3. Stale(cs) \in CallStates
    BY <1>1, <1>2 DEF CallStates
  <1>4. ASSUME NEW j \in Ids, Stale(cs)[j] # None PROVE CallTrue(Stale(cs)[j], FALSE)
    <2>1. CallTrue(cs[j], was)
      BY <1>1, <1>4 DEF CallsTrue
    <2> QED
      BY <1>1, <1>4, <2>1 DEF CallTrue, Served
  <1>5. ASSUME NEW u, HasSaved(u, cs) PROVE HasSaved(u, Stale(cs))
    BY <1>1, <1>5 DEF HasSaved, Served
  <1> QED
    BY <1>3, <1>4, <1>5 DEF CallsTrue

\* An answer comes: a cookie may be taken over, given up, or left alone.
LEMMA ComesInv ==
    ASSUME SessionInv, NEW i \in Outstanding, NEW cookie \in BOOLEAN, cookie => complete,
           NEW T \in TabStates, NEW cs \in CallStates, Comes(i, cookie, T, cs),
           jar /\ ~cookie => T.user = None,
           CallsTrue(cs, jar \/ cookie), TabTrue(T, calls[i].tab, jar \/ cookie, cs),
           \A u \in Tabs \ {calls[i].tab} : HasSaved(u, calls) => HasSaved(u, cs)
    PROVE  SessionInv'
  <1> DEFINE t == calls[i].tab
             tabs == [tab EXCEPT ![t] = Rendered(@, T)]
             left == Unmounted(tab[t], T, t, cs)
  <1>1. t \in Tabs /\ tab \in [Tabs -> TabStates]
    <2>1. calls[i] \in Calls
      BY DEF Outstanding, SessionInv, SessionTyped, CallStates
    <2> QED
      BY <2>1 DEF Calls, SessionInv, SessionTyped
  <1>2. /\ tabs \in [Tabs -> TabStates]
        /\ tabs[t].user = T.user /\ tabs[t].doubt = T.doubt
        /\ \A u \in Tabs \ {t} : tabs[u] = tab[u]
    BY <1>1, RenderedTab
  <1>3. /\ left \in CallStates /\ CallsTrue(left, jar \/ cookie)
        /\ \A u : HasSaved(u, cs) => HasSaved(u, left)
    BY UnmountedCalls, UnmountedKeeps
  <1>4. /\ jar' = cookie /\ UNCHANGED <<complete, profile>>
        /\ jar /\ ~cookie => tab' = Doubted(tabs, t) /\ calls' = Stale(left)
        /\ ~(jar /\ ~cookie) => tab' = tabs /\ calls' = left
    BY DEF Comes
  <1> HIDE DEF tabs, left
  <1>5. CASE jar /\ ~cookie
    <2>1. /\ calls' \in CallStates /\ CallsTrue(calls', FALSE)
      BY <1>3, <1>4, <1>5, StaleCalls
    <2>2. /\ tab' \in [Tabs -> TabStates]
          /\ \A u \in Tabs : /\ tab'[u].user = tabs[u].user
                             /\ tab'[u].doubt = (tabs[u].doubt \/ (u # t /\ tabs[u].user # None))
      BY <1>2, <1>4, <1>5, DoubtedTabs
    <2>3. \A u \in Tabs : tab'[u].user = None \/ tab'[u].doubt
      BY <1>2, <1>5, <2>2
    <2>4. CallsTrue(calls, jar)'
      BY <1>4, <1>5, <2>1 DEF CallsTrue, CallTrue, Served
    <2> QED
      BY <1>4, <1>5, <2>1, <2>2, <2>3, <2>4
         DEF SessionInv, SessionTyped, SetUp, TabsTrue, TabTrue, CallStates
  <1>6. CASE ~(jar /\ ~cookie)
    <2>1. jar \/ cookie <=> cookie
      BY <1>6 DEF SessionInv, SessionTyped
    <2>2. CallsTrue(calls, jar)'
      BY <1>3, <1>4, <1>6, <2>1 DEF CallsTrue, CallTrue, Served
    <2>3. ASSUME NEW u \in Tabs, u = t PROVE TabTrue(tab[u], u, jar, calls)'
      <3>1. TabTrue(T, u, cookie, cs) /\ (HasSaved(u, cs) => HasSaved(u, left))
        BY <1>3, <2>1, <2>3
      <3>2. /\ calls' = left /\ tab' = tabs /\ jar' = cookie /\ profile' = profile
            /\ tabs[u].user = T.user /\ tabs[u].doubt = T.doubt
        BY <1>2, <1>4, <1>6, <2>3
      <3>3. HasSaved(u, left) => HasSaved(u, calls)'
        BY <3>2 DEF HasSaved, Served
      <3> QED
        BY <3>1, <3>2, <3>3 DEF TabTrue
    <2>4. ASSUME NEW u \in Tabs \ {t} PROVE TabTrue(tab[u], u, jar, calls)'
      <3>1. TabTrue(tab[u], u, jar, calls)
        BY DEF SessionInv, TabsTrue
      <3>2. (HasSaved(u, calls) => HasSaved(u, left)) /\ (jar => cookie)
        BY <1>3, <1>6
      <3>3. calls' = left /\ tab'[u] = tab[u] /\ jar' = cookie /\ profile' = profile
        BY <1>2, <1>4, <1>6
      <3>4. HasSaved(u, left) => HasSaved(u, calls)'
        BY <3>3 DEF HasSaved, Served
      <3> QED
        BY <3>1, <3>2, <3>3, <3>4 DEF TabTrue
    <2>5. SessionTyped'
      BY <1>2, <1>3, <1>4, <1>6 DEF SessionInv, SessionTyped, CallStates
    <2>6. SetUp'
      BY <1>4 DEF SessionInv, SetUp
    <2> QED
      BY <2>2, <2>3, <2>4, <2>5, <2>6 DEF SessionInv, TabsTrue
  <1> QED
    BY <1>5, <1>6

\* A call that has come back is no call any more.
LEMMA Gone ==
    ASSUME SessionInv, NEW i \in Outstanding
    PROVE  /\ i \in Ids /\ calls[i] # None /\ calls[i] \in Calls /\ CallTrue(calls[i], jar)
           /\ calls[i].tab \in Tabs /\ Tab(i) \in TabStates
           /\ TabTrue(Tab(i), calls[i].tab, jar, calls)
           /\ Without(i) \in CallStates
           /\ \A cookie \in BOOLEAN : (jar => cookie) => CallsTrue(Without(i), cookie)
           /\ \A u \in Tabs \ {calls[i].tab} : HasSaved(u, calls) => HasSaved(u, Without(i))
           /\ ~(calls[i].kind = "profile" /\ Served(calls[i])) =>
                  \A u : HasSaved(u, calls) => HasSaved(u, Without(i))
  <1>1. i \in Ids /\ calls[i] # None /\ calls[i] \in Calls /\ calls \in CallStates
    BY DEF Outstanding, SessionInv, SessionTyped, CallStates
  <1>2. calls[i].tab \in Tabs
    BY <1>1 DEF Calls
  <1>3. CallTrue(calls[i], jar) /\ CallsTrue(calls, jar)
    BY <1>1 DEF SessionInv, CallsTrue
  <1>4. Tab(i) \in TabStates /\ TabTrue(Tab(i), calls[i].tab, jar, calls)
    BY <1>2 DEF Tab, SessionInv, SessionTyped, TabsTrue
  <1>5. Without(i) \in CallStates
    BY <1>1 DEF Without, CallStates
  <1>6. \A j \in Ids : j # i => Without(i)[j] = calls[j]
    BY <1>1 DEF Without, CallStates
  <1>7. Without(i)[i] = None
    BY <1>1 DEF Without, CallStates
  <1>8. ASSUME NEW cookie \in BOOLEAN, jar => cookie PROVE CallsTrue(Without(i), cookie)
    <2>1. ASSUME NEW j \in Ids, Without(i)[j] # None PROVE CallTrue(Without(i)[j], cookie)
      <3>1. Without(i)[j] = calls[j] /\ CallTrue(calls[j], jar)
        BY <1>3, <1>6, <1>7, <2>1 DEF CallsTrue
      <3> QED
        BY <1>8, <3>1 DEF CallTrue
    <2> QED
      BY <2>1 DEF CallsTrue
  <1>9. ASSUME NEW u, HasSaved(u, calls),
               u # calls[i].tab \/ ~(calls[i].kind = "profile" /\ Served(calls[i]))
        PROVE  HasSaved(u, Without(i))
    BY <1>6, <1>9 DEF HasSaved
  <1> QED
    BY <1>1, <1>2, <1>3, <1>4, <1>5, <1>8, <1>9

\* A tab that is told who it is, with or without doubt.
LEMMA ToldTab ==
    ASSUME NEW T \in TabStates, NEW u \in Names \cup {None}, NEW fresh \in BOOLEAN
    PROVE  /\ SetUser(T, u, fresh) \in TabStates
           /\ SetUser(T, u, fresh).user = u
           /\ SetUser(T, u, fresh).doubt = (u # None /\ ~fresh)
  <1>1. (u # None /\ ~fresh) \in BOOLEAN /\ (T.due \/ u # None) \in BOOLEAN
    BY DEF TabStates
  <1> QED
    BY <1>1 DEF SetUser, TabStates

\* A tab that is signed out shows nobody.
LEMMA SignedOutTab ==
    ASSUME NEW T \in TabStates
    PROVE  SignedOut(T) \in TabStates /\ SignedOut(T).user = None
  BY ToldTab DEF SignedOut

\* An answer after which the tab shows whom it showed: one that a profile was stored is another
\* matter.
LEMMA OtherInv ==
    ASSUME SessionInv, NEW i \in Outstanding, ~(calls[i].kind = "profile" /\ Served(calls[i])),
           NEW cookie \in BOOLEAN, jar => cookie, cookie => complete,
           NEW T \in TabStates, T.user = Tab(i).user, T.doubt = Tab(i).doubt,
           Comes(i, cookie, T, Without(i))
    PROVE  SessionInv'
  <1>1. TabTrue(T, calls[i].tab, jar \/ cookie, Without(i))
    <2>1. TabTrue(Tab(i), calls[i].tab, jar, calls)
      BY Gone
    <2>2. HasSaved(calls[i].tab, calls) => HasSaved(calls[i].tab, Without(i))
      BY Gone
    <2> QED
      BY <2>1, <2>2 DEF TabTrue
  <1>2. (jar \/ cookie) \in BOOLEAN /\ CallsTrue(Without(i), jar \/ cookie)
    BY Gone
  <1>3. /\ Without(i) \in CallStates
        /\ \A u \in Tabs \ {calls[i].tab} : HasSaved(u, calls) => HasSaved(u, Without(i))
    BY Gone
  <1> QED
    BY <1>1, <1>2, <1>3, ComesInv

\* An answer after which the tab shows nobody, or is right, or has its doubts.
LEMMA NewsInv ==
    ASSUME SessionInv, NEW i \in Outstanding,
           NEW cookie \in BOOLEAN, cookie => complete,
           NEW T \in TabStates, T.user # None /\ ~T.doubt => cookie /\ T.user = profile,
           jar /\ ~cookie => T.user = None, Comes(i, cookie, T, Without(i))
    PROVE  SessionInv'
  <1>1. TabTrue(T, calls[i].tab, jar \/ cookie, Without(i))
    BY DEF TabTrue
  <1>2. (jar \/ cookie) \in BOOLEAN /\ CallsTrue(Without(i), jar \/ cookie)
    BY Gone
  <1>3. /\ Without(i) \in CallStates
        /\ \A u \in Tabs \ {calls[i].tab} : HasSaved(u, calls) => HasSaved(u, Without(i))
    BY Gone
  <1> QED
    BY <1>1, <1>2, <1>3, ComesInv

\* An answer who the tab is.
LEMMA IdentityInv ==
    ASSUME SessionInv, NEW i \in Ids, MeAnswered(i) \/ RefreshAnswered(i) \/ LoginAnswered(i)
    PROVE  SessionInv'
  <1> DEFINE c == calls[i]
             S == SetUser(Tab(i), c.res, c.fresh)
  <1>1. /\ i \in Outstanding /\ Served(c) /\ c.kind \in {"me", "refresh", "login"}
        /\ MeAnswered(i) => c.kind = "me"
        /\ RefreshAnswered(i) => c.kind = "refresh"
    BY DEF MeAnswered, RefreshAnswered, LoginAnswered, Answered, Served
  <1>2. c \in Calls /\ CallTrue(c, jar) /\ Tab(i) \in TabStates
    BY <1>1, Gone
  <1>3. c.res \in Names /\ c.fresh \in BOOLEAN /\ (c.fresh => c.res = profile)
    BY <1>1, <1>2 DEF CallTrue, Calls
  <1>4. S \in TabStates /\ S.user = c.res /\ S.doubt = (c.res # None /\ ~c.fresh)
    BY <1>2, <1>3, ToldTab
  <1>5. c.res # None
    BY <1>3, SessionAssumption
  <1>6. jar \in BOOLEAN /\ (jar => complete)
    BY DEF SessionInv, SessionTyped, SetUp
  <1>7. c.kind \in {"me", "refresh"} /\ c.fresh => jar
    BY <1>1, <1>2 DEF CallTrue
  <1> HIDE DEF S
  <1>8. CASE MeAnswered(i)
    <2> DEFINE T == [S EXCEPT !.loading = FALSE]
    <2>1. T \in TabStates /\ T.user = c.res /\ (~T.doubt => c.fresh)
      BY <1>4, <1>5 DEF TabStates
    <2>2. Comes(i, jar, T, Without(i))
      BY <1>8 DEF MeAnswered, S
    <2> HIDE DEF T
    <2>3. T.user # None /\ ~T.doubt => jar /\ T.user = profile
      BY <1>1, <1>3, <1>7, <1>8, <2>1
    <2> QED
      BY <1>1, <1>6, <2>1, <2>2, <2>3, NewsInv
  <1>9. ASSUME RefreshAnswered(i) \/ LoginAnswered(i) PROVE SessionInv'
    <2> DEFINE T == Push(S, "overview")
    <2>1. "overview" \in Pages
      BY DEF Pages, Dashboard
    <2>2. T \in TabStates /\ T.user = c.res /\ (~T.doubt => c.fresh)
      BY <1>4, <1>5, <2>1, Moves
    <2> HIDE DEF T
    <2>3. CASE RefreshAnswered(i)
      <3>1. Comes(i, jar, T, Without(i))
        BY <2>3 DEF RefreshAnswered, S, T
      <3>2. T.user # None /\ ~T.doubt => jar /\ T.user = profile
        BY <1>1, <1>3, <1>7, <2>2, <2>3
      <3> QED
        BY <1>1, <1>6, <2>2, <3>1, <3>2, NewsInv
    <2>4. CASE LoginAnswered(i)
      <3>1. Comes(i, TRUE, T, Without(i)) /\ c.kind = "login"
        BY <2>4 DEF LoginAnswered, Answered, S, T
      <3>2. complete
        BY <1>1, <1>2, <3>1 DEF CallTrue
      <3> QED
        BY <1>1, <1>3, <2>2, <3>1, <3>2, NewsInv
    <2> QED
      BY <1>9, <2>3, <2>4
  <1> QED
    BY <1>8, <1>9

\* The setup is answered: the provider asks on, and the call stands for its question.
LEMMA SetupAnsweredInv == ASSUME SessionInv, NEW i \in Ids, SetupAnswered(i) PROVE SessionInv'
  <1> DEFINE c == [Call(calls[i].tab, "refresh", None)
                     EXCEPT !.token = TRUE, !.here = calls[i].here]
             cs == [calls EXCEPT ![i] = c]
  <1>1. i \in Outstanding /\ Served(calls[i]) /\ calls[i].kind = "setup"
    BY DEF SetupAnswered, Answered, Served
  <1>2. /\ calls[i] \in Calls /\ calls[i].tab \in Tabs /\ Tab(i) \in TabStates
        /\ TabTrue(Tab(i), calls[i].tab, jar, calls) /\ CallTrue(calls[i], jar)
    BY <1>1, Gone
  <1>3. complete
    BY <1>1, <1>2 DEF CallTrue
  <1>4. /\ c \in Calls /\ c.kind = "refresh" /\ c.res = "asked" /\ c.tab = calls[i].tab
    BY <1>2 DEF Call, Calls, Forms, SessionInv, SessionTyped
  <1>5. c # None /\ CallTrue(c, TRUE)
    BY <1>3, <1>4, SessionAssumption DEF CallTrue, Served
  <1>6. calls \in CallStates /\ CallsTrue(calls, jar) /\ jar \in BOOLEAN
    BY DEF SessionInv, SessionTyped, CallStates
  <1>7. Comes(i, TRUE, Tab(i), cs)
    BY DEF SetupAnswered
  <1> HIDE DEF c
  <1>8. cs \in CallStates
    BY <1>4, <1>6 DEF CallStates
  <1>9. CallsTrue(cs, TRUE)
    <2>1. ASSUME NEW j \in Ids, j # i, cs[j] # None PROVE CallTrue(cs[j], TRUE)
      <3>1. cs[j] = calls[j] /\ CallTrue(calls[j], jar)
        BY <1>6, <2>1 DEF CallStates, CallsTrue
      <3> QED
        BY <1>6, <3>1 DEF CallTrue
    <2>2. cs[i] = c
      BY <1>6 DEF CallStates
    <2> QED
      BY <1>5, <2>1, <2>2 DEF CallsTrue
  <1>10. \A u : HasSaved(u, calls) => HasSaved(u, cs)
    BY <1>1, <1>6 DEF HasSaved, CallStates
  <1>11. TabTrue(Tab(i), calls[i].tab, TRUE, cs)
    BY <1>2, <1>10 DEF TabTrue
  <1>12. jar \/ TRUE <=> TRUE
    OBVIOUS
  <1> HIDE DEF cs
  <1>13. CallsTrue(cs, jar \/ TRUE) /\ TabTrue(Tab(i), calls[i].tab, jar \/ TRUE, cs)
    BY <1>9, <1>11, <1>12
  <1> QED
    BY <1>1, <1>2, <1>3, <1>7, <1>8, <1>10, <1>13, ComesInv

\* The name was stored: it is shown where somebody is shown, in doubt if another came after it.
LEMMA ProfileAnsweredInv == ASSUME SessionInv, NEW i \in Ids, ProfileAnswered(i) PROVE SessionInv'
  <1> DEFINE c == calls[i]
             T == UpdateUser(Tab(i), c.arg, c.fresh)
  <1>1. i \in Outstanding /\ Served(c) /\ c.kind = "profile" /\ Comes(i, jar, T, Without(i))
    BY DEF ProfileAnswered, Answered, Served
  <1>2. /\ c \in Calls /\ CallTrue(c, jar) /\ Tab(i) \in TabStates
        /\ TabTrue(Tab(i), c.tab, jar, calls)
    BY <1>1, Gone
  <1>3. jar \in BOOLEAN /\ (jar => complete)
    BY DEF SessionInv, SessionTyped, SetUp
  <1>4. c.arg \in Names /\ c.fresh \in BOOLEAN /\ (c.fresh => c.arg = profile)
    BY <1>1, <1>2 DEF CallTrue, Calls
  <1>5. CASE Tab(i).user = None
    <2>1. T = Tab(i)
      BY <1>5 DEF UpdateUser
    <2> HIDE DEF T
    <2> QED
      BY <1>1, <1>2, <1>3, <1>5, <2>1, NewsInv
  <1>6. CASE Tab(i).user # None
    <2>1. T = [Tab(i) EXCEPT !.user = c.arg, !.doubt = @ \/ ~c.fresh, !.due = TRUE]
      BY <1>6 DEF UpdateUser
    <2>2. (Tab(i).doubt \/ ~c.fresh) \in BOOLEAN
      BY <1>2, <1>4 DEF TabStates
    <2> HIDE DEF T
    <2>3. T \in TabStates /\ T.user = c.arg /\ T.doubt = (Tab(i).doubt \/ ~c.fresh)
      BY <1>2, <1>4, <2>1, <2>2 DEF TabStates
    <2>4. T.user # None /\ ~T.doubt => jar /\ T.user = profile
      BY <1>2, <1>4, <1>6, <2>3 DEF TabTrue
    <2> QED
      BY <1>1, <1>3, <2>3, <2>4, NewsInv
  <1> QED
    BY <1>5, <1>6

\* The home page sends the tab on, whoever is shown.
LEMMA StatusAnsweredInv == ASSUME SessionInv, NEW i \in Ids, StatusAnswered(i) PROVE SessionInv'
  <1> DEFINE T == Home(Tab(i), calls[i].res, calls[i].arg)
  <1>1. i \in Outstanding /\ calls[i].kind = "status" /\ Comes(i, jar, T, Without(i))
    BY DEF StatusAnswered, Answered
  <1>2. Tab(i) \in TabStates
    BY <1>1, Gone
  <1>3. T \in TabStates /\ T.user = Tab(i).user /\ T.doubt = Tab(i).doubt
    <2>1. "setup" \in Pages /\ "overview" \in Pages /\ "login" \in Pages
      BY DEF Pages, Dashboard
    <2> QED
      BY <1>2, <2>1, Moves DEF Home
  <1>4. jar \in BOOLEAN /\ (jar => complete)
    BY DEF SessionInv, SessionTyped, SetUp
  <1> HIDE DEF T
  <1> QED
    BY <1>1, <1>3, <1>4, OtherInv

\* The cookie is given up; the other tabs that show somebody have their doubts.
LEMMA LogoutAnsweredInv == ASSUME SessionInv, NEW i \in Ids, LogoutAnswered(i) PROVE SessionInv'
  <1>1. i \in Outstanding /\ Comes(i, FALSE, SignedOut(Tab(i)), Without(i))
    BY DEF LogoutAnswered, Answered
  <1>2. SignedOut(Tab(i)) \in TabStates /\ SignedOut(Tab(i)).user = None
    BY <1>1, Gone, SignedOutTab
  <1> QED
    BY <1>1, <1>2, NewsInv

\* What a page makes of a call that throws.
LEMMA ThrownTab ==
    ASSUME SessionInv, NEW i \in Outstanding
    PROVE  /\ Throws(i) \in TabStates
           /\ calls[i].kind \in {"me", "refresh", "logout"} => Throws(i).user = None
           /\ calls[i].kind \in {"status", "login", "setup"} =>
                Throws(i).user = Tab(i).user /\ Throws(i).doubt = Tab(i).doubt
           /\ calls[i].kind = "profile" =>
                /\ Throws(i).user = Tab(i).user
                /\ Throws(i).doubt = (Tab(i).doubt \/ (Tab(i).user # None /\ Served(calls[i])))
  <1> DEFINE T == Tab(i)
  <1>1. T \in TabStates /\ calls[i] \in Calls
    BY Gone
  <1>2. "login" \in Pages /\ "overview" \in Pages
    BY DEF Pages, Dashboard
  <1>3. SignedOut(T) \in TabStates /\ SignedOut(T).user = None
    BY <1>1, SignedOutTab
  <1> HIDE DEF T
  <1>4. CASE calls[i].kind = "me"
    <2>1. Throws(i) = [SignedOut(T) EXCEPT !.loading = FALSE]
      BY <1>4 DEF Throws, MeFailed, T
    <2> QED
      BY <1>3, <1>4, <2>1 DEF TabStates
  <1>5. CASE calls[i].kind = "refresh"
    <2>1. Throws(i) = Push(SignedOut(T), "overview")
      BY <1>5 DEF Throws, T
    <2> QED
      BY <1>2, <1>3, <1>5, <2>1, Moves
  <1>6. CASE calls[i].kind = "status"
    <2>1. Throws(i) = Replace(T, "login")
      BY <1>6 DEF Throws, T
    <2> QED
      BY SMTT(30), <1>1, <1>2, <1>6, <2>1, Moves DEF T
  <1>7. CASE calls[i].kind = "logout"
    <2>1. Throws(i) = SignedOut(T)
      BY <1>7 DEF Throws, T
    <2> QED
      BY <1>3, <1>7, <2>1
  <1>8. CASE calls[i].kind = "profile"
    <2> DEFINE b == T.doubt \/ (T.user # None /\ Served(calls[i]))
    <2>1. Throws(i) = [T EXCEPT !.doubt = b]
      BY <1>8 DEF Throws, T, Served
    <2>2. b \in BOOLEAN
      BY <1>1 DEF TabStates
    <2> HIDE DEF b
    <2>3. Throws(i) \in TabStates /\ Throws(i).user = T.user /\ Throws(i).doubt = b
      BY <1>1, <2>1, <2>2 DEF TabStates
    <2> QED
      BY <1>8, <2>3 DEF T, b
  <1>9. CASE calls[i].kind \in {"login", "setup"}
    <2>1. Throws(i) = T
      BY <1>9 DEF Throws, T
    <2> QED
      BY <1>1, <1>9, <2>1 DEF T
  <1>10. calls[i].kind \in {"me", "refresh", "status", "logout", "profile", "login", "setup"}
    BY <1>1 DEF Calls, Forms
  <1> QED
    BY <1>4, <1>5, <1>6, <1>7, <1>8, <1>9, <1>10

\* A call throws: its cookie may have been taken over all the same, and its name stored.
LEMMA FailsInv == ASSUME SessionInv, NEW i \in Ids, Fails(i) PROVE SessionInv'
  <1>1. PICK cookie \in {jar, Taken(i)} : Comes(i, cookie, Throws(i), Without(i))
    BY DEF Fails
  <1>2. i \in Outstanding
    BY DEF Fails
  <1>3. calls[i] \in Calls /\ CallTrue(calls[i], jar) /\ TabTrue(Tab(i), calls[i].tab, jar, calls)
    BY <1>2, Gone
  <1>4. jar \in BOOLEAN /\ (jar => complete)
    BY DEF SessionInv, SessionTyped, SetUp
  <1>5. /\ cookie \in BOOLEAN /\ (cookie => complete)
        /\ jar /\ ~cookie => calls[i].kind = "logout"
    BY <1>3, <1>4 DEF Taken, CallTrue, Served
  <1>6. calls[i].kind \in {"me", "refresh", "status", "logout", "profile", "login", "setup"}
    BY <1>3 DEF Calls, Forms
  <1>7. CASE calls[i].kind \in {"me", "refresh", "logout"}
    BY <1>1, <1>2, <1>5, <1>7, ThrownTab, NewsInv
  <1>8. CASE calls[i].kind \in {"status", "login", "setup"}
    <2>1. /\ Throws(i) \in TabStates /\ Throws(i).user = Tab(i).user
          /\ Throws(i).doubt = Tab(i).doubt
      BY <1>2, <1>8, ThrownTab
    <2> QED
      BY <1>1, <1>2, <1>5, <1>8, <2>1, OtherInv
  <1>9. CASE calls[i].kind = "profile" /\ Served(calls[i])
    <2>1. Throws(i).user # None => Throws(i).doubt
      BY <1>2, <1>9, ThrownTab
    <2> QED
      BY <1>1, <1>2, <1>5, <1>9, <2>1, ThrownTab, NewsInv
  <1>10. CASE calls[i].kind = "profile" /\ ~Served(calls[i])
    <2>1. Tab(i).doubt \in BOOLEAN
      BY <1>2, Gone DEF TabStates
    <2>2. /\ Throws(i) \in TabStates /\ Throws(i).user = Tab(i).user
          /\ Throws(i).doubt = Tab(i).doubt
      BY <1>2, <1>10, <2>1, ThrownTab
    <2> QED
      BY <1>1, <1>2, <1>5, <1>10, <2>2, OtherInv
  <1> QED
    BY <1>6, <1>7, <1>8, <1>9, <1>10

\* Every answer keeps the invariant.
LEMMA AnswerInv == ASSUME SessionInv, NEW i \in Ids, Answer(i) PROVE SessionInv'
  BY IdentityInv, SetupAnsweredInv, ProfileAnsweredInv, StatusAnsweredInv, LogoutAnsweredInv,
     FailsInv DEF Answer

-----------------------------------------------------------------------------
(* The cookie's end, the beginning, and the theorem.                        *)

\* Nobody is told that the cookie is gone, so every tab that shows somebody is in doubt.
LEMMA ExpireInv == ASSUME SessionInv, Expire PROVE SessionInv'
  <1>1. calls \in CallStates /\ CallsTrue(calls, jar) /\ tab \in [Tabs -> TabStates]
    BY DEF SessionInv, SessionTyped, CallStates
  <1>2. calls' \in CallStates /\ CallsTrue(calls', FALSE)
    BY <1>1, StaleCalls DEF Expire
  <1>3. /\ tab' \in [Tabs -> TabStates]
        /\ \A u \in Tabs : tab'[u].user # None => tab'[u].doubt
    <2>1. None \notin Tabs
      BY SessionAssumption DEF Ids
    <2>2. tab' = Doubted(tab, None)
      BY DEF Expire
    <2>3. ASSUME NEW u \in Tabs, tab'[u].user # None PROVE tab'[u].doubt
      <3>1. tab'[u].user = tab[u].user
            /\ tab'[u].doubt = (tab[u].doubt \/ (u # None /\ tab[u].user # None))
        BY <1>1, <2>2, DoubtedTabs
      <3> QED
        BY <2>1, <2>3, <3>1
    <2> QED
      BY <1>1, <2>2, <2>3, DoubtedTabs
  <1>4. jar' = FALSE /\ UNCHANGED <<complete, profile>>
    BY DEF Expire
  <1>5. CallsTrue(calls, jar)'
    BY <1>2, <1>4 DEF CallsTrue, CallTrue, Served
  <1> QED
    BY <1>2, <1>3, <1>4, <1>5
       DEF SessionInv, SessionTyped, SetUp, TabsTrue, TabTrue, CallStates

\* Tabs are loaded with nobody on screen, and ask.
LEMMA InitInv == Init => SessionInv
  <1> SUFFICES ASSUME Init PROVE SessionInv
    OBVIOUS
  <1>1. complete \in BOOLEAN /\ jar \in BOOLEAN /\ (jar => complete)
        /\ profile \in Names \cup {None} /\ (complete => profile \in Names)
    <2>1. complete \in BOOLEAN /\ (jar = FALSE \/ jar = complete)
      BY DEF Init
    <2>2. CASE complete = TRUE
      BY <2>1, <2>2 DEF Init
    <2>3. CASE complete = FALSE
      BY <2>1, <2>3 DEF Init
    <2> QED
      BY <2>1, <2>2, <2>3
  <1>2. \A p \in Pages : Loaded(p) \in TabStates /\ Loaded(p).user = None
    <2>1. ASSUME NEW p \in Pages PROVE <<>> \in Seq(Pages) /\ (p = "home") \in BOOLEAN
      OBVIOUS
    <2> QED
      BY <2>1 DEF Loaded, TabStates
  <1>3. tab \in [Tabs -> TabStates] /\ \A t \in Tabs : tab[t].user = None
    BY <1>2, SessionAssumption DEF Init
  <1>4. ASSUME NEW i \in Ids
        PROVE  /\ calls[i] \in Calls \cup {None}
               /\ calls[i] # None => CallTrue(calls[i], jar)
    <2>1. CASE i \in Tabs
      <3>1. calls[i] = Call(i, "me", None)
        BY <2>1 DEF Init
      <3>2. Call(i, "me", None) \in Calls
        BY <1>1, <2>1 DEF Call, Calls
      <3>3. CallTrue(Call(i, "me", None), jar)
        BY <1>1 DEF Call, CallTrue, Served
      <3> QED
        BY <3>1, <3>2, <3>3
    <2>2. CASE i \notin Tabs
      BY <2>2 DEF Init
    <2> QED
      BY <2>1, <2>2
  <1>5. calls \in CallStates
    BY <1>4 DEF Init, CallStates
  <1> QED
    BY <1>1, <1>3, <1>4, <1>5
       DEF SessionInv, SessionTyped, SetUp, CallsTrue, TabsTrue, TabTrue, CallStates

\* Every step keeps the invariant.
LEMMA NextInv == SessionInv /\ [Next]_vars => SessionInv'
  <1> SUFFICES ASSUME SessionInv, [Next]_vars PROVE SessionInv'
    OBVIOUS
  <1>1. CASE UNCHANGED vars
    BY <1>1 DEF vars, SessionInv, SessionTyped, SetUp, CallsTrue, CallTrue, TabsTrue, TabTrue,
                HasSaved, Served
  <1>2. ASSUME NEW t \in Tabs, UserActs(t) PROVE SessionInv'
    BY <1>2, UserInv
  <1>3. CASE Effects
    BY <1>3, EffectsInv
  <1>4. CASE Traffic
    BY <1>4, ServeInv, AnswerInv DEF Traffic
  <1>5. CASE Expire
    BY <1>5, ExpireInv
  <1> QED
    BY <1>1, <1>2, <1>3, <1>4, <1>5 DEF Next

\* An answer under way that stores a name is a save under way.
LEMMA InvShows == SessionInv => ShownIsTrue
  BY DEF SessionInv, TabsTrue, TabTrue, HasSaved, ShownIsTrue, SavesProfile, Of, Outstanding

\* A tab that shows a user, and was told of all that happened, holds the cookie and the name that
\* is stored, unless it is just saving one (lib/auth.tsx:34-62, layout.tsx:99,
\* settings/page.tsx:33-34): whatever the number of tabs, of calls under way and of names, in
\* whatever order the answers come and whichever of them are lost.
THEOREM TabsShowTheTruth == Spec => []ShownIsTrue
  <1>1. SessionInv /\ [Next]_vars => SessionInv'
    BY NextInv
  <1> QED
    BY InitInv, <1>1, InvShows, PTL DEF Spec
====
