---------------------------- MODULE PageScripts ----------------------------
(***************************************************************************)
(* The scripts of a page that the server sends (resources/js), in one      *)
(* browser: the page names seven scripts, each of which may fail to        *)
(* arrive; what each does when it runs, and up to which line; the          *)
(* callbacks they leave behind; and a user who scrolls, opens the menu and *)
(* follows links.                                                          *)
(*                                                                         *)
(* One step is one script, or one event with all its handlers.  jQuery,    *)
(* Bootstrap, Magnific Popup and WOW are third-party: they are what the    *)
(* page's own scripts call of them.  The links of all pages are paths of   *)
(* the server ("/picture"); no page has an anchor or a popup image.        *)
(***************************************************************************)
EXTENDS Integers, Sequences

CONSTANTS
  Links,      \* the links of the navigation bar
  Brand,      \* the one that is outside the menu that collapses
  Nowhere     \* not a link

ASSUME PageAssumption == Brand \in Links /\ Nowhere \notin Links

\* The order of the script elements at the end of each page's body.
Scripts == <<"jquery", "bootstrap", "smoothscroll", "popup", "options", "wow", "custom">>

VARIABLES
  next,            \* index of the script that is fetched next
  came,            \* scripts that arrived
  ran,             \* scripts that ran to their last line
  ready,           \* callbacks given to $(document).ready, in order
  event,           \* "parsing", "ready" (DOMContentLoaded) or "load"
  bound,           \* handlers of custom.js that are bound
  cover,           \* .preloader, which covers the window: "shown", "fading", "gone"
  far, pending,    \* the page is more than 50 pixels down; its scroll event is due
  missed,          \* history: the last scroll event found no handler
  topClass,        \* .navbar-fixed-top has the class top-nav-collapse
  menu,            \* .navbar-collapse: "closed", "opening", "open" or "closing"
  asked, going     \* the link that was clicked last; where the browser goes

loadVars == <<next, came, ran, ready, event>>
scrollVars == <<far, pending, missed, topClass>>
linkVars == <<asked, going>>
pageVars == <<loadVars, bound, cover, scrollVars, menu, linkVars>>

PageInit ==
  /\ next = 1 /\ came = {} /\ ran = {} /\ ready = << >>
  /\ event = "parsing" /\ bound = {} /\ cover = "shown"
  /\ far = FALSE /\ pending = FALSE /\ missed = FALSE /\ topClass = FALSE
  /\ menu = "closed" /\ asked = Nowhere /\ going = Nowhere
-----------------------------------------------------------------------------
(* The scripts.                                                             *)

HasJQuery == "jquery" \in came

\* Third-party scripts: Bootstrap and the popup plugin throw without jQuery.
RunLibrary(s) ==
  /\ s \in {"jquery", "bootstrap", "popup", "wow"}
  /\ ran' = IF s \in {"jquery", "wow"} \/ HasJQuery THEN ran \union {s} ELSE ran
  /\ UNCHANGED <<ready, bound>>

\* smoothscroll.js says that jQuery is missing, and then fails at the first
\* line that names it.
RunSmoothScroll(s) ==
  /\ s = "smoothscroll"
  /\ IF HasJQuery THEN ready' = Append(ready, "localScroll") /\ ran' = ran \union {s}
                  ELSE UNCHANGED <<ready, ran>>
  /\ bound' = bound

\* magnific-popup-options.js
RunOptions(s) ==
  /\ s = "options"
  /\ IF HasJQuery THEN ready' = Append(ready, "magnifPopup") /\ ran' = ran \union {s}
                  ELSE UNCHANGED <<ready, ran>>
  /\ bound' = bound

\* Mutant: WOW is started before anything is bound.
CustomWowFirst(s) ==
  /\ s = "custom"
  /\ IF HasJQuery /\ "wow" \in ran
       THEN /\ bound' = bound \union {"load", "hide", "scroll"}
            /\ ready' = Append(ready, "scrollTo")
            /\ ran' = ran \union {s}
       ELSE UNCHANGED <<bound, ready, ran>>

\* custom.js: everything is bound before WOW is started, which throws when
\* wow.min.js did not arrive.
RunCustom(s) ==
  /\ s = "custom"
  /\ IF HasJQuery
       THEN /\ bound' = bound \union {"load", "hide", "scroll"}
            /\ ready' = Append(ready, "scrollTo")
            /\ ran' = IF "wow" \in ran THEN ran \union {s} ELSE ran
       ELSE UNCHANGED <<bound, ready, ran>>

RunScript(s) == RunLibrary(s) \/ RunSmoothScroll(s) \/ RunOptions(s) \/ RunCustom(s)

\* The parser waits for each script; one that fails to arrive is skipped.
FetchScript ==
  /\ next <= Len(Scripts) /\ next' = next + 1
  /\ LET s == Scripts[next] IN
     \/ came' = came \union {s} /\ RunScript(s)
     \/ UNCHANGED <<came, ran, ready, bound>>
  /\ UNCHANGED <<event, cover, scrollVars, menu, linkVars>>
-----------------------------------------------------------------------------
(* The document's events.                                                   *)

\* $(...).magnificPopup is a function only if the plugin ran.  The images it is
\* called for are on no page, so that it binds nothing.
Throws(callback) == callback = "magnifPopup" /\ "popup" \notin ran

\* jQuery calls the callbacks in order; one that throws leaves its list in
\* mid-call, and none after it is ever called.
Called(k) == \A l \in 1..k : ~Throws(ready[l])

\* The links are bound by the callback of custom.js; no link of a page has a
\* hash, so that localScroll binds none.
DomReady ==
  /\ next > Len(Scripts) /\ event = "parsing" /\ event' = "ready"
  /\ bound' = IF \E k \in 1..Len(ready) : ready[k] = "scrollTo" /\ Called(k)
                THEN bound \union {"click"} ELSE bound
  /\ UNCHANGED <<next, came, ran, ready, cover, scrollVars, menu, linkVars>>

\* Every picture and style sheet has arrived or failed.
Load ==
  /\ event = "ready" /\ event' = "load"
  /\ cover' = IF "load" \in bound THEN "fading" ELSE cover
  /\ UNCHANGED <<next, came, ran, ready, bound, scrollVars, menu, linkVars>>

\* fadeOut(1000) ends with display: none.
FadeEnds ==
  /\ cover = "fading" /\ cover' = "gone"
  /\ UNCHANGED <<loadVars, bound, scrollVars, menu, linkVars>>
-----------------------------------------------------------------------------
(* The user.                                                                *)

\* A page may be scrolled while it is still parsed.
Scroll ==
  /\ far' \in BOOLEAN /\ pending' = TRUE
  /\ UNCHANGED <<loadVars, bound, cover, missed, topClass, menu, linkVars>>

\* Mutant: the class is never taken away.
OnScrollAdds == topClass' = (topClass \/ far)

OnScroll == topClass' = far

\* The browser sends one event for what was scrolled since the last frame.
ScrollEvent ==
  /\ pending /\ pending' = FALSE /\ far' = far
  /\ IF "scroll" \in bound THEN OnScroll /\ missed' = FALSE
                           ELSE missed' = TRUE /\ topClass' = topClass
  /\ UNCHANGED <<loadVars, bound, cover, menu, linkVars>>

\* Bootstrap's collapse takes no order while it is moving.
Hide == menu' = IF menu = "open" THEN "closing" ELSE menu

\* The button of small windows, behind the cover like everything else.
Toggle ==
  /\ cover = "gone" /\ "bootstrap" \in ran
  /\ menu' = CASE menu = "closed" -> "opening" [] menu = "open" -> "closing" [] OTHER -> menu
  /\ UNCHANGED <<loadVars, bound, cover, scrollVars, linkVars>>

MenuMoved ==
  /\ menu \in {"opening", "closing"}
  /\ menu' = IF menu = "opening" THEN "open" ELSE "closed"
  /\ UNCHANGED <<loadVars, bound, cover, scrollVars, linkVars>>

\* Mutant: preventDefault is called first.
PreventFirst == <<"preventDefault", "stop", "target", "animate">>

\* The click handler of custom.js, in the order of evaluation.
ClickStatements == <<"stop", "target", "animate", "preventDefault">>

\* $("/picture") is no selector: "target" throws for every link of the pages.
Prevents ==
  \E k \in 1..Len(ClickStatements) :
    /\ ClickStatements[k] = "preventDefault"
    /\ \A j \in 1..(k - 1) : ClickStatements[j] # "target"

\* jQuery calls the handlers of one link in the order they were bound; one
\* that throws ends this.  The browser follows the link unless one of them
\* prevented it.
ClickLink(l) ==
  /\ cover = "gone"
  /\ LET inMenu == l # Brand /\ "hide" \in bound
         collapses == "bootstrap" \in ran
         handled == "click" \in bound /\ (inMenu => collapses)
     IN /\ IF inMenu /\ collapses THEN Hide ELSE menu' = menu
        /\ going' = IF handled /\ Prevents THEN going ELSE l
  /\ asked' = l
  /\ UNCHANGED <<loadVars, bound, cover, scrollVars>>

\* The answer to the last link that was followed arrives.
NewPage ==
  /\ going # Nowhere
  /\ next' = 1 /\ came' = {} /\ ran' = {} /\ ready' = << >>
  /\ event' = "parsing" /\ bound' = {} /\ cover' = "shown"
  /\ far' = FALSE /\ pending' = FALSE /\ missed' = FALSE /\ topClass' = FALSE
  /\ menu' = "closed" /\ asked' = Nowhere /\ going' = Nowhere

Browser == FetchScript \/ DomReady \/ Load \/ FadeEnds
User == Scroll \/ Toggle \/ \E l \in Links : ClickLink(l)

PageNext == Browser \/ ScrollEvent \/ MenuMoved \/ User \/ NewPage

PageSpec == PageInit /\ [][PageNext]_pageVars

\* Each file arrives or fails in the end; the user owes nothing.
FairPageSpec == PageSpec /\ WF_pageVars(Browser)
-----------------------------------------------------------------------------
(* Properties. *)

\* The cover goes whenever jquery.js and custom.js arrived, whatever became of
\* the five scripts between them (custom.js:6-8, z-index 99999 in style.css).
PageUncovered == ({"jquery", "custom"} \subseteq came) ~> (cover = "gone")

\* Every click on a link takes the browser there, although a handler that
\* would prevent it may be bound (custom.js:27-32).
LinksNavigate == asked # Nowhere => going = asked

\* Between two scroll events the navigation bar looks as the position says,
\* unless the page was scrolled before custom.js ran and not since
\* (custom.js:16-22).
NavbarFollows == ~pending /\ ~missed => topClass = far
=============================================================================
