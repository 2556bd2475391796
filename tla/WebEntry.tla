------------------------------ MODULE WebEntry ------------------------------
(***************************************************************************)
(* The browser binding (crates/unbase_web): webpack.config.js builds the   *)
(* bundle, index.js imports the compiled crate as a chunk of its own and   *)
(* greets, src/lib.rs installs the logger when the crate starts.           *)
(*                                                                         *)
(* The development server may build again at any time; a page keeps the    *)
(* bundle it was opened with.  What wasm-pack leaves in pkg/, and whether  *)
(* a chunk reaches the browser, is not up to this code.  As the files are  *)
(* now, wasm-pack names what it makes after the crate, unbase_web, and no  *)
(* './pkg/unbase' is there to import; a build may do with it or without.   *)
(***************************************************************************)
EXTENDS Sequences

CONSTANTS
  Page,   \* the pages that are open at a time
  None    \* nothing was built, nothing was loaded

VARIABLES
  dist,     \* the bundle that is served
  bundle,   \* bundle[p]: the one page p has loaded
  phase,    \* phase[p]: what became of its import
  logger,   \* logger[p]: whether the crate has its logger
  console   \* console[p]: what its console shows

vars == <<dist, bundle, phase, logger, console>>

Init ==
  /\ dist = None
  /\ bundle = [p \in Page |-> None]
  /\ phase = [p \in Page |-> "closed"]
  /\ logger = [p \in Page |-> FALSE]
  /\ console = [p \in Page |-> << >>]

-----------------------------------------------------------------------------
\* What a build can bundle: whether './pkg/unbase' was there or not.  (The
\* globals that some browsers lack come with every bundle: ProvidePlugin.)
Bundle == {"whole", "without package"}

Build ==
  /\ dist' \in Bundle
  /\ UNCHANGED <<bundle, phase, logger, console>>

\* The page loads the bundle, and the import begins.
Open(p) ==
  /\ phase[p] = "closed"
  /\ dist # None
  /\ bundle' = [bundle EXCEPT ![p] = dist]
  /\ phase' = [phase EXCEPT ![p] = "importing"]
  /\ UNCHANGED <<dist, logger, console>>

\* The log drops what is written while there is no logger; start installs it
\* first, so that nothing is.
Log(p, line, ready) == IF ready THEN Append(console[p], line) ELSE console[p]

\* The crate starts, and the import is fulfilled.
Start(p) ==
  /\ phase[p] = "importing"
  /\ bundle[p] = "whole"
  /\ logger' = [logger EXCEPT ![p] = TRUE]
  /\ console' = [console EXCEPT ![p] = Log(p, "loaded", logger'[p])]
  /\ phase' = [phase EXCEPT ![p] = "fulfilled"]
  /\ UNCHANGED <<dist, bundle>>

\* The module is not there.
Reject(p) ==
  /\ phase[p] = "importing"
  /\ bundle[p] = "without package"
  /\ phase' = [phase EXCEPT ![p] = "rejected"]
  /\ UNCHANGED <<dist, bundle, logger, console>>

\* The server or the network fails.
Cut(p) ==
  /\ phase[p] = "importing"
  /\ phase' = [phase EXCEPT ![p] = "rejected"]
  /\ UNCHANGED <<dist, bundle, logger, console>>

\* rust.then(m => m.greet('World!'))
Then(p) ==
  /\ phase[p] = "fulfilled"
  /\ console' = [console EXCEPT ![p] = Log(p, "hello", logger[p])]
  /\ phase' = [phase EXCEPT ![p] = "greeted"]
  /\ UNCHANGED <<dist, bundle, logger>>

\* Faulty: nobody looks at a rejected import.
CatchNothing(p) == phase[p] = "rejected" /\ UNCHANGED vars

\* .catch(console.error)
Catch(p) ==
  /\ phase[p] = "rejected"
  /\ console' = [console EXCEPT ![p] = Append(@, "error")]
  /\ phase' = [phase EXCEPT ![p] = "reported"]
  /\ UNCHANGED <<dist, bundle, logger>>

\* The page is closed, or reloaded after a build: nothing of it is kept.
Close(p) ==
  /\ phase[p] # "closed"
  /\ bundle' = [bundle EXCEPT ![p] = None]
  /\ phase' = [phase EXCEPT ![p] = "closed"]
  /\ logger' = [logger EXCEPT ![p] = FALSE]
  /\ console' = [console EXCEPT ![p] = << >>]
  /\ UNCHANGED dist

\* What the browser does by itself.
Proceed(p) == Start(p) \/ Reject(p) \/ Then(p) \/ Catch(p)

Next ==
  \/ Build
  \/ \E p \in Page : Open(p) \/ Proceed(p) \/ Cut(p) \/ Close(p)

\* The browser settles every import and runs its callbacks.
Spec ==
  Init /\ [][Next]_vars /\ \A p \in Page : WF_vars(Proceed(p))

-----------------------------------------------------------------------------
TypeOK ==
  /\ dist \in Bundle \cup {None}
  /\ phase \in [Page -> {"closed", "importing", "fulfilled", "rejected",
                         "greeted", "reported"}]
  /\ logger \in [Page -> BOOLEAN]
  /\ console \in [Page -> Seq({"loaded", "hello", "error"})]
  /\ \A p \in Page :
       bundle[p] \in IF phase[p] = "closed" THEN {None} ELSE Bundle

(***************************************************************************)
(* A page that stays open ends by telling, on its console, that the crate  *)
(* was loaded and then greeting, or by reporting an error, and nothing     *)
(* else: it never ends silently (index.js; start and greet of src/lib.rs). *)
(***************************************************************************)
PageSettles ==
  \A p \in Page :
    phase[p] = "importing"
      ~> \/ phase[p] = "closed"
         \/ phase[p] = "greeted" /\ console[p] = <<"loaded", "hello">>
         \/ phase[p] = "reported" /\ console[p] = <<"error">>
=============================================================================
