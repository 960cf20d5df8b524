---------------------------- MODULE RewriteFile -----------------------------
(***************************************************************************)
(* What the build-time instrumentation does to a Go file: RewriteFile of   *)
(* src/internal/instrument/rewrite.go.  The functions that take a context  *)
(* first get a hook, which calls the tracker when they begin and when they *)
(* end; so that the hook can name them, the parameters and results are     *)
(* given names.  The compiler then gets the file that is written, and the  *)
(* rewriter may be given it a second time.                                 *)
(*                                                                         *)
(* Of a function its names matter and the hooks: the parameters and        *)
(* results, "" is the name of one that has none; what the receiver and the *)
(* type parameters bind; what the top level of the body declares; and what *)
(* the body uses that is declared outside the function.                    *)
(***************************************************************************)
EXTENDS Naturals, Sequences, TLC

CONSTANTS
    Files,      \* the files, each the sequence of its functions
    Imports,    \* how files import the tracker
    MaxPasses   \* bound: times a file is rewritten

\* The functions of a file somebody wrote: any types, no hooks yet, and any
\* names but those of a hook's variables, __ufCall_0, __ufBlockErr_0 and so on.
Fields == Seq([type : STRING, name : STRING])
Written ==
    [params : Fields, results : Fields, bound : SUBSET STRING,
     locals : SUBSET STRING, free : SUBSET STRING,
     own : BOOLEAN, body : BOOLEAN, hooks : {<<>>}]

ASSUME FilesAssumption == Files \subseteq Seq(Written) /\ MaxPasses \in Nat

\* Not at all, with a dot, or blank: a hook cannot reach the tracker.  A file
\* that gives the tracker no name of its own imports it as "tracker".
Unusable == {"", ".", "_"}

VARIABLES
    source,     \* the functions of the file as it was read
    file,       \* the functions of the syntax tree
    imports,    \* the name the tracker is imported by, or one of Unusable
    skipped,    \* a test, generated, or the tracker itself
    next,       \* the declaration looked at
    targets,    \* the functions to instrument, by position
    pass,       \* how often the file has been rewritten
    phase

rewriteVars == <<source, file, imports, skipped, next, targets, pass, phase>>

RewriteInit ==
    /\ source \in Files
    /\ file = source
    /\ imports \in Imports
    /\ skipped \in BOOLEAN
    /\ next = 1 /\ targets = <<>> /\ pass = 1
    /\ phase = "scan"

-----------------------------------------------------------------------------
(* The functions to instrument *)

Scanning == phase = "scan" /\ ~skipped /\ next <= Len(file)
Current  == file[next]

\* isContextType, isGinContextType
TakesContext(fn) == fn.params # <<>> /\ fn.params[1].type \in {"context", "gin"}

\* alreadyInstrumented: by hand, or by an earlier pass.
Instrumented(fn) == fn.own \/ fn.hooks # <<>>

\* contextExpr names the first parameter, whatever its type is.
FirstNamed(fn) ==
    IF fn.params = <<>> \/ fn.params[1].name \notin {"", "_"} THEN fn
    ELSE [fn EXCEPT !.params[1].name = IF @ = "" THEN "ctx" ELSE "__ufCtx"]

PassOver ==
    /\ Scanning /\ ~Current.body
    /\ next' = next + 1
    /\ UNCHANGED <<source, file, imports, skipped, targets, pass, phase>>

\* Mutant: only hooks written by hand are noticed.
VisitOwnOnly ==
    /\ Scanning /\ Current.body
    /\ file' = [file EXCEPT ![next] = FirstNamed(@)]
    /\ targets' = IF TakesContext(Current) /\ ~Current.own
                  THEN Append(targets, next) ELSE targets
    /\ next' = next + 1
    /\ UNCHANGED <<source, imports, skipped, pass, phase>>

Visit ==
    /\ Scanning /\ Current.body
    /\ file' = [file EXCEPT ![next] = FirstNamed(@)]
    /\ targets' = IF TakesContext(Current) /\ ~Instrumented(Current)
                  THEN Append(targets, next) ELSE targets
    /\ next' = next + 1
    /\ UNCHANGED <<source, imports, skipped, pass, phase>>

(* With nothing to instrument the file is returned as it was read. *)
LeaveAlone ==
    /\ phase = "scan"
    /\ skipped \/ (next > Len(file) /\ targets = <<>>)
    /\ file' = source
    /\ phase' = "done"
    /\ UNCHANGED <<source, imports, skipped, next, targets, pass>>

(* ensureTrackerImport *)
Import ==
    /\ phase = "scan" /\ ~skipped
    /\ next > Len(file) /\ targets # <<>>
    /\ imports' = IF imports \in Unusable THEN "__uftracker" ELSE imports
    /\ next' = 1
    /\ phase' = "inject"
    /\ UNCHANGED <<source, file, skipped, targets, pass>>

-----------------------------------------------------------------------------
(* The hooks *)

ResultName(j) == "__ufR" \o ToString(j - 1)

\* Each result gets a name of its own, which is none of the other names given.
ASSUME NamesAssumption ==
    \A fs \in Files : \A i \in DOMAIN fs : \A j \in DOMAIN fs[i].results :
        /\ ResultName(j) \notin {"", "_", "ctx", "__ufCtx", "__ufErr"}
        /\ \A k \in DOMAIN fs[i].results : ResultName(j) = ResultName(k) => j = k

\* Mutant: blank results stay blank.
NamedBlanksKept(results) ==
    [j \in DOMAIN results |->
        IF results[j].name # "" THEN results[j]
        ELSE [results[j] EXCEPT !.name =
                 IF results[j].type = "error" THEN "__ufErr" ELSE ResultName(j)]]

\* ensureNamedResults
Named(results) ==
    [j \in DOMAIN results |->
        IF results[j].name \notin {"", "_"} THEN results[j]
        ELSE [results[j] EXCEPT !.name =
                 IF @ = "" /\ results[j].type = "error" THEN "__ufErr" ELSE ResultName(j)]]

\* lastErrorResult finds a result the hook can return the denial as.
ReturnsError(fn) == \E j \in DOMAIN fn.results : fn.results[j].type = "error"

\* How the hook refuses a call: it returns the denial, aborts the request, or
\* cannot.
Refusal(fn) ==
    IF ReturnsError(fn) THEN "return"
    ELSE IF fn.params[1].type = "gin" THEN "abort" ELSE "ignored"

\* What a hook uses of the world outside: the tracker, nil to see whether the
\* call is denied, and string for the answer to a request it aborts.
Outer(fn, tracker) ==
    {tracker} \cup (IF Refusal(fn) = "ignored" THEN {} ELSE {"nil"})
              \cup (IF Refusal(fn) = "abort" THEN {"string"} ELSE {})

\* The hook of a function whose results have their names: the number its
\* variables carry, and the names it uses.
Hook(fn, k, tracker) ==
    [number |-> k,
     outer  |-> Outer(fn, tracker),
     uses   |-> {fn.params[1].name}
                \cup {fn.params[j].name : j \in {i \in 2 .. Len(fn.params) :
                                                    fn.params[i].name \notin {"", "_"}}}
                \cup {fn.results[j].name : j \in DOMAIN fn.results}]

(* injectHook *)
Inject ==
    /\ phase = "inject" /\ next <= Len(targets)
    /\ LET fn    == file[targets[next]]
           named == [fn EXCEPT !.results = Named(@)]
       IN  file' = [file EXCEPT ![targets[next]] =
                       [named EXCEPT !.hooks = <<Hook(named, next, imports)>> \o @]]
    /\ next' = next + 1
    /\ UNCHANGED <<source, imports, skipped, targets, pass, phase>>

(* format.Node prints the tree, without a look at whether it is valid. *)
Format ==
    /\ phase = "inject" /\ next > Len(targets)
    /\ phase' = "done"
    /\ UNCHANGED <<source, file, imports, skipped, next, targets, pass>>

-----------------------------------------------------------------------------
(* The Go compiler *)

Names(fields) == {fields[j].name : j \in DOMAIN fields}

\* Either all parameters, or results, have names or none has.
Parses(fn) ==
    /\ "" \in Names(fn.params) => Names(fn.params) = {""}
    /\ "" \in Names(fn.results) => Names(fn.results) = {""}

\* The names a signature binds share the scope of the body's top level.
Signature(fn) == Names(fn.params) \cup Names(fn.results) \cup fn.bound

Distinct(fn) ==
    LET fields == fn.params \o fn.results
    IN  \A j \in DOMAIN fields : fields[j].name \notin {"", "_"} =>
          /\ \A k \in DOMAIN fields : fields[k].name = fields[j].name => k = j
          /\ fields[j].name \notin fn.bound \cup fn.locals

\* What the body uses from outside is not hidden from it: where it is, the body
\* gets the parameter or result instead, which may compile, to something else.
Resolves(fn) == (Names(fn.params) \cup Names(fn.results)) \cap fn.free = {}

\* A hook can use its names, and reach what it needs.
Usable(fn) ==
    /\ \A j \in DOMAIN fn.hooks : /\ fn.hooks[j].uses \cap {"", "_"} = {}
                                  /\ fn.hooks[j].outer \cap Signature(fn) = {}
    /\ \A j, k \in DOMAIN fn.hooks : fn.hooks[j].number = fn.hooks[k].number => j = k

Sound(fn) == Parses(fn) /\ Distinct(fn) /\ Resolves(fn) /\ Usable(fn)

(* The rewriter gets its own output. *)
Again ==
    /\ phase = "done" /\ pass < MaxPasses
    /\ \A i \in DOMAIN file : Parses(file[i])
    /\ source' = file
    /\ next' = 1 /\ targets' = <<>> /\ pass' = pass + 1
    /\ phase' = "scan"
    /\ UNCHANGED <<file, imports, skipped>>

RewriteNext == PassOver \/ Visit \/ LeaveAlone \/ Import \/ Inject \/ Format \/ Again

RewriteSpec == RewriteInit /\ [][RewriteNext]_rewriteVars

-----------------------------------------------------------------------------
(* Properties *)

\* The names the rewriter gives: to a first parameter, and to results of a target.
Blank(fields) == {j \in DOMAIN fields : fields[j].name \in {"", "_"}}

Given(fn, target) ==
    {FirstNamed(fn).params[j].name : j \in {k \in Blank(fn.params) : fn.body /\ k = 1}}
    \cup {Named(fn.results)[j].name : j \in {k \in Blank(fn.results) : target}}

\* The names that are there already.
Taken(fn) == (Signature(fn) \cup fn.locals \cup fn.free) \ {"", "_"}

UnnamedError == [type |-> "error", name |-> ""]

\* The functions of a source that the names and hooks spoil: without names for
\* their parameters, if there are several; where a name that is given is taken;
\* without names for two errors they return; and where the signature, as it was
\* or with the names it is given, hides what the hook needs.
Spoilt(fn, target) ==
    \/ fn.body /\ Len(fn.params) > 1 /\ fn.params[1].name = ""
    \/ Given(fn, target) \cap Taken(fn) # {}
    \/ target /\ \E j, k \in DOMAIN fn.results :
                    j # k /\ fn.results[j] = UnnamedError /\ fn.results[k] = UnnamedError
    \/ target /\ Outer(fn, imports) \cap (Signature(fn) \cup Given(fn, target)) # {}

(* A file that compiles still does when it is rewritten, and its functions *)
(* still use what they used, except for the spoilt ones; those without a   *)
(* context are spoilt by a function with one in the same file              *)
(* (rewrite.go:133-146, 199-236, 362-388, 441-456).                        *)
RewriteSound ==
    phase = "done" /\ (\A i \in DOMAIN source : Sound(source[i])) =>
        \/ targets = <<>> /\ file = source
        \/ \A i \in DOMAIN source :
              Sound(file[i]) <=> ~Spoilt(source[i], \E j \in DOMAIN targets : targets[j] = i)

(* However often a file is rewritten, a function with a body that takes a  *)
(* context first and has no hook of its own has one hook, and no other     *)
(* function has any (rewrite.go:48-62, 107-130).                           *)
HookedOnce ==
    phase = "done" =>
        \A i \in DOMAIN file :
            Len(file[i].hooks) =
                IF ~skipped /\ file[i].body /\ TakesContext(file[i]) /\ ~file[i].own
                THEN 1 ELSE 0
=============================================================================
