--------------------------- MODULE MCRewriteFile ----------------------------
(* Files of one or two functions.  One of them has any signature of up to  *)
(* two parameters and two results, the other one of a few.  Some use names *)
(* the rewriter gives, or that the hook needs; uft is a name somebody      *)
(* chose for the tracker.                                                  *)
EXTENDS RewriteFile

MCImports == {"_", "tracker", "uft", "ctx"}

Types == {"context", "gin", "other"}
Field(type, name) == [type |-> type, name |-> name]

Parameters ==
    {<<>>}
    \cup {<<Field(t, n)>> : t \in Types, n \in {"", "_", "a"}}
    \cup {<<Field(t, ""), Field("other", "")>> : t \in Types}
    \cup {<<Field(t, m), Field("other", n)>> :
             t \in Types, m \in {"_", "a"}, n \in {"_", "uft", "__ufErr", "string"}}

Results ==
    {<<>>}
    \cup {<<Field(t, n)>> : t \in {"error", "other"}, n \in {"", "_", "ctx", "nil"}}
    \cup {<<Field(t, ""), Field("error", "")>> : t \in {"error", "other"}}
    \cup {<<Field(t, "_"), Field("error", n)>> : t \in {"error", "other"}, n \in {"_", "err"}}

Function(params, results, body) ==
    [params |-> params, results |-> results, bound |-> {}, locals |-> {}, free |-> {},
     own |-> FALSE, body |-> body, hooks |-> <<>>]

Plain ==
    {Function(p, r, TRUE) : p \in Parameters, r \in Results}
    \cup {Function(p, <<>>, FALSE) : p \in Parameters}

\* With a hook of its own, a receiver, a local variable, or something from
\* outside the function.
AnyFunction ==
    Plain
    \cup {[fn EXCEPT !.own = TRUE]    : fn \in Plain}
    \cup {[fn EXCEPT !.bound = {x}]  : fn \in Plain, x \in {"tracker", "ctx"}}
    \cup {[fn EXCEPT !.locals = {x}] : fn \in Plain, x \in {"ctx", "__ufR0"}}
    \cup {[fn EXCEPT !.free = {"ctx"}] : fn \in Plain}

OtherFunction ==
    {Function(<<Field("context", "a")>>, <<>>, TRUE),
     Function(<<Field("other", ""), Field("other", "")>>, <<>>, TRUE)}

MCFiles ==
    LET Compiled == {fn \in AnyFunction : Sound(fn)}
    IN  {<<f>> : f \in Compiled}
        \cup {<<f, g>> : f \in Compiled, g \in OtherFunction}
        \cup {<<g, f>> : f \in Compiled, g \in OtherFunction}
=============================================================================
