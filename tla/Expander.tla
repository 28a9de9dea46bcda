------------------------------ MODULE Expander ------------------------------
(***************************************************************************)
(* The macro expander (lib/ext/eval.c:14-371).  An environment maps        *)
(* identifiers, symbols and the aliases macros make, to unique symbols; it *)
(* has no parent when it is the environment of a library.  Macros are      *)
(* keyed by unique symbols, so that a definition can shadow one.  A lambda *)
(* is expanded after the rest of the body it stands in, when that body's   *)
(* definitions are known: expand leaves a skeleton (expand_defer) that     *)
(* expand_deferred fills in.                                               *)
(*                                                                         *)
(* The functions are pure: each takes the expander's state st and returns  *)
(* the datum "v" with the new state.  In st, envs are the environments,    *)
(* ucnt is pic->ucnt, macros is pic->macros, deferred the list under       *)
(* expansion, done the lambdas already filled in, and ids the number of    *)
(* aliases made.                                                           *)
(***************************************************************************)
EXTENDS Syntax, TLC, SequencesExt

NoEnv == 0
Top   == 1     \* default_env

Keywords == {"core#define", "core#set!", "core#quote", "core#lambda",
             "core#if", "core#begin", "core#define-macro"}

\* pic_init_eval
InitialExpander ==
  [envs |-> <<[up |-> NoEnv, map |-> [k \in {Sym(n) : n \in Keywords} |-> k]]>>,
   ucnt |-> 0, macros |-> [u \in {} |-> ""], deferred |-> <<>>,
   done |-> <<>>, ids |-> 0]

extend_env(st, up) ==
  [st EXCEPT !.envs = Append(@, [up |-> up, map |-> [k \in {} |-> Sym("")]])]

search_scope(st, id, env) == id \in DOMAIN st.envs[env].map

\* The environment, from env up, that binds id; NoEnv when none does.
RECURSIVE search(_, _, _)
search(st, id, env) ==
  IF env = NoEnv \/ search_scope(st, id, env) THEN env
  ELSE search(st, id, st.envs[env].up)

RECURSIVE pic_id_name(_)
pic_id_name(id) == IF id.t = "sym" THEN id.name ELSE pic_id_name(id.base)

pic_set_identifier(st, id, uid, env) ==
  [st EXCEPT !.envs[env].map = (id :> uid) @@ @]

\* The names of the default environment have the empty prefix.
pic_add_identifier(st, id, env) ==
  LET global == st.envs[env].up = NoEnv /\ id.t = "sym"
      uid == Sym(IF global THEN id.name
                 ELSE "." \o pic_id_name(id) \o "." \o ToString(st.ucnt))
      st1 == IF global THEN st ELSE [st EXCEPT !.ucnt = @ + 1]
  IN  IF search_scope(st, id, env)
      THEN [v |-> st.envs[env].map[id], st |-> st]
      ELSE [v |-> uid, st |-> pic_set_identifier(st1, id, uid, env)]

RECURSIVE root(_, _)
root(st, env) ==
  IF st.envs[env].up = NoEnv THEN env ELSE root(st, st.envs[env].up)

RECURSIVE pic_find_identifier(_, _, _)
pic_find_identifier(st, id, env) ==
  LET e == search(st, id, env)
  IN  CASE e # NoEnv     -> [v |-> st.envs[e].map[id], st |-> st]
        [] id.t = "sym"  -> pic_add_identifier(st, id, root(st, env))
        [] OTHER         -> pic_find_identifier(st, id.base, id.env)

\* Macro transformers are Scheme procedures.  Two stand for them, written
\* with aliases made in the environment of their definition ("the" of
\* piclib/boot.scm):
\*   (or2 a b) => ((lambda (t) (if t t b)) a)   binds a variable
\*   (dup a)   => (cons a a)                    refers to a global
transform(mac, form, st) ==
  LET the(n, k) == Alias(Sym(n), Top, st.ids + k)
      st1 == [st EXCEPT !.ids = @ + 3]
  IN  CASE form.t # "list" -> [v |-> Undef, st |-> st]
        [] form.t = "list" /\ mac = "or2" ->
             [v |-> List(<<List(<<the("core#lambda", 1), List(<<the("t", 2)>>),
                                  List(<<the("core#if", 3), the("t", 2),
                                         the("t", 2), form.s[3]>>)>>),
                           form.s[2]>>),
              st |-> st1]
        [] OTHER ->
             [v |-> List(<<the("cons", 1), form.s[2], form.s[2]>>), st |-> st1]

find_macro(st, uid) == uid \in DOMAIN st.macros
shadow_macro(st, uid) ==
  [st EXCEPT !.macros = [u \in DOMAIN @ \ {uid} |-> @[u]]]

RECURSIVE expand(_, _, _)

expand_var(id, env, st) ==
  LET f == pic_find_identifier(st, id, env)
  IN  IF find_macro(f.st, f.v)
      THEN LET m == transform(f.st.macros[f.v], id, f.st) IN expand(m.v, env, m.st)
      ELSE f

\* The forms in order, each in the state that the one before leaves.
expand_list(s, env, st) ==
  LET add(r, x) == [v |-> Append(r.v, x.v), st |-> x.st]
  IN  FoldLeft(LAMBDA r, f : add(r, expand(f, env, r.st)),
               [v |-> <<>>, st |-> st], s)

\* A lambda list, whose tail may be an identifier.
expand_formals(f, env, st) ==
  LET like(r) == [v |-> CASE f.t = "list" -> List(r.v)
                          [] f.t = "dot"  -> Dot(Front(r.v), Last(r.v))
                          [] OTHER        -> r.v[1],
                  st |-> r.st]
  IN  like(expand_list(Formals(f) \o Rest(f), env, st))

expand_defer(f, env, st) ==
  LET k == Len(st.done) + 1
  IN  [v |-> [t |-> "skel", k |-> k],
       st |-> [st EXCEPT !.deferred = Append(@, [f |-> f, k |-> k]),
                         !.done = Append(@, Undef)]]

RECURSIVE expand_lambda(_, _, _)

\* The lambdas put off in st are filled in, in the order met.
expand_deferred(env, st) ==
  LET fill(k, l) == [l.st EXCEPT !.done[k] = l.v]
  IN  FoldLeft(LAMBDA r, d : fill(d.k, expand_lambda(d.f, env, r)),
               st, st.deferred)

expand_lambda(f, env, st) ==
  LET in == Len(st.envs) + 1
      bound == FoldLeft(LAMBDA r, id : pic_add_identifier(r, id, in).st,
                        [extend_env(st, env) EXCEPT !.deferred = <<>>],
                        Formals(f.s[2]) \o Rest(f.s[2]))
      close(formal, body) ==
        [v |-> Lambda(formal.v, body.v),
         st |-> [expand_deferred(in, body.st) EXCEPT !.deferred = st.deferred]]
      expand_body(formal) == close(formal, expand(f.s[3], in, formal.st))
  IN  expand_body(expand_formals(f.s[2], in, bound))

expand_define(f, env, st) ==
  LET a == pic_add_identifier(st, f.s[2], env)
      x == expand(f.s[3], env, shadow_macro(a.st, a.v))
  IN  [v |-> Define(a.v, x.v), st |-> x.st]

expand_defmacro(f, env, st) ==
  LET a == pic_add_identifier(st, f.s[2], env)
  IN  [v |-> Undef, st |-> [a.st EXCEPT !.macros = (a.v :> f.s[3].mac) @@ @]]

expand_form(f, env, st) ==
  LET h == pic_find_identifier(st, f.s[1], env)
  IN  CASE h.v.name = "core#define-macro" -> expand_defmacro(f, env, h.st)
        [] h.v.name = "core#lambda"       -> expand_defer(f, env, h.st)
        [] h.v.name = "core#define"       -> expand_define(f, env, h.st)
        [] h.v.name = "core#quote"        -> [v |-> Quote(f.s[2]), st |-> h.st]
        [] find_macro(h.st, h.v) ->
             LET m == transform(h.st.macros[h.v], f, h.st)
             IN  expand(m.v, env, m.st)
        [] OTHER -> LET l == expand_list(f.s, env, h.st)
                    IN  [v |-> List(l.v), st |-> l.st]

\* expand_node
expand(f, env, st) ==
  CASE IsId(f) -> expand_var(f, env, st)
    [] f.t = "list" /\ f.s # <<>> /\ IsId(f.s[1]) -> expand_form(f, env, st)
    [] f.t = "list" /\ (f.s = <<>> \/ ~IsId(f.s[1])) ->
         LET l == expand_list(f.s, env, st) IN [v |-> List(l.v), st |-> l.st]
    [] OTHER -> [v |-> f, st |-> st]

\* The skeletons, which the code fills in place.
RECURSIVE Fill(_, _)
Fill(f, done) ==
  CASE f.t = "skel" -> Fill(done[f.k], done)
    [] f.t = "list" -> IF Is(f, "core#quote") THEN f
                       ELSE List([i \in DOMAIN f.s |-> Fill(f.s[i], done)])
    [] OTHER        -> f

pic_expand(f, env, st) ==
  LET x == expand(f, env, [st EXCEPT !.deferred = <<>>, !.done = <<>>])
      y == expand_deferred(env, x.st)
  IN  [v |-> Fill(x.v, y.done), st |-> y]
=============================================================================
