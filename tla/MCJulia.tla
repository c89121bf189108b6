------------------------------- MODULE MCJulia -------------------------------
(***************************************************************************)
(* Small instances of Julia: which keys the user has, and how often he may *)
(* use them and the two buttons of the board, is set per configuration.    *)
(***************************************************************************)
EXTENDS Julia

CONSTANTS c1, c2

g == Key("EV_GET_VERSION")
c == ComputeKey
a == Key("EV_ABORT")
s == Key("EV_SET_COMPUTE")
d == Key("EV_RESET_CHUNK")
l == Key("EV_CLEAR_BUFFER")
r == Key("EV_REFRESH")
f == Key("EV_COMPUTE_CPU")
j == Key("EV_SHOW_ARTWORK")
t == Key("EV_SHOW_ANIMATION")
p == Key("EV_SHOW_PARAMETERS")
m == Key("EV_SAVE_AS_PPM")
q == Key("EV_QUIT")
u(which) == KeyParam("EV_CHANGE_PAR", which)
plus == KeyParam("EV_SETCHANGE", 1)
minus == KeyParam("EV_SETCHANGE", 0)

\* Every key, with one of the editable numbers for all of them.
AllKeys == {g, c, a, s, d, l, r, f, j, t, p, m, q, u(0), u(1), u(N), u(WIDTH),
            u(HEIGHT), plus, minus}
\* The keys that cross what is under way.
AbortKeys == {c, a, s, d, r}
\* The keys that neither abort nor refresh, with N as the parameter.
JobKeys == {c, s, d, l, u(N), plus}
\* The keys of a user who computes, with one that only fills the queue.
FloodKeys == {c, s, p}
=============================================================================
