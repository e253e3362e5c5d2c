------------------------------ MODULE MCParmake ------------------------------
(* A goal over two leaves, a diamond, a goal next to a cyclic one, and two   *)
(* goals that share a dependency.                                            *)
EXTENDS Parmake, TLC
CONSTANTS a, b, c, d
No == [r \in Rules |-> {}]
MCMakefiles == {
  [goals |-> <<a>>,    deps |-> [No EXCEPT ![a] = {b, c}]],
  [goals |-> <<a>>,    deps |-> [No EXCEPT ![a] = {b, c}, ![b] = {d}, ![c] = {d}]],
  [goals |-> <<b, a>>, deps |-> [No EXCEPT ![a] = {d}, ![b] = {c}, ![c] = {b}]],
  [goals |-> <<a, b>>, deps |-> [No EXCEPT ![a] = {c}, ![b] = {c}, ![c] = {d}]] }
=============================================================================
