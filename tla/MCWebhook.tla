------------------------------ MODULE MCWebhook ------------------------------
(***************************************************************************)
(* A small instance of Webhook: a read-only volume that the push matches,  *)
(* and a writeable one that no demand may reach.                           *)
(***************************************************************************)
EXTENDS Webhook, TLC

CONSTANTS r1, r2

Followed ==
    [ours |-> TRUE, modes |-> {"ReadOnlyMany"}, secret |-> "hook", namespace |-> "team",
     repository |-> "host/repository", ref |-> <<"main">>]

MCAttributes ==
    [one       |-> Followed,
     writeable |-> [Followed EXCEPT !.modes = {"ReadWriteOncePod"}]]

MCPush ==
    [secret |-> "hook", namespace |-> "team", repositories |-> {"host/repository"},
     ref |-> <<"heads", "main">>]

Symmetry == Permutations(Requests)

=============================================================================
