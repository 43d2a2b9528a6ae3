---------------------------- MODULE MC_Blocklist ----------------------------
(* Three connections, all of one address that the account allows, or one of  *)
(* them of an address that is exempt and not allowed.                        *)
EXTENDS Blocklist, TLC

CONSTANTS c1, c2, c3

plain == <<"10", "0", "0", "1">>
exempt == <<"172", "31", "7", "9">>
MCIp == {plain, exempt}
MCPeers == {[c \in Conn |-> plain], [c \in Conn |-> IF c = c3 THEN exempt ELSE plain]}
MCPatterns == {<<"172", "31", "*", "*">>}
MCAllowIp == {plain}
MCAnswers == {[ok |-> TRUE, auth |-> "set", full |-> FALSE],
              [ok |-> TRUE, auth |-> "set", full |-> TRUE],
              [ok |-> FALSE, auth |-> "absent", full |-> FALSE]}
Sym == Permutations({c1, c2})

=============================================================================
