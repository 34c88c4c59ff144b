----------------------------- MODULE MCBridges -----------------------------
(* Instance of Bridges for TLC.                                            *)
EXTENDS Bridges, TLC

CONSTANTS o1, o2, o3, o4, o5, q1, f1, h1

MCConfigs == {[paper |-> TRUE, allow_live |-> FALSE], [paper |-> FALSE, allow_live |-> FALSE]}

MCSnapshots ==
    {[pattern |-> "gartley", entry |-> 100, exit |-> 110, stop |-> 95, zrpc |-> 99],
     [pattern |-> "gartley", entry |-> 100, exit |-> 80, stop |-> 130, zrpc |-> 101],
     [pattern |-> "bat", entry |-> NoPrice, exit |-> 110, stop |-> 95, zrpc |-> NoPrice]}

Load(reqs, rs, g, c, fs, x) ==
    [requests |-> reqs, results |-> rs, gens |-> g, calls |-> c, fetches |-> fs, faults |-> x, skills |-> FALSE]

(* A generation at its cap; two generations with reads and a fault; a      *)
(* server that stalls, dies and is started again; results and observations *)
(* with faults; the freqtrade client at its cap; and the skills.           *)
MCWorkloads ==
    {Load(<<o1, o2, o3, o4>>, {}, 1, 0, 0, 0), Load(<<o1, q1, o5, o2>>, {}, 2, 0, 0, 1),
     Load(<<o1, q1>>, {}, 1, 0, 0, 3),
     Load(<<o1>>, {f1, h1}, 1, 0, 0, 1), Load(<<>>, {h1}, 1, 0, 2, 1), Load(<<>>, {}, 1, 7, 0, 0),
     [Load(<<>>, {}, 1, 0, 0, 0) EXCEPT !.skills = TRUE]}

(* Installations within one second of which one dies, or in two seconds.   *)
Apart == second' = 0 \/ shopFaults' = 0
MCSpec == Init /\ [][Next /\ Apart]_vars /\ Fairness
============================================================================
