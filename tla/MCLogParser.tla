---------------------------- MODULE MCLogParser ----------------------------
(* LogParser for TLC: what the children of both kinds write, each line with  *)
(* its length and its kind.                                                  *)
EXTENDS LogParser, TLC

OfKind(kind, len) == [kind |-> kind, len |-> len]

BothOutputs ==
    [kube |-> "stdout" :> <<OfKind("X", 3), OfKind("restful", 1), OfKind("S", 2)>>
              @@ "stderr" :> <<OfKind("plain", 2), OfKind("indented", 3)>>,
     etcd |-> "stdout" :> <<OfKind("C", 2), OfKind("noise", 1), OfKind("X", 3)>>
              @@ "stderr" :> <<OfKind("plain", 3), OfKind("W", 2)>>]
=============================================================================
