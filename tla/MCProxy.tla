-------------------------------- MODULE MCProxy --------------------------------
(* Small scripts for Proxy: one line of each kind that the code treats       *)
(* differently, in the orders that matter.                                   *)
EXTENDS Proxy

Request  == Line(FALSE, <<"request">>)
Response == Line(FALSE, <<"response">>)
Blank    == Line(FALSE, <<>>)
Batch    == Line(TRUE, <<"request", "response", "notification", "request">>)
Single   == Line(TRUE, <<"request">>)
Replies  == Line(TRUE, <<"response", "response">>)

Both(client, server) == [d \in Directions |-> IF d = "c2s" THEN client ELSE server]

Talk  == { Both(<<Request>>, <<Response, Response>>) }
Quiet == { Both(<<Request>>, <<>>) }

Mixed ==
    { Both(c, s) : c \in { <<Batch, Request>>, <<Blank, Single>>, <<Request, LongLine>> },
                   s \in { <<Replies>>, <<LongLine>> } }
    \cup Talk
===============================================================================
