\* Requests before, while and after the service registers, over a bus that loses
\* a message.
SPECIFICATION RpcFairSpec
CONSTANTS
    cap1 = cap1
    cap2 = cap2
    Caps <- TwoCaps
    OtherCap = other
    Calls = {r1, r2}
    MaxLost = 1
INVARIANTS
    ReplyIsTrue
 
