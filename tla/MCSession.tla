----------------------------- MODULE MCSession ------------------------------
EXTENDS Session

\* A blank line, a command within the limit and one beyond it, which the server
\* still serves when its newline is read along with the rest.
MCCalls == {[kind |-> "Empty", size |-> 0], [kind |-> "Get", size |-> 1],
            [kind |-> "Keys", size |-> 2]}

MCPipeline == <<[kind |-> "Get", size |-> 1], [kind |-> "Empty", size |-> 0],
                [kind |-> "Set", size |-> 1], [kind |-> "Bad", size |-> 1],
                [kind |-> "Del", size |-> 1]>>
=============================================================================
