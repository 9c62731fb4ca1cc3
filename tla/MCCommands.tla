------------------------------ MODULE MCCommands ------------------------------
EXTENDS CommandStream

\* A program that is fed from the batch, a batch within a batch, a command
\* file that does not fit, and a command that does not exist.
Three == << <<"xsub", "ask", "run">>, <<"run", "submit", "run">>,
            <<"ask", "toobig", "bad", "run">> >>
=============================================================================
