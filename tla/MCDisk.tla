-------------------------------- MODULE MCDisk --------------------------------
EXTENDS DiskEngine

\* One drive with inverted data, one with a protected disc and one plain one.
Few ==
    [op : {"write"}, place : {<<0, 1>>, <<1, 2>>}, slot : {1}, value : {2}]
        \cup [op : {"read", "write"}, place : {<<2, 1>>, <<0, 2>>}, slot : {0}, value : {2}]
=============================================================================
