--------------------------- MODULE MCFileService ---------------------------
(* One client reads files and directories, the other changes the names; of *)
(* the files one fills a chunk exactly and one needs a second chunk.       *)
EXTENDS FileService

MCClients == {"reader", "writer"}
MCCalls == [reader |-> {"getFile", "getFileDirectory"}, writer |-> {"delete", "rename"}]
MCTimeouts == [reader |-> 2, writer |-> 0]
MCSize == [short |-> 1, long |-> 2]
MCFirstStore == <<"short", "long", NoFile>>
=============================================================================
