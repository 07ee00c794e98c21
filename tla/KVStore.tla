------------------------------ MODULE KVStore ------------------------------
(***************************************************************************)
(* collections.KVStore: small blobs wait in memory until pack() writes     *)
(* them into one numbered Parquet file, large ones are files of their own; *)
(* the index, saved as a whole after every put and pack, says which.       *)
(*                                                                         *)
(* Contents are numbered from 1, 0 stands for "nothing" and for bytes that *)
(* are half written.  Pack blobs-<n> is pack n + 1, 0 is "no pack_file".   *)
(***************************************************************************)
EXTENDS Naturals, FiniteSets

CONSTANTS Keys, Contents

VARIABLES index,    \* the index, as saved
          inline,   \* _inline: small blobs not packed yet
          blobs,    \* files under blobs/
          packs     \* blobs-<n>.parquet

kvVars == <<index, inline, blobs, packs>>

Packs == 1 .. Cardinality(Keys) + 1
NoEntry == [content |-> 0, small |-> FALSE, pack |-> 0]
Nothing == [k \in Keys |-> 0]

KVTypeOK ==
    /\ index \in [Keys -> [content : Contents \union {0}, small : BOOLEAN,
                           pack : Packs \union {0}]]
    /\ inline \in [Keys -> Contents \union {0}]
    /\ blobs \in [Keys -> Contents \union {0}]
    /\ packs \in [Packs -> [Keys -> Contents \union {0}]]

KVInit ==
    /\ index = [k \in Keys |-> NoEntry]
    /\ inline = Nothing /\ blobs = Nothing
    /\ packs = [n \in Packs |-> Nothing]

-----------------------------------------------------------------------------

Entry(content, small) == [content |-> content, small |-> small, pack |-> 0]

\* put: the new entry knows nothing of a pack the key was in; a small blob that
\* waits is not dropped when a large one takes its key.
Put(k, content, small) ==
    /\ IF small THEN inline' = [inline EXCEPT ![k] = content] /\ UNCHANGED blobs
                ELSE blobs' = [blobs EXCEPT ![k] = content] /\ UNCHANGED inline
    /\ index' = [index EXCEPT ![k] = Entry(content, small)]
    /\ UNCHANGED packs

Waiting == {k \in Keys : inline[k] # 0}

\* Mutated form of NextPack: every pack has the same name.
NextPackConstant == 1

NextPack == 1 + Cardinality({k \in Keys : index[k].pack # 0})

Pack ==
    /\ Waiting # {}
    /\ packs' = [packs EXCEPT ![NextPack] = inline]
    /\ index' = [k \in Keys |-> IF k \in Waiting
                                THEN [index[k] EXCEPT !.pack = NextPack]
                                ELSE index[k]]
    /\ inline' = Nothing
    /\ UNCHANGED blobs

\* The process ends: what is in memory is gone, the files stay.
Forget == inline' = Nothing /\ UNCHANGED <<index, blobs, packs>>

\* It ends inside put, the blob file opened and maybe written, the index not.
DieInPut(k, content) ==
    /\ blobs' \in {[blobs EXCEPT ![k] = c] : c \in {0, content}}
    /\ inline' = Nothing
    /\ UNCHANGED <<index, packs>>

\* It ends inside pack, before the index is saved.
DieInPack ==
    /\ Waiting # {}
    /\ packs' \in {[packs EXCEPT ![NextPack] = p] : p \in {Nothing, inline}}
    /\ inline' = Nothing
    /\ UNCHANGED <<index, blobs>>

\* The entry of a key leads to the content it was saved for.
Resolves(k) ==
    LET e == index[k]
    IN  /\ e.content # 0
        /\ e.content = IF ~e.small THEN blobs[k]
                       ELSE IF e.pack # 0 THEN packs[e.pack][k] ELSE inline[k]
=============================================================================
