------------------------------- MODULE AssetFile -------------------------------
(***************************************************************************)
(* An asset of reimpl/asset_manager.cpp: a FILE with a count of the bytes  *)
(* read and the size found when it was opened.  The C library's FILE is    *)
(* modelled by its position and its end-of-file indicator.                 *)
(***************************************************************************)
EXTENDS Integers

CONSTANTS
  MaxSize,       \* bound of an asset's size
  MaxBytesRead   \* bound of the bytes read through one asset
ASSUME AssetAssumption == MaxSize \in Nat

VARIABLES
  asset,         \* the aAsset, or NoAsset
  position,      \* of its FILE
  eof,
  handles,       \* FILEs open
  sought,        \* whether AAsset_seek moved this asset
  returned       \* what the last call returned, and for which one

assetVars == <<asset, position, eof, handles, sought, returned>>

NoAsset == [bytesRead |-> 0, fileSize |-> -1, opened |-> FALSE]
Said(call, value) == returned' = [call |-> call, value |-> value]

AssetInit ==
  /\ asset = NoAsset
  /\ position = 0 /\ eof = FALSE /\ handles = 0 /\ sought = FALSE
  /\ returned = [call |-> "none", value |-> 0]

AAssetManager_open ==
  /\ asset = NoAsset
  /\ \/ /\ \E size \in 0..MaxSize :
             asset' = [bytesRead |-> 0, fileSize |-> size, opened |-> TRUE]
        /\ position' = 0 /\ eof' = FALSE
        /\ handles' = handles + 1
        /\ sought' = FALSE
        /\ Said("open", 1)
     \/ /\ Said("open", 0)
        /\ UNCHANGED <<asset, position, eof, handles, sought>>

\* AAsset_read of `count` bytes; `part` of those there are arrive.
CountsBlocks(bytesRead, part) == bytesRead + 1     \* as fread(buf, count, 1, f)
Counted(bytesRead, part) == bytesRead + part
AAsset_read ==
  /\ asset # NoAsset
  /\ \E count \in 0 .. MaxSize + 1 :
       LET left == IF position < asset.fileSize THEN asset.fileSize - position ELSE 0
           most == IF count < left THEN count ELSE left
       IN \E part \in 0..most :
            /\ asset.bytesRead + part <= MaxBytesRead
            /\ IF ~asset.opened
               THEN Said("read", -1) /\ UNCHANGED <<asset, position, eof>>
               ELSE /\ position' = position + part
                    /\ eof' = (eof \/ (count > left /\ part = left))
                    /\ asset' = [asset EXCEPT !.bytesRead =
                                   IF part > 0 THEN Counted(@, part) ELSE @]
                    /\ Said("read", CASE part > 0 -> part
                                      [] part = 0 /\ eof' -> 0
                                      [] OTHER -> -1)
  /\ UNCHANGED <<handles, sought>>

\* AAsset_seek returns what fseek does, and leaves bytesRead alone.
AAsset_seek ==
  /\ asset # NoAsset
  /\ \/ /\ asset.opened
        /\ position' \in 0..MaxSize
        /\ eof' = FALSE
        /\ sought' = TRUE
        /\ Said("seek", 0)
     \/ /\ Said("seek", -1)
        /\ UNCHANGED <<position, eof, sought>>
  /\ UNCHANGED <<asset, handles>>

AAsset_getRemainingLength ==
  /\ asset # NoAsset
  /\ Said("remaining", IF asset.opened THEN asset.fileSize - asset.bytesRead ELSE -1)
  /\ UNCHANGED <<asset, position, eof, handles, sought>>

AAsset_getLength ==
  /\ asset # NoAsset
  /\ Said("length", asset.fileSize)
  /\ UNCHANGED <<asset, position, eof, handles, sought>>

\* AAsset_openFileDescriptor closes the FILE and opens the name again; the
\* asset stays, closed.
AAsset_openFileDescriptor ==
  /\ asset # NoAsset
  /\ asset' = [asset EXCEPT !.opened = FALSE]
  /\ handles' = IF asset.opened THEN handles - 1 ELSE handles
  /\ \E fd \in {-1, 3} : Said("fd", fd)
  /\ UNCHANGED <<position, eof, sought>>

AAsset_close ==
  /\ asset # NoAsset
  /\ handles' = IF asset.opened THEN handles - 1 ELSE handles
  /\ asset' = NoAsset
  /\ Said("close", 0)
  /\ UNCHANGED <<position, eof, sought>>

AssetNext ==
  \/ AAssetManager_open \/ AAsset_read \/ AAsset_seek \/ AAsset_getRemainingLength
  \/ AAsset_getLength \/ AAsset_openFileDescriptor \/ AAsset_close

------------------------------------------------------------------------------
\* The remaining length is what is left to read as long as the engine only
\* reads; a seek makes it wrong for good, also below zero.
RemainingIsLeft ==
  asset # NoAsset /\ asset.opened /\ ~sought =>
    asset.fileSize - asset.bytesRead = asset.fileSize - position

\* One FILE is open while the asset is and has not been turned into a
\* descriptor, and it is closed once, whichever of the two closes it.
OneHandle == handles = IF asset.opened THEN 1 ELSE 0

\* A read that says "end of file" has nothing left to give.
ZeroIsEnd ==
  returned = [call |-> "read", value |-> 0] => position >= asset.fileSize
==============================================================================
