---------------------------------- MODULE Files ----------------------------------
(***************************************************************************)
(* What reads and writes files: mmap (mem.c), scandir (io.c), the assets   *)
(* (asset_manager.cpp) and the helpers of utils.c.  They share no state:    *)
(* each goes its own way, a step of one with or without steps of others.   *)
(***************************************************************************)
EXTENDS SharedFile, ScanDir, AssetFile, FileUtils

FilesSpec ==
  /\ FileSpec
  /\ ScanInit /\ [][ScanNext]_scanVars
  /\ AssetInit /\ [][AssetNext]_assetVars
  /\ UtilsInit /\ [][UtilsNext]_utilsVars

\* A mapping holds the file's bytes, an asset knows where it is, a scan sorts
\* with its own comparator, and a helper frees, closes and reports what it did
\* whichever step fails.
FilesAreExact ==
  /\ MapIsExact /\ CopiesAreOwned
  /\ RemainingIsLeft /\ OneHandle /\ ZeroIsEnd
  /\ SortedByOwn /\ ScanOwnsNothing
  /\ CopyTellsTruth /\ HandleIsClosed

\* Steps: mmap puts the descriptor back, and file_copy loses its buffer only
\* where saving failed.
StepsCleanUp == OffsetIsPutBack /\ LeakIsFailedSave
==============================================================================
