-------------------------------- MODULE Pages -------------------------------
(***************************************************************************)
(* A browser tab of the app.  It shows one page at a time, each keeping    *)
(* its state in hooks of its own: a canvas, a studio's generate button, a  *)
(* job being generated, a script's batch, a cut in the editor or a scene   *)
(* being blocked out.  Pages share nothing but the server, where each      *)
(* writes rows of its own; what may go wrong is between a page and the     *)
(* answers, frames and sessions that reach it.                             *)
(***************************************************************************)
EXTENDS CanvasSync, SubmitOnce, JobStream, ScriptBatch, EditorSession,
        BlockingSave

CONSTANT OpenPages   \* the pages the tab may be opened on

VARIABLE open        \* the page it is opened on
pagesVars == <<canvasVars, submitVars, streamVars, batchVars, editorVars,
               blockingVars, open>>

(* The kind of a batch matters to the page that runs one.                  *)
PagesInit ==
    /\ open \in OpenPages
    /\ CanvasInit /\ SubmitInit /\ StreamInit /\ BatchInit /\ EditorInit /\ BlockingInit
    /\ open # "script" => batch.kind = "images"

OnCanvas == /\ open = "canvas" /\ CanvasNext
            /\ UNCHANGED <<submitVars, streamVars, batchVars, editorVars, blockingVars, open>>

OnStudio == /\ open = "studio" /\ SubmitNext
            /\ UNCHANGED <<canvasVars, streamVars, batchVars, editorVars, blockingVars, open>>

OnJob == /\ open = "job" /\ StreamNext
         /\ UNCHANGED <<canvasVars, submitVars, batchVars, editorVars, blockingVars, open>>

OnScript == /\ open = "script" /\ BatchNext
            /\ UNCHANGED <<canvasVars, submitVars, streamVars, editorVars, blockingVars, open>>

OnEditor == /\ open = "editor" /\ EditorNext
            /\ UNCHANGED <<canvasVars, submitVars, streamVars, batchVars, blockingVars, open>>

OnBlocking == /\ open = "blocking" /\ BlockingNext
              /\ UNCHANGED <<canvasVars, submitVars, streamVars, batchVars, editorVars, open>>

PagesNext == OnCanvas \/ OnStudio \/ OnJob \/ OnScript \/ OnEditor \/ OnBlocking

PagesSpec == PagesInit /\ [][PagesNext]_pagesVars

(* The pages' states are what their hooks can hold.                        *)
PagesTypeOK ==
    /\ open \in OpenPages
    /\ CanvasTypeOK /\ SubmitTypeOK /\ StreamTypeOK /\ BatchTypeOK /\ EditorTypeOK
    /\ BlockingTypeOK
=============================================================================
