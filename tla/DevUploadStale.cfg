SPECIFICATION Spec
CONSTANT Frames <- MCOne
INVARIANT OnlyAnUploadStandsTheMenuDown
