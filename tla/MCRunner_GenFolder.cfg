CONSTANT Shapes <- MCFolderShapes
SPECIFICATION Spec
INVARIANT GenFolder
