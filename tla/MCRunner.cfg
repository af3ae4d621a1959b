CONSTANT Shapes <- MCShapes
SPECIFICATION Spec
INVARIANTS TypeOK AllGenerated RunOnce EmitFolder Balanced AnsweredOnce
PROPERTY Ends
