SPECIFICATION Spec
CONSTANT RMax = 6
PROPERTY ImplementsResource
